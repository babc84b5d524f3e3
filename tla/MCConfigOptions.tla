-------------------------- MODULE MCConfigOptions --------------------------
EXTENDS ConfigOptions

\* A PINPOINT_LABELS entry: number of ":"-parts, key and value.
E(parts, kid, klen, vid, vlen) ==
  [parts |-> parts, key |-> [id |-> kid, len |-> klen],
   val |-> [id |-> vid, len |-> vlen]]
Blank == E(1, 0, 0, 0, 0)

\* "a:x;b:x", ";a:y;" (trimmed), "a:x;;b:x", "a:x;a" and two keys that
\* agree on their first 255 runes, 65 distinct keys, and 64 distinct keys
\* followed by a malformed entry.
LOk == <<E(2, 1, 3, 1, 3), E(2, 2, 3, 1, 3)>>
LTrim == <<Blank, E(2, 1, 3, 2, 3), Blank>>
LHole == <<E(2, 1, 3, 1, 3), Blank, E(2, 2, 3, 1, 3)>>
LNoColon == <<E(2, 1, 3, 1, 3), E(1, 1, 3, 0, 0)>>
LLong == <<E(2, 1, 300, 1, 3), E(2, 1, 256, 2, 400)>>
L65 == [i \in 1..65 |-> E(2, i, 3, 1, 3)]
L64Bad == [i \in 1..65 |-> IF i = 65 THEN E(3, 1, 3, 1, 3) ELSE E(2, i, 3, 1, 3)]

\* An environment with only the given labels value set.
LabelsOnly(l) ==
  [PINPOINT_ENABLED |-> "", PINPOINT_APP_NAME |-> "",
   PINPOINT_COLLECTOR_TCP_PORT |-> "", PINPOINT_HIGH_SECURITY |-> "",
   PINPOINT_DISTRIBUTED_TRACING_ENABLED |-> "",
   PINPOINT_UTILIZATION_LOGICAL_PROCESSORS |-> "",
   PINPOINT_LICENSE_KEY |-> "", PINPOINT_LABELS |-> l,
   PINPOINT_ATTRIBUTES_INCLUDE |-> "", PINPOINT_ATTRIBUTES_EXCLUDE |-> "",
   PINPOINT_LOG |-> "", PINPOINT_LOG_LEVEL |-> ""]

MCEnvs ==
  [PINPOINT_ENABLED : {"", "true", "BOGUS"},
   PINPOINT_APP_NAME : {"", "envapp"},
   PINPOINT_COLLECTOR_TCP_PORT : {"", "9984", "BOGUS"},
   PINPOINT_HIGH_SECURITY : {"", "1"},
   PINPOINT_DISTRIBUTED_TRACING_ENABLED : {""},
   PINPOINT_UTILIZATION_LOGICAL_PROCESSORS : {""},
   PINPOINT_LICENSE_KEY : {""}, PINPOINT_LABELS : {<<>>},
   PINPOINT_ATTRIBUTES_INCLUDE : {"", "host,method"},
   PINPOINT_ATTRIBUTES_EXCLUDE : {"", "method,"},
   PINPOINT_LOG : {"", "STDOUT", "BOGUS"}, PINPOINT_LOG_LEVEL : {"", "debug"}]
  \cup {LabelsOnly(l) : l \in {LOk, LTrim, LHole, LNoColon, LLong, L65}}

\* The documented variables whose assignments are commented out.
MCEnvsDoc ==
  [PINPOINT_ENABLED : {""}, PINPOINT_APP_NAME : {""},
   PINPOINT_COLLECTOR_TCP_PORT : {""}, PINPOINT_HIGH_SECURITY : {""},
   PINPOINT_DISTRIBUTED_TRACING_ENABLED : {"", "true"},
   PINPOINT_UTILIZATION_LOGICAL_PROCESSORS : {"", "BOGUS"},
   PINPOINT_LICENSE_KEY : {"", "key"}, PINPOINT_LABELS : {<<>>},
   PINPOINT_ATTRIBUTES_INCLUDE : {""}, PINPOINT_ATTRIBUTES_EXCLUDE : {""},
   PINPOINT_LOG : {""}, PINPOINT_LOG_LEVEL : {""}]

MCEnvsLabels == {LabelsOnly(l) : l \in {LOk, LHole, LNoColon, L64Bad}}

MCSetters ==
  {[field |-> "Enabled", value |-> FALSE],
   [field |-> "AppName", value |-> "optapp"],
   [field |-> "TCPPort", value |-> 9994],
   [field |-> "DistTracing", value |-> TRUE],
   [field |-> "License", value |-> "optkey"],
   [field |-> "Logger", value |-> MakeLogger("stderr", "")]}

MCYamls ==
  [read : {"ok"}, parse : {"ok", "invalid"}, enabled : {"unset", "false"},
   appName : {"yamlapp"}, tcpPort : {0, 9986}, std : {"", "stderr", "BOGUS"},
   level : {"d"}]
  \cup {[read |-> "err", parse |-> "ok", enabled |-> "unset", appName |-> "",
         tcpPort |-> 0, std |-> "", level |-> ""]}

MCDecimal == [s \in {"9984"} |-> 9984]

\* strings.Split keeps the empty part after a trailing comma.
MCCommaSplit == ("host,method" :> <<"host", "method">>) @@ ("method," :> <<"method", "">>)
=============================================================================

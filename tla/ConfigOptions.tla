--------------------------- MODULE ConfigOptions ---------------------------
(***************************************************************************)
(* The configuration pipeline of src/pinpoint/config_options.go: a caller *)
(* applies ConfigOptions to a Config one after another (NewApplication,    *)
(* outside src/, runs `for _, fn := range opts { fn(&cfg) }`).  An option *)
(* is a field setter (ConfigEnabled, ConfigAppName, ...), the environment *)
(* option configFromEnvironment(getenv), or the file option                *)
(* configFromYaml(data, err).                                              *)
(*                                                                         *)
(* Data abstraction.  Environment values and YAML scalars are strings      *)
(* from small sets; strconv.ParseBool and strconv.Atoi are given by the    *)
(* tables BoolText and Decimal.  A PINPOINT_LABELS value is the sequence  *)
(* of its ";"-separated entries; an entry records how many ":"-parts it    *)
(* splits into and its key and value after TrimSpace, each a string       *)
(* identity and a length in runes (len 0 is blank).  Config.Error is the   *)
(* name of the input that set it, or NoError.  One field of each kind     *)
(* (bool, string, int) stands for the others its assign helper or setter  *)
(* writes the same way (AgentID, Collector.IP, StatPort, SpanPort, Host,   *)
(* ...).                                                                   *)
(***************************************************************************)
EXTENDS Integers, Sequences, FiniteSets, TLC

CONSTANTS Setters,     \* set of [field, value]: the plain setter options
          Envs,        \* environments: records from variable name to value
          Yamls,       \* configFromYaml inputs
          Decimal,     \* strconv.Atoi: decimal text -> value
          CommaSplit,  \* strings.Split(s, ","): text -> sequence of parts
          MaxOptions   \* bound on options applied

\* Labels: at most 64 labels, keys and values cut to 255 runes (233-263).
LabelCap == 64
MaxRunes == 255

\* strconv.ParseBool.
BoolText == [s \in {"1", "t", "T", "TRUE", "true", "True"} |-> TRUE] @@
            [s \in {"0", "f", "F", "FALSE", "false", "False"} |-> FALSE]
\* A ConfigOption writes into one of these fields.
Fields == {"Enabled", "AppName", "TCPPort", "HighSecurity", "DistTracing",
           "LogicalProcessors", "License", "Labels", "Logger",
           "AttrInclude", "AttrExclude"}
NoError == "none"
Nil == "nil"
\* A nil map: getLabels' nil and an empty map are told apart only by len.
NilMap == <<>>

\* getLogDest (209-218) and isDebugEnv (220-227).
getLogDest(s) ==
  CASE s \in {"stdout", "Stdout", "STDOUT"} -> "stdout"
    [] s \in {"stderr", "Stderr", "STDERR"} -> "stderr"
    [] OTHER -> Nil
isDebugEnv(s) == s \in {"debug", "Debug", "DEBUG", "d", "D"}
\* NewLogger / NewDebugLogger on a destination.
MakeLogger(dest, level) ==
  [dest |-> dest, debug |-> isDebugEnv(level)]

VARIABLES cfg,    \* the Config being built
          nOpts,  \* options applied so far
          last    \* the last option applied (history for the properties)

vars == <<cfg, nOpts, last>>

\* defaultConfig() (outside src/): enabled, no labels, no logger, no error.
defaultConfig ==
  [Enabled |-> TRUE, AppName |-> "", TCPPort |-> 0, HighSecurity |-> FALSE,
   DistTracing |-> FALSE, LogicalProcessors |-> 0, License |-> "",
   Labels |-> NilMap, Logger |-> MakeLogger(Nil, ""),
   AttrInclude |-> <<>>, AttrExclude |-> <<>>, Error |-> NoError]

---------------------------------------------------------------------------
(* getLabels(env).  Entries is the strings.Split(env, ";") of the trimmed *)
(* value: Trim removes the empty entries at both ends, and an empty value *)
(* splits into one empty entry.  A blank entry stands for one made of the *)
(* characters strings.Trim removes (";\t\n\v\f\r "); the inputs have no   *)
(* end entry of other white space, which the code would keep and reject.  *)
IsBlank(e) == e.parts = 1 /\ e.key.len = 0
TrimEnds(s) ==
  LET keep == {i \in DOMAIN s : ~IsBlank(s[i])}
      lo == IF keep = {} THEN 1 ELSE CHOOSE i \in keep : \A j \in keep : i <= j
      hi == IF keep = {} THEN 0 ELSE CHOOSE i \in keep : \A j \in keep : i >= j
  IN IF keep = {} THEN <<[parts |-> 1, key |-> [id |-> 0, len |-> 0],
                          val |-> [id |-> 0, len |-> 0]]>>
     ELSE SubSeq(s, lo, hi)
Truncate(k) == [k EXCEPT !.len = IF @ > MaxRunes THEN MaxRunes ELSE @]
\* out[left] = right on a map kept as a function.
Put(out, k, v) == [x \in DOMAIN out \cup {k} |-> IF x = k THEN v ELSE out[x]]

\* Mutant: the cap is tested with > instead of >=.
RECURSIVE LabelLoopCapOffByOne(_, _)
LabelLoopCapOffByOne(es, out) ==
  IF es = <<>> THEN out
  ELSE LET e == Head(es) IN
       IF e.parts # 2 \/ e.key.len = 0 \/ e.val.len = 0 THEN NilMap
       ELSE LET o == Put(out, Truncate(e.key), Truncate(e.val)) IN
            IF Cardinality(DOMAIN o) > LabelCap THEN o
            ELSE LabelLoopCapOffByOne(Tail(es), o)

(* The loop of getLabels: an empty entry, an entry that is not one        *)
(* key:value pair, or a blank key or value returns nil; otherwise both are *)
(* cut to 255 runes and stored, and the loop returns as soon as the map   *)
(* holds 64 labels.                                                        *)
RECURSIVE LabelLoop(_, _)
LabelLoop(es, out) ==
  IF es = <<>> THEN out
  ELSE LET e == Head(es) IN
       IF e.parts # 2 \/ e.key.len = 0 \/ e.val.len = 0 THEN NilMap
       ELSE LET o == Put(out, Truncate(e.key), Truncate(e.val)) IN
            IF Cardinality(DOMAIN o) >= LabelCap THEN o
            ELSE LabelLoop(Tail(es), o)

getLabels(entries) == LabelLoop(TrimEnds(entries), NilMap)
LabelCount(m) == Cardinality(DOMAIN m)

---------------------------------------------------------------------------
(* The assign helpers of configFromEnvironment (131-153): an unset (empty) *)
(* variable leaves the field alone; an unparsable one sets Config.Error.  *)
\* Mutant: a successful parse also stores the parse error, clearing Error.
AssignBoolStoresErr(c, f, e, name) ==
  IF e[name] = "" THEN c
  ELSE IF e[name] \in DOMAIN BoolText
         THEN [c EXCEPT ![f] = BoolText[e[name]], !.Error = NoError]
         ELSE [c EXCEPT !.Error = name]

AssignBool(c, f, e, name) ==
  IF e[name] = "" THEN c
  ELSE IF e[name] \in DOMAIN BoolText THEN [c EXCEPT ![f] = BoolText[e[name]]]
       ELSE [c EXCEPT !.Error = name]

AssignInt(c, f, e, name) ==
  IF e[name] = "" THEN c
  ELSE IF e[name] \in DOMAIN Decimal THEN [c EXCEPT ![f] = Decimal[e[name]]]
       ELSE [c EXCEPT !.Error = name]

\* Mutant: the string is stored without the check that it is set.
AssignStringUnguarded(c, f, e, name) == [c EXCEPT ![f] = e[name]]

AssignString(c, f, e, name) ==
  IF e[name] = "" THEN c ELSE [c EXCEPT ![f] = e[name]]

(* PINPOINT_LABELS (180-186): set labels if getLabels returns any, else   *)
(* the error.  An unset variable is the empty entry sequence.              *)
AssignLabels(c, e) ==
  LET env == e["PINPOINT_LABELS"] IN
  IF env = <<>> THEN c
  ELSE LET labels == getLabels(env) IN
       IF LabelCount(labels) > 0 THEN [c EXCEPT !.Labels = labels]
       ELSE [c EXCEPT !.Error = "PINPOINT_LABELS"]

\* Mutant: the logger is opened on the variable's text, not on getLogDest.
AssignLogRawDest(c, e) ==
  LET env == e["PINPOINT_LOG"] IN
  IF env = "" THEN c
  ELSE IF getLogDest(env) # Nil
         THEN [c EXCEPT !.Logger = MakeLogger(env, e["PINPOINT_LOG_LEVEL"])]
         ELSE [c EXCEPT !.Error = "PINPOINT_LOG"]

(* PINPOINT_ATTRIBUTES_INCLUDE and _EXCLUDE (188-193): a set variable      *)
(* replaces the list by its comma-separated parts, empty parts included.  *)
AssignAttributes(c, e) ==
  LET Split(f, name) ==
        IF e[name] = "" THEN c[f] ELSE CommaSplit[e[name]]
  IN [c EXCEPT !.AttrInclude = Split("AttrInclude", "PINPOINT_ATTRIBUTES_INCLUDE"),
               !.AttrExclude = Split("AttrExclude", "PINPOINT_ATTRIBUTES_EXCLUDE")]

(* PINPOINT_LOG and PINPOINT_LOG_LEVEL (195-205).                          *)
AssignLog(c, e) ==
  LET env == e["PINPOINT_LOG"] IN
  IF env = "" THEN c
  ELSE IF getLogDest(env) # Nil
         THEN [c EXCEPT !.Logger = MakeLogger(getLogDest(env),
                                              e["PINPOINT_LOG_LEVEL"])]
         ELSE [c EXCEPT !.Error = "PINPOINT_LOG"]

(* configFromEnvironment(getenv)(cfg), in the order of the code; the      *)
(* assignments of lines 170-178 (license, distributed tracing,            *)
(* utilization) are commented out.                                         *)
configFromEnvironment(c, e) ==
  LET c1 == AssignBool(c, "Enabled", e, "PINPOINT_ENABLED")
      c2 == AssignString(c1, "AppName", e, "PINPOINT_APP_NAME")
      c3 == AssignInt(c2, "TCPPort", e, "PINPOINT_COLLECTOR_TCP_PORT")
      c4 == AssignBool(c3, "HighSecurity", e, "PINPOINT_HIGH_SECURITY")
  IN AssignLog(AssignAttributes(AssignLabels(c4, e), e), e)

\* Mutant: a failed unmarshal sets the error but does not return, so the
\* fields yaml.v2 decoded before the type error are applied.
configFromYamlNoReturn(c, y) ==
  IF y.read = "err" THEN [c EXCEPT !.Error = "yaml_read"]
  ELSE LET c1 == IF y.parse = "ok" THEN c ELSE [c EXCEPT !.Error = "yaml"]
           c2 == [c1 EXCEPT
                    !.Enabled = IF y.enabled = "unset" THEN @
                                ELSE y.enabled = "true",
                    !.AppName = IF y.appName = "" THEN @ ELSE y.appName,
                    !.TCPPort = IF y.tcpPort = 0 THEN @ ELSE y.tcpPort]
       IN IF y.std = "" THEN c2
          ELSE IF getLogDest(y.std) # Nil
                 THEN [c2 EXCEPT !.Logger = MakeLogger(getLogDest(y.std),
                                                       y.level)]
                 ELSE [c2 EXCEPT !.Error = "yaml_log"]

(* configFromYaml(data, err)(cfg): a read error or an unmarshal error     *)
(* sets Error and returns; otherwise every non-zero field of the file      *)
(* overrides the Config, and log.std selects the logger.  y.enabled is    *)
(* the *bool: "unset" for nil.                                             *)
configFromYaml(c, y) ==
  IF y.read = "err" THEN [c EXCEPT !.Error = "yaml_read"]
  ELSE IF y.parse # "ok" THEN [c EXCEPT !.Error = "yaml"]
  ELSE LET c2 == [c EXCEPT
                    !.Enabled = IF y.enabled = "unset" THEN @
                                ELSE y.enabled = "true",
                    !.AppName = IF y.appName = "" THEN @ ELSE y.appName,
                    !.TCPPort = IF y.tcpPort = 0 THEN @ ELSE y.tcpPort]
       IN IF y.std = "" THEN c2
          ELSE IF getLogDest(y.std) # Nil
                 THEN [c2 EXCEPT !.Logger = MakeLogger(getLogDest(y.std),
                                                       y.level)]
                 ELSE [c2 EXCEPT !.Error = "yaml_log"]

---------------------------------------------------------------------------
Apply(newCfg, opt) ==
  /\ nOpts < MaxOptions
  /\ cfg' = newCfg
  /\ nOpts' = nOpts + 1
  /\ last' = opt

(* ConfigEnabled, ConfigAppName, ConfigCollectorTCPPort,                   *)
(* ConfigDistributedTracerEnabled, ConfigLicense, ConfigLogger, ...: each *)
(* returns func(cfg *Config) { cfg.F = v }.                                *)
ApplySetter(s) ==
  Apply([cfg EXCEPT ![s.field] = s.value], [kind |-> "set", set |-> s])

ApplyEnvironment(e) ==
  Apply(configFromEnvironment(cfg, e), [kind |-> "env", env |-> e])

ApplyYaml(y) ==
  Apply(configFromYaml(cfg, y), [kind |-> "yaml", yaml |-> y])

Init ==
  /\ cfg = defaultConfig
  /\ nOpts = 0
  /\ last = [kind |-> "none"]

Next ==
  \/ \E s \in Setters : ApplySetter(s)
  \/ \E e \in Envs : ApplyEnvironment(e)
  \/ \E y \in Yamls : ApplyYaml(y)

Spec == Init /\ [][Next]_vars

---------------------------------------------------------------------------
Key == [id : Nat, len : Nat]
Logger == [dest : {"stdout", "stderr", Nil}, debug : BOOLEAN]

TypeOK ==
  /\ cfg.Enabled \in BOOLEAN /\ cfg.HighSecurity \in BOOLEAN
  /\ cfg.DistTracing \in BOOLEAN
  /\ cfg.TCPPort \in Int /\ cfg.LogicalProcessors \in Int
  /\ DOMAIN cfg.Labels \subseteq Key
  /\ \A k \in DOMAIN cfg.Labels : cfg.Labels[k] \in Key
  /\ cfg.Logger \in Logger
  /\ cfg.AttrInclude \in Seq(STRING) /\ cfg.AttrExclude \in Seq(STRING)
  /\ nOpts \in 0..MaxOptions

\* Whether environment variable v is set (getenv(v) != "").
IsSet(e, v) == IF v = "PINPOINT_LABELS" THEN e[v] # <<>> ELSE e[v] # ""
\* The variables each field is read from (line 97-118 doc comment).
EnvOf == [Enabled |-> {"PINPOINT_ENABLED"}, AppName |-> {"PINPOINT_APP_NAME"},
          TCPPort |-> {"PINPOINT_COLLECTOR_TCP_PORT"},
          HighSecurity |-> {"PINPOINT_HIGH_SECURITY"},
          DistTracing |-> {"PINPOINT_DISTRIBUTED_TRACING_ENABLED"},
          LogicalProcessors |-> {"PINPOINT_UTILIZATION_LOGICAL_PROCESSORS"},
          License |-> {"PINPOINT_LICENSE_KEY"},
          Labels |-> {"PINPOINT_LABELS"}, Logger |-> {"PINPOINT_LOG"},
          AttrInclude |-> {"PINPOINT_ATTRIBUTES_INCLUDE"},
          AttrExclude |-> {"PINPOINT_ATTRIBUTES_EXCLUDE"}]
\* Whether option o supplies a value for field f.
Provides(o, f) ==
  CASE o.kind = "set" -> o.set.field = f
    [] o.kind = "env" -> \E v \in EnvOf[f] : IsSet(o.env, v)
    [] o.kind = "yaml" ->
         LET y == o.yaml IN
         /\ y.read = "ok" /\ y.parse = "ok"
         /\ \/ f = "Enabled" /\ y.enabled # "unset"
            \/ f = "AppName" /\ y.appName # ""
            \/ f = "TCPPort" /\ y.tcpPort # 0
            \/ f = "Logger" /\ y.std # ""
    [] OTHER -> FALSE

(* An option changes only the fields its input supplies: an environment   *)
(* variable that is unset leaves the value an earlier option gave         *)
(* (TestConfigFromEnvironmentIgnoresUnset), and a YAML file that cannot   *)
(* be read or unmarshalled changes no field at all, even when yaml.v2     *)
(* decoded part of it before failing.                                      *)
InputFrame ==
  [][\A f \in Fields : cfg'[f] # cfg[f] => Provides(last', f)]_vars

\* The environment variables of e that configFromEnvironment rejects.
RejectedVars(e) ==
  {v \in {"PINPOINT_ENABLED", "PINPOINT_HIGH_SECURITY"} :
     e[v] # "" /\ e[v] \notin DOMAIN BoolText}
  \cup {v \in {"PINPOINT_COLLECTOR_TCP_PORT"} :
          e[v] # "" /\ e[v] \notin DOMAIN Decimal}
  \cup {v \in {"PINPOINT_LOG"} : e[v] # "" /\ getLogDest(e[v]) = Nil}
  \cup {v \in {"PINPOINT_LABELS"} :
          e[v] # <<>> /\ LabelCount(getLabels(e[v])) = 0}

\* Whether option o meets an input the code rejects.
Rejects(o) ==
  \/ /\ o.kind = "env"
     /\ RejectedVars(o.env) # {}
  \/ /\ o.kind = "yaml"
     /\ \/ o.yaml.read = "err"
        \/ o.yaml.parse # "ok"
        \/ o.yaml.std # "" /\ getLogDest(o.yaml.std) = Nil

(* An error is never lost: when an option returns, Config.Error is set if *)
(* an earlier option set it or if any input of this option was rejected, *)
(* even when a later variable of the same environment, or a later part of *)
(* the same file, is valid (the assign helpers run one after another on   *)
(* one Config).                                                           *)
ErrorNeverCleared ==
  [][(cfg.Error # NoError \/ Rejects(last')) => cfg'.Error # NoError]_vars

(* Labels never exceed the documented limits of getLabels: at most 64     *)
(* labels, keys and values non-blank and at most 255 runes, whatever the  *)
(* number of entries, duplicate keys and long keys that collide once cut. *)
LabelsBounded ==
  /\ LabelCount(cfg.Labels) <= LabelCap
  /\ \A k \in DOMAIN cfg.Labels :
       k.len \in 1..MaxRunes /\ cfg.Labels[k].len \in 1..MaxRunes

\* The documented variables (doc comment 97-118) with the field they set.
DocBool == [Enabled |-> "PINPOINT_ENABLED",
            HighSecurity |-> "PINPOINT_HIGH_SECURITY",
            DistTracing |-> "PINPOINT_DISTRIBUTED_TRACING_ENABLED"]
DocInt == [LogicalProcessors |-> "PINPOINT_UTILIZATION_LOGICAL_PROCESSORS"]
DocString == [AppName |-> "PINPOINT_APP_NAME",
              License |-> "PINPOINT_LICENSE_KEY"]

(* The doc comment of ConfigFromEnvironment and TestConfigFromEnvironment,*)
(* TestConfigFromEnvironmentInvalidInt: every documented variable that is *)
(* set is honoured: a valid value is stored in its field, an invalid one  *)
(* sets Config.Error ("This function is strict").                         *)
DocumentedEnvHonoured ==
  [][last'.kind = "env" =>
      LET e == last'.env IN
      /\ \A f \in DOMAIN DocBool : IsSet(e, DocBool[f]) =>
           IF e[DocBool[f]] \in DOMAIN BoolText
             THEN cfg'[f] = BoolText[e[DocBool[f]]]
             ELSE cfg'.Error # NoError
      /\ \A f \in DOMAIN DocInt : IsSet(e, DocInt[f]) =>
           IF e[DocInt[f]] \in DOMAIN Decimal
             THEN cfg'[f] = Decimal[e[DocInt[f]]]
             ELSE cfg'.Error # NoError
      /\ \A f \in DOMAIN DocString : IsSet(e, DocString[f]) =>
           cfg'[f] = e[DocString[f]]]_vars

\* An entry of PINPOINT_LABELS that is one key:value pair, neither blank.
ValidEntry(x) == x.parts = 2 /\ x.key.len > 0 /\ x.val.len > 0

(* "This function is strict and will assign Config.Error if any of the    *)
(* environment variables cannot be parsed": a PINPOINT_LABELS value with  *)
(* a malformed entry anywhere sets Config.Error.                          *)
LabelsStrict ==
  [][last'.kind = "env" /\ IsSet(last'.env, "PINPOINT_LABELS") =>
      LET es == TrimEnds(last'.env["PINPOINT_LABELS"]) IN
      (\E i \in DOMAIN es : ~ValidEntry(es[i])) => cfg'.Error # NoError]_vars

=============================================================================

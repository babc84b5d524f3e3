------------------------------ MODULE MysqlDSN ------------------------------
(***************************************************************************)
(* src/integrations/nrmysql/nrmysql.go: parseDSN and parseConfig, which    *)
(* fill the datastore segment's Host and PortPathOrID from the network and *)
(* address of a MySQL DSN.                                                 *)
(*                                                                         *)
(* Data abstraction.  An address is a sequence of characters drawn from    *)
(* Chars: a host character "a", a port digit "1", and the three characters *)
(* ":", "[" and "]" that net.SplitHostPort looks at.  A Text is such a     *)
(* sequence.  mysql.ParseDSN is outside the repository; what it hands to   *)
(* parseConfig is the input set Parsed (see below).                        *)
(***************************************************************************)
EXTENDS Integers, Sequences, SequencesExt

CONSTANTS Nets,       \* values of cfg.Net
          MaxAddrLen  \* longest address enumerated

Chars == {"a", "1", ":", "[", "]"}
Localhost == <<"a", "a">>   \* the text "localhost"
DefaultPort == <<"1">>      \* the text "3306"
SocketNets == {"unix", "unixgram", "unixpacket"}

Has(s, c) == Contains(s, c)
After(s, i) == SubSeq(s, i, Len(s))

(* net.SplitHostPort(hostport): the host and port of "host:port" or       *)
(* "[host]:port", or an error (missing port, too many colons, a misplaced *)
(* bracket).                                                               *)
SplitErr == [ok |-> FALSE, host |-> <<>>, port |-> <<>>]
SplitHostPort(s) ==
  LET i == SelectLastInSeq(s, LAMBDA c : c = ":")
      e == SelectInSeq(s, LAMBDA c : c = "]")
      Tail3(host, j, k) ==
        IF Has(After(s, j), "[") \/ Has(After(s, k), "]") THEN SplitErr
        ELSE [ok |-> TRUE, host |-> host, port |-> After(s, i + 1)]
  IN IF i = 0 THEN SplitErr
     ELSE IF s[1] = "["
       THEN IF e = 0 \/ e + 1 # i THEN SplitErr
            ELSE Tail3(SubSeq(s, 2, e - 1), 2, e + 1)
     ELSE IF Has(SubSeq(s, 1, i - 1), ":") THEN SplitErr
     ELSE Tail3(SubSeq(s, 1, i - 1), 1, 1)

\* net.JoinHostPort: brackets a host that contains a colon.
JoinHostPort(h, p) ==
  IF Has(h, ":") THEN <<"[">> \o h \o <<"]", ":">> \o p ELSE h \o <<":">> \o p

(* What mysql.ParseDSN can hand to parseConfig: a TCP address always      *)
(* carries a port (normalize adds ":3306" through ensureHavePort); any     *)
(* other network needs a non-empty address, or ParseDSN fails.             *)
Addrs == SeqOf(Chars, MaxAddrLen)
EnsureHavePort(a) ==
  IF SplitHostPort(a).ok THEN a ELSE JoinHostPort(a, DefaultPort)
Parsed == {[net |-> n, addr |-> IF n = "tcp" THEN EnsureHavePort(a) ELSE a] :
             n \in Nets, a \in Addrs \ {<<>>}}
DSNError == [net |-> "", addr |-> <<>>]

NoSegment == [set |-> FALSE, host |-> <<>>, ppoid |-> <<>>]
Seg(h, p) == [set |-> TRUE, host |-> h, ppoid |-> p]

\* Mutant: a Cloud SQL segment takes its host from cfg.Net, not cfg.Addr.
parseConfigNetAsHost(cfg) ==
  CASE cfg.net \in SocketNets -> Seg(Localhost, cfg.addr)
    [] cfg.net = "cloudsql" -> Seg(<<cfg.net>>, <<>>)
    [] OTHER -> LET r == SplitHostPort(cfg.addr) IN
                IF ~r.ok THEN Seg(cfg.addr, <<>>)
                ELSE IF r.host = <<>> THEN Seg(Localhost, r.port)
                ELSE Seg(r.host, r.port)

\* Mutant: an empty host from SplitHostPort is kept instead of "localhost".
parseConfigNoLocalhost(cfg) ==
  CASE cfg.net \in SocketNets -> Seg(Localhost, cfg.addr)
    [] cfg.net = "cloudsql" -> Seg(cfg.addr, <<>>)
    [] OTHER -> LET r == SplitHostPort(cfg.addr) IN
                IF ~r.ok THEN Seg(cfg.addr, <<>>) ELSE Seg(r.host, r.port)

(* parseConfig: a socket network is on localhost with the socket path as  *)
(* PortPathOrID; a Cloud SQL instance name is the host; otherwise split    *)
(* host and port, keeping the whole address as host when that fails and  *)
(* reading an empty host as localhost.                                     *)
parseConfig(cfg) ==
  CASE cfg.net \in SocketNets -> Seg(Localhost, cfg.addr)
    [] cfg.net = "cloudsql" -> Seg(cfg.addr, <<>>)
    [] OTHER -> LET r == SplitHostPort(cfg.addr) IN
                IF ~r.ok THEN Seg(cfg.addr, <<>>)
                ELSE IF r.host = <<>> THEN Seg(Localhost, r.port)
                ELSE Seg(r.host, r.port)

VARIABLES cfg,  \* what mysql.ParseDSN returned for the DSN
          seg   \* the datastore segment's host fields

(* parseDSN: fill the segment unless ParseDSN failed.                      *)
ParseDSN ==
  /\ ~seg.set
  /\ cfg # DSNError
  /\ seg' = parseConfig(cfg)
  /\ UNCHANGED cfg

Init ==
  /\ cfg \in Parsed \cup {DSNError}
  /\ seg = NoSegment

Spec == Init /\ [][ParseDSN]_<<cfg, seg>>

---------------------------------------------------------------------------
TypeOK ==
  /\ cfg \in Parsed \cup {DSNError}
  /\ seg \in [set : BOOLEAN, host : Seq(Chars), ppoid : Seq(Chars)]

(* Reference: the endpoint the driver dials.  A TCP-style address is      *)
(* "host:port", or "[host]:port" where the host may hold colons; host and *)
(* port contain no brackets and the port no colon; an empty host means    *)
(* the local machine.  An address of no such shape names no host and port *)
(* and is reported whole.                                                  *)
Plain(t) == ~Has(t, "[") /\ ~Has(t, "]")
Colons(a) == {i \in 1..Len(a) : a[i] = ":"}
HostPorts(a) ==
  {hp \in {<<SubSeq(a, 1, i - 1), After(a, i + 1)>> : i \in Colons(a)}
          \cup {<<SubSeq(a, 2, i - 2), After(a, i + 1)>> :
                   i \in {i \in Colons(a) : i >= 3 /\ a[1] = "[" /\ a[i - 1] = "]"}} :
     /\ Plain(hp[1]) /\ Plain(hp[2]) /\ ~Has(hp[2], ":")
     /\ \/ ~Has(hp[1], ":") /\ a = hp[1] \o <<":">> \o hp[2]
        \/ a = <<"[">> \o hp[1] \o <<"]", ":">> \o hp[2]}
RefEndpoint(c) ==
  CASE c.net \in SocketNets -> Seg(Localhost, c.addr)
    [] c.net = "cloudsql" -> Seg(c.addr, <<>>)
    [] HostPorts(c.addr) = {} -> Seg(c.addr, <<>>)
    [] OTHER -> LET hp == CHOOSE x \in HostPorts(c.addr) : TRUE IN
                Seg(IF hp[1] = <<>> THEN Localhost ELSE hp[1], hp[2])

(* The segment names the endpoint the DSN dials, for every network and    *)
(* address shape: IPv6 literals in brackets, an empty host (":3306"),     *)
(* addresses SplitHostPort rejects, and socket paths.                      *)
SegmentNamesEndpoint ==
  seg.set => seg = RefEndpoint(cfg)

=============================================================================

---------------------------- MODULE TraceIdCodec ----------------------------
(***************************************************************************)
(* Inbound and outbound cross-process trace context,                       *)
(* src/pinpoint/cross_process_http.go.                                     *)
(*                                                                         *)
(* Data abstraction.  A header value is a Text: the empty string, an       *)
(* application/agent name, a decimal literal (optional sign, optional      *)
(* leading zeros, a magnitude), or a decimal literal too large for int64  *)
(* ("huge").  Names contain no "^", so                                     *)
(* a trace-id header value is represented by its strings.Split(v, "^")     *)
(* parts: a non-empty sequence of Texts ("" is <<Empty>>); an agent id     *)
(* that itself contains "^" is a sequence of several name parts.  strconv  *)
(* ParseInt/Atoi accept exactly the decimal Texts whose value fits in      *)
(* 64 bits; FormatInt yields the canonical decimal Text.                   *)
(***************************************************************************)
EXTENDS Integers, Sequences

CONSTANTS PartTexts,   \* the Texts a "^"-separated trace-id part may be
          FieldTexts,  \* the Texts of the numeric headers
          MaxParts     \* longest trace-id header, in "^"-separated parts

ASSUME MaxParts \in Nat \ {0}

Signs == {"", "+", "-"}
Empty == [kind |-> "empty"]
Name == [kind |-> "name"]
Huge == [kind |-> "huge"]
Dec(s, p, m) == [kind |-> "dec", sign |-> s, pad |-> p, mag |-> m]
Text == {Empty, Name, Huge} \cup
          [kind : {"dec"}, sign : Signs, pad : BOOLEAN, mag : Nat]

\* strconv.ParseInt(t, 10, 64) and strconv.Atoi(t) on a 64-bit platform.
Parses(t) == t.kind = "dec"
IntVal(t) == IF t.sign = "-" THEN -t.mag ELSE t.mag
\* strconv.FormatInt(n, 10).
FormatInt(n) == Dec(IF n < 0 THEN "-" ELSE "", FALSE, IF n < 0 THEN -n ELSE n)
\* The Go conversion int16(x): two's-complement truncation to 16 bits.
Int16(x) == ((x + 32768) % 65536) - 32768

\* encodeTraceID(agentID, startTime, sequenceID): agentID^start^seq.  The
\* function is outside src/ (spec.md 4.1); agentID is a sequence of parts.
encodeTraceID(agent, st, sq) == agent \o <<FormatInt(st), FormatInt(sq)>>

(* http.Header restricted to the keys the agent reads; Get of an absent   *)
(* key is "".  NilHeader is a nil http.Header.                             *)
NilHeader == [nil |-> TRUE]
Header == [nil : {FALSE},
           traceid : UNION {[1..n -> PartTexts] : n \in 1..MaxParts},
           pappname : {Name}, papptype : FieldTexts, pspanid : FieldTexts,
           spanid : FieldTexts, flags : {Name}]
HeaderType == [nil : {FALSE}, traceid : Seq(Text), pappname : Text,
               papptype : Text, pspanid : Text, spanid : Text, flags : Text]

Metadata == [traceid : Seq(Text), pappname : Text, papptype : -32768..32767,
             pspanid : Int, spanid : Int, flags : Text,
             traceidEncoded : Seq(Text)]

\* The zero crossProcessMetadata with PinpointPspanid = -1.
NoContext == [traceid |-> <<Empty>>, pappname |-> Empty, papptype |-> 0,
              pspanid |-> -1, spanid |-> 0, flags |-> Empty,
              traceidEncoded |-> <<Empty>>]

(* One request: its header arrives, InboundHTTPRequest decodes it, and the *)
(* header for the next hop is built from the stored context.               *)
VARIABLES hdr,       \* the header of the inbound request
          phase,     \* "received", "decoded", "sent"
          inbound,   \* txnCrossProcess.InboundMetadata
          outbound,  \* header produced for the next hop
          outFrom    \* the metadata that outbound was produced from

vars == <<hdr, phase, inbound, outbound, outFrom>>

---------------------------------------------------------------------------
(* httpHeaderToMetadata: split the trace id on "^" into exactly three     *)
(* parts, parse start time and sequence id, re-encode them; parse the     *)
(* application type (Atoi, then int16), the parent span id and span id.   *)
(* Any failure returns the zero metadata with PinpointPspanid = -1.        *)
httpHeaderToMetadata(h) ==
  IF h.nil THEN NoContext
  ELSE LET tl == h.traceid IN
       IF /\ Len(tl) = 3
          /\ Parses(tl[2]) /\ Parses(tl[3])
          /\ Parses(h.papptype)
          /\ Parses(h.pspanid)
          /\ Parses(h.spanid)
       THEN [traceid |-> tl,
             pappname |-> h.pappname,
             papptype |-> Int16(IntVal(h.papptype)),
             pspanid |-> IntVal(h.pspanid),
             spanid |-> IntVal(h.spanid),
             flags |-> h.flags,
             traceidEncoded |-> encodeTraceID(<<tl[1]>>, IntVal(tl[2]),
                                              IntVal(tl[3]))]
       ELSE NoContext

(* metadataToHTTPHeader: every field assignment in the function body is   *)
(* commented out, so it returns an empty http.Header whatever it is given. *)
metadataToHTTPHeader(m) ==
  [nil |-> FALSE, traceid |-> <<Empty>>, pappname |-> Empty,
   papptype |-> Empty, pspanid |-> Empty, spanid |-> Empty, flags |-> Empty]

(* txnCrossProcess.InboundHTTPRequest(hdr): decode and store; it always   *)
(* returns nil.                                                            *)
InboundHTTPRequest ==
  /\ phase = "received"
  /\ phase' = "decoded"
  /\ inbound' = httpHeaderToMetadata(hdr)
  /\ UNCHANGED <<hdr, outbound, outFrom>>

OutboundHTTPRequest ==
  /\ phase = "decoded"
  /\ phase' = "sent"
  /\ outbound' = metadataToHTTPHeader(inbound)
  /\ outFrom' = inbound
  /\ UNCHANGED <<hdr, inbound>>

Init ==
  /\ hdr \in Header \cup {NilHeader}
  /\ phase = "received"
  /\ inbound = NoContext
  /\ outbound = NilHeader
  /\ outFrom = NoContext

Next == InboundHTTPRequest \/ OutboundHTTPRequest

Spec == Init /\ [][Next]_vars

---------------------------------------------------------------------------
(* spec.md 4.1: decoding fails unless the trace id has exactly three      *)
(* non-empty parts.                                                        *)
AgentIdNonEmpty ==
  inbound # NoContext => inbound.traceid[1] # Empty

(* spec.md 3: the application type is the int16 the header carries; a    *)
(* value the agent cannot represent is "unparsable" and yields no context. *)
AppTypePreserved ==
  inbound # NoContext => inbound.papptype = IntVal(hdr.papptype)

(* spec.md 4.1: metadataToHeaders is the inverse of headersToMetadata: the *)
(* next hop decodes the context the agent propagated.                      *)
OutboundRoundTrip ==
  outbound # NilHeader => httpHeaderToMetadata(outbound) = outFrom

=============================================================================

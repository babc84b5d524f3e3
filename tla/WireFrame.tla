----------------------------- MODULE WireFrame -----------------------------
(***************************************************************************)
(* The wire frame encoder, src/thrift/io/serializer.go, and the byte      *)
(* stream it produces on one collector connection.                         *)
(*                                                                         *)
(* EncodeTstruct writes the payload frame: signature int8 -17, version    *)
(* uint8 16, the message type as a big-endian uint16, then the Thrift      *)
(* compact encoding of the struct.  EncodeTCPTTstuctRequest wraps it in   *)
(* the transport frame: request type uint16, message id uint32, payload    *)
(* length uint32, payload.  Bytes are integers 0..255.  The Thrift library *)
(* is outside the repository: a struct's encoding is given by the constant *)
(* Body, and the structs in WriteFails are those whose Write returns an    *)
(* error.  A uint32 is kept as <<hi16, lo16>> so that values up to          *)
(* 2^32 - 1 stay within TLC's integers.                                    *)
(*                                                                         *)
(* The sender (the harvest loop, outside src/, spec.md 4.4 and 6) encodes  *)
(* records in order and writes each frame to the connection, dropping a   *)
(* record whose encoding fails.  The collector side is the reference       *)
(* decoder DecodeStream.                                                   *)
(***************************************************************************)
EXTENDS Integers, Sequences

CONSTANTS Structs,               \* records the harvest may encode
          Body,                  \* [Structs -> Seq(0..255)]: Thrift encoding
          WriteFails,            \* structs whose tstruct.Write fails
          MsgTypes,              \* message type codes (uint16)
          MsgIds,                \* message ids, as <<hi16, lo16>>
          RequestTypeAppRequest, \* request type constant (outside src/)
          MaxMsgs                \* bound on records the sender handles

ASSUME WriteFails \subseteq Structs
ASSUME MsgTypes \subseteq 0..65535
ASSUME MsgIds \subseteq (0..65535) \X (0..65535)
ASSUME RequestTypeAppRequest \in 0..65535

\* Signature int8 = -17 and DtoVersion uint8 = 16 (serializer.go:10-15).
Signature == -17
DtoVersion == 16

\* binary.Write(&buffer, binary.BigEndian, v) for the widths used here.
Int8BE(v) == <<v % 256>>
Uint8BE(v) == <<v>>
Uint16BE(v) == <<v \div 256, v % 256>>
Uint32BE(v) == Uint16BE(v[1]) \o Uint16BE(v[2])
\* uint32(n) of a non-negative int below 2^31.
ToUint32(n) == <<n \div 65536, n % 65536>>

Msg == [id : MsgIds, mtype : MsgTypes, st : Structs]

\* An encoding result: the bytes, or an error (nil, err).
Ok(b) == [err |-> FALSE, bytes |-> b]
Err == [err |-> TRUE, bytes |-> <<>>]

VARIABLES wire,     \* bytes written to the connection, in order
          sent,     \* messages whose frames were written, in order
          dropped   \* messages dropped because encoding failed

vars == <<wire, sent, dropped>>

---------------------------------------------------------------------------
(* EncodeTstruct(ttype, tstruct): header, then the struct's encoding into  *)
(* the same buffer; a failing Write returns nil and the error.             *)
EncodeTstruct(ttype, st) ==
  IF st \in WriteFails THEN Err
  ELSE Ok(Int8BE(Signature) \o Uint8BE(DtoVersion) \o Uint16BE(ttype)
          \o Body[st])

\* Mutant: the length field counts the struct body only, not the 4-byte
\* payload header.
EncodeTCPTTstuctRequestBodyLen(messageID, ttype, st) ==
  LET inner == EncodeTstruct(ttype, st) IN
  IF inner.err THEN Err
  ELSE Ok(Uint16BE(RequestTypeAppRequest) \o Uint32BE(messageID)
          \o Uint32BE(ToUint32(Len(inner.bytes) - 4)) \o inner.bytes)

(* EncodeTCPTTstuctRequest(messageID, ttype, tstruct): the payload frame,  *)
(* prefixed by request type, message id and the payload's length.          *)
EncodeTCPTTstuctRequest(messageID, ttype, st) ==
  LET inner == EncodeTstruct(ttype, st) IN
  IF inner.err THEN Err
  ELSE Ok(Uint16BE(RequestTypeAppRequest) \o Uint32BE(messageID)
          \o Uint32BE(ToUint32(Len(inner.bytes))) \o inner.bytes)

(* The sender encodes one record and writes the frame whole, or drops the *)
(* record when its encoding fails (spec.md 7, EncodingFailure).            *)
Send(m) ==
  /\ Len(sent) + Len(dropped) < MaxMsgs
  /\ LET r == EncodeTCPTTstuctRequest(m.id, m.mtype, m.st) IN
       IF r.err
         THEN /\ dropped' = Append(dropped, m)
              /\ UNCHANGED <<wire, sent>>
         ELSE /\ wire' = wire \o r.bytes
              /\ sent' = Append(sent, m)
              /\ UNCHANGED dropped

Init ==
  /\ wire = <<>>
  /\ sent = <<>>
  /\ dropped = <<>>

Next == \E m \in Msg : Send(m)

Spec == Init /\ [][Next]_vars

---------------------------------------------------------------------------
TypeOK ==
  /\ wire \in Seq(0..255)
  /\ sent \in Seq(Msg)
  /\ dropped \in Seq(Msg)

\* The collector's reading of a connection's bytes: transport header,
\* dataLength bytes of payload, whose first four bytes are the signature,
\* the version and the message type.  A frame that does not parse ends the
\* stream with BadFrame.
BadFrame == [bad |-> TRUE]
Word(a, b) == a * 256 + b

RECURSIVE DecodeStream(_)
DecodeStream(w) ==
  IF w = <<>> THEN <<>>
  ELSE IF Len(w) < 10 THEN <<BadFrame>>
  ELSE LET n == Word(w[7], w[8]) * 65536 + Word(w[9], w[10])
       IN IF Len(w) < 10 + n \/ n < 4 THEN <<BadFrame>>
          ELSE LET p == SubSeq(w, 11, 10 + n) IN
               IF /\ Word(w[1], w[2]) = RequestTypeAppRequest
                  /\ p[1] = 239 /\ p[2] = DtoVersion
               THEN <<[bad |-> FALSE,
                       id |-> <<Word(w[3], w[4]), Word(w[5], w[6])>>,
                       mtype |-> Word(p[3], p[4]),
                       body |-> SubSeq(p, 5, n)]>>
                    \o DecodeStream(SubSeq(w, 11 + n, Len(w)))
               ELSE <<BadFrame>>

(* The frames on a connection are self-delimiting and exact: the          *)
(* collector, reading the byte stream from the start, recovers every sent *)
(* record in order, with its message id, its message type and the bytes  *)
(* of its struct, and nothing else, whatever the ids, types and body      *)
(* lengths (including 0xFFFFFFFF ids, types above 255 and bodies longer   *)
(* than 255 bytes).                                                        *)
StreamDecodes ==
  DecodeStream(wire) =
    [i \in DOMAIN sent |-> [bad |-> FALSE, id |-> sent[i].id,
                            mtype |-> sent[i].mtype,
                            body |-> Body[sent[i].st]]]

=============================================================================

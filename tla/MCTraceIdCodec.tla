-------------------------- MODULE MCTraceIdCodec --------------------------
(* Trace-id parts: "", an agent name, 3, 7, +7 and 07; numeric headers: *)
(* "", a literal beyond int64, -1, 7 and 40000 (beyond int16).           *)
EXTENDS TraceIdCodec

MCPartTexts == {Empty, Name, Dec("", FALSE, 3), Dec("", FALSE, 7), Dec("+", FALSE, 7),
                Dec("", TRUE, 7)}
MCFieldTexts == {Empty, Huge, Dec("-", FALSE, 1), Dec("", FALSE, 7),
                 Dec("", FALSE, 40000)}
=============================================================================

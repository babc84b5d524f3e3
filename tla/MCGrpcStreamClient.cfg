CONSTANTS
  Structs <- MCStructs
  Body <- MCBody
  WriteFails = {"bad"}
  MsgTypes = {5, 300}
  MsgIds <- MCMsgIds
  RequestTypeAppRequest = 5
  MaxMsgs = 1
  Records <- MCRecords
  NumSends = 3
  MainTxn <- MCMainTxn
SPECIFICATION GSpec
\* The process exits, normally or by a panic; then nothing is enabled.
CHECK_DEADLOCK FALSE
INVARIANTS
  MainTxnReported
PROPERTIES
  Terminates

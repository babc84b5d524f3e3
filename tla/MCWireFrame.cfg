CONSTANTS
  Structs <- MCStructs
  Body <- MCBody
  WriteFails = {"bad"}
  MsgTypes = {5, 300}
  MsgIds <- MCMsgIds
  RequestTypeAppRequest = 5
  MaxMsgs = 3
SPECIFICATION Spec
\* The sender stops after MaxMsgs records.
CHECK_DEADLOCK FALSE
INVARIANTS
  TypeOK
  StreamDecodes

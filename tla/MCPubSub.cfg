CONSTANTS
  Structs <- MCStructs
  Body <- MCBody
  WriteFails = {"bad"}
  MsgTypes = {5, 300}
  MsgIds <- MCMsgIds
  RequestTypeAppRequest = 5
  MaxMsgs = 4
  Records <- MCRecords
  NumPublishes = 2
SPECIFICATION PSpec
\* The process exits, normally or through log.Fatal; then nothing is enabled.
CHECK_DEADLOCK FALSE
INVARIANTS
  EndedBeforeExitSettled

CONSTANTS
  Structs <- MCStructs
  Body <- MCBody
  WriteFails = {"bad"}
  MsgTypes = {5, 300}
  MsgIds <- MCMsgIds
  RequestTypeAppRequest = 5
  MaxMsgs = 3
  Records <- Msg
SPECIFICATION HSpec
\* After shutdown the aggregator is Stopped and nothing is enabled.
CHECK_DEADLOCK FALSE
INVARIANTS
  StreamDecodes
PROPERTIES
  HarvestRefinement
  ShutdownFlushes

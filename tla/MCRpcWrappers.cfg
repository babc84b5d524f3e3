CONSTANTS
  Calls <- MCCalls
  Txns <- MCCalls
  Kind <- MCKind
  NilApp = {"nil"}
  ClientOp <- MCClientOp
  Results <- MCResults
  SegNames = {"external", "message"}
  AttrKeys = {"message.routingKey"}
SPECIFICATION Spec
\* Once every call is served the server only waits for more.
CHECK_DEADLOCK FALSE
INVARIANTS
  TypeOK
  ResponseRecorded
  ClientSegmentsClosed
PROPERTIES
  AllDelivered

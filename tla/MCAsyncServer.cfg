CONSTANTS
  Requests <- MCRequests
  Handlers <- MCAllHandlers
  Txns <- MCTxns
  SegNames <- MCSegNames
  AttrKeys = {}
SPECIFICATION Spec
\* After the modelled requests are served the server only waits for more;
\* a handler that hangs is caught by AllDelivered.
CHECK_DEADLOCK FALSE
INVARIANTS
  TypeOK
  HarvestedSegmentsClosed
  NestedEnd
  WaitGroupOrder
PROPERTIES
  AllDelivered

CONSTANTS
  Requests <- MCHRequests
  Handlers <- MCHHandlers
  Txns <- MCHTxns
  SegNames <- MCSegNames
  AttrKeys = {}
SPECIFICATION Spec
\* After the modelled requests are served the server only waits for more;
\* a handler that hangs is caught by AllDelivered.
CHECK_DEADLOCK FALSE
INVARIANTS
  HarvestedSegmentsClosed
PROPERTIES
  AllDelivered

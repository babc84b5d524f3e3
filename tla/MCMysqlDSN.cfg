CONSTANTS
  Nets = {"tcp", "unix", "cloudsql", "mynet"}
  MaxAddrLen = 4
SPECIFICATION Spec
\* parseDSN runs once per DSN.
CHECK_DEADLOCK FALSE
INVARIANTS
  TypeOK
  SegmentNamesEndpoint

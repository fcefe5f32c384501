SPECIFICATION FairSpec
CONSTANTS
  c1 = c1
  c2 = c2
  c3 = c3
  Conns <- MCConns
  MayFail <- Failures
PROPERTIES
  ShutdownStops
CHECK_DEADLOCK FALSE

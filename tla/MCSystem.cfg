SPECIFICATION SystemFairSpec
CONSTANTS
  c1 = c1
  c2 = c2
  b1 = b1
  None = None
  p1 = p1
  p2 = p2
  owner = owner
  proxy = proxy
  stranger = stranger
  Self = p1
  Procs <- MCProcs
  Users <- MCUsers
  Owner = owner
  Permitted <- MCPermitted
  Conns <- MCConns
  MayFail <- Failures
  Buffers <- MCBuffers
  MayPanic <- MCStreaming
  Streaming <- MCStreaming
  PipeCap = 1
  MaxReads = 1
INVARIANTS
  TypeOK
  ExitCodeTruthful
  OnlyOrphansLeft
  OnlyPermitted
PROPERTIES
  NothingCutOff
  ServeErrorEnds
  PathRespected
  StopsIfClientsGo
CHECK_DEADLOCK FALSE

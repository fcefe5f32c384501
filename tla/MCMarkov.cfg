SPECIFICATION FairSpec
CONSTANTS
  Bytes <- MCBytes
  Newline = "nl"
  Source <- MCSource
  Lengths <- MCLengths
  MaxGiven <- MCMaxGiven
INVARIANTS
  TypeOK
  MapExact
  DeadEndOnlyAtTail
PROPERTIES
  ImplementsStream
  ReadReturns
CHECK_DEADLOCK FALSE

SPECIFICATION FairSpec
CONSTANTS
  Texts <- MCTexts
  MaxToken = 3
INVARIANTS
  TypeOK
  TokensExact
  LostOnlyByLongToken
PROPERTIES
  ScanEnds
CHECK_DEADLOCK FALSE

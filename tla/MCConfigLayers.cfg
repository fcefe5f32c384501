SPECIFICATION Spec
CONSTANTS
  Windows = TRUE
  Unparsable = Unparsable
  Files <- MCFiles
  Environments <- MCEnvironments
INVARIANTS
  TypeOK
  InputsDecide
  WrittenDefaultNeutral

SPECIFICATION Spec
CONSTANTS
  i1 = i1
  i2 = i2
  Instances <- MCInstances
  UserDirKnown = FALSE
  MayFail <- Failures
  Edited <- MCEditedNoHome
PROPERTIES
  EditsSurvive

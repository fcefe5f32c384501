SPECIFICATION FairSpec
CONSTANTS
  i1 = i1
  i2 = i2
  Instances <- MCInstances
  UserDirKnown = TRUE
  MayFail <- Failures
  Edited <- MCEdited
INVARIANTS
  TypeOK
  SettingsHonoured
PROPERTIES
  EditsSurvive
  StartEnds

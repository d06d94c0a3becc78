SPECIFICATION Spec
CONSTANTS
  MicEnabled = TRUE
  MaxTime = 2
  MaxBytes = 2
  SizeMod = 2
INVARIANTS
  PictureSurvives
  SoundSurvives
  WavReadyForRemux
  InSync
PROPERTIES
  StartReturns
  StopEnds
CHECK_DEADLOCK FALSE

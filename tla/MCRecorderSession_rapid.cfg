SPECIFICATION Spec
CONSTANTS
  MaxSessions = 2
  MaxLost = 0
  Capacity = 2
  PushDriven = TRUE
  Patient = FALSE
  CalmClear = FALSE
INVARIANTS
  EncoderOwned
PROPERTIES
  ImplementsEncoderUse
  StoppedIsFinished

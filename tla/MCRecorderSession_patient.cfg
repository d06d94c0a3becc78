SPECIFICATION Spec
CONSTANTS
  MaxSessions = 3
  MaxLost = 3
  Capacity = 3
  PushDriven = FALSE
  Patient = TRUE
  CalmClear = TRUE
INVARIANTS
  RecordingHasEncoder
  LosesAtMostTwo

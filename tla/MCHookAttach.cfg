SPECIFICATION Spec
CONSTANTS
  MaxRuns = 2
INVARIANTS
  TypeOK
  AttachedIsUsable
  HookIsComplete
  SuccessMeansLoaded
PROPERTIES
  AttachedRingIsNotReset
  AttachEnds
CHECK_DEADLOCK FALSE

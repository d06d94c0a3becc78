SPECIFICATION Spec
CONSTANTS
  MaxSessions = 3
  MaxFrames = 3
  FrameChunks = 2
  PipeHolds = 1
INVARIANTS
  HandlesOwned
  WaitsForRunningChild
PROPERTIES
  ClosedBetweenFrames
  ImplementsEncoderUse
  WriteReturns
  StopIsFinished
CHECK_DEADLOCK FALSE

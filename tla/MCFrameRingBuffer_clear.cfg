SPECIFICATION RacingSpec
CONSTANTS
  f1 = f1
  f2 = f2
  Frames <- MCFrames
  Empty = Empty
  Capacity = 3
INVARIANT PopsOnlyPushedFrames

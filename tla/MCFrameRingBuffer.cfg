SPECIFICATION Spec
CONSTANTS
  f1 = f1
  f2 = f2
  Frames <- MCFrames
  Empty = Empty
  Capacity = 4
INVARIANTS
  NoSlotRace
PROPERTIES
  ImplementsQueue
  RefusesOnlyWhenFull
  EveryFrameIsTaken
CHECK_DEADLOCK TRUE

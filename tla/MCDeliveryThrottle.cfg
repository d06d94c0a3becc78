SPECIFICATION Spec
CONSTANTS
  Interval = 3
  Jitter = 3
  MaxTime = 14
INVARIANTS
  RateBound
  SameRatePasses
CHECK_DEADLOCK FALSE

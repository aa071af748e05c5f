SPECIFICATION Spec
CONSTANTS
  w1 = w1
  w2 = w2
  none = none
  Workers <- TwoWorkers
  NoOutcome = none
  Kinds <- UnsafeRequest
  MaxAttempts = 2
  LeaseTicks = 2
  MaxFaults = 2
CHECK_DEADLOCK FALSE
INVARIANT AmbiguityPreserved

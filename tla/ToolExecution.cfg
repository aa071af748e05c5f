SPECIFICATION FairSpec
CONSTANTS
  w1 = w1
  w2 = w2
  none = none
  Workers <- TwoWorkers
  NoOutcome = none
  Kinds <- BothRisks
  MaxAttempts = 2
  LeaseTicks = 2
  MaxFaults = 2
CHECK_DEADLOCK FALSE
INVARIANT UnsafeSentAtMostOnce
INVARIANT AmbiguityKept
INVARIANT UnknownNeverHidden
INVARIANT CancelledMeansQuiet
INVARIANT OwnerEvidenceIntact
PROPERTY ImplementsContract
PROPERTY EventuallyTerminal

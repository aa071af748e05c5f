SPECIFICATION WaveFairSpec
CONSTANTS
  t1 = t1
  t2 = t2
  Tasks <- TwoTasks
  Plans <- SmallPlans
  MaxAttempts = 2
  MaxWaveFaults = 1
PROPERTIES FailFastEnds
CHECK_DEADLOCK FALSE

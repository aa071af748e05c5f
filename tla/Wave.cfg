SPECIFICATION WaveFairSpec
CONSTANTS
  t1 = t1
  t2 = t2
  Tasks <- TwoTasks
  Plans <- SmallPlans
  MaxAttempts = 2
  MaxWaveFaults = 1
INVARIANTS ParallelismBounded StartedAfterDependencies UnsafeStartsOnce WaitIsQuiet SuccessIsComplete
PROPERTIES StepsAreFinal ExecutionEnds
CHECK_DEADLOCK FALSE

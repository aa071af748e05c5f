SPECIFICATION LoopFairSpec
CONSTANTS
  LoopPlans <- RoomyPlans
  MaxLoopFaults = 2
INVARIANTS CheckpointsHold StepBudget
PROPERTIES EndedLoopIsQuiet LoopsEnd
CHECK_DEADLOCK FALSE

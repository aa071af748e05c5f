SPECIFICATION PlanningSpec
CONSTANTS
  p1 = p1
  p2 = p2
  Procs <- TwoProcs
  Keys <- OneKey
  Origins <- BothOrigins
  Blocks <- AllBlocks
  MaxClars = 3
  MaxEdits = 1
  MaxFaults = 1
  MaxPlanAttempts = 2
INVARIANTS
  ReadyIsBacked
  WaitingIsAnswerable
  ExecutionConfirmed
PROPERTY PlanSettles
CHECK_DEADLOCK FALSE

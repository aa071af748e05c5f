SPECIFICATION SchedulerFairSpec
CONSTANTS
  Horizon = 5
  ZoneEnd = 9
  Zone <- TwoChanges
  Calendar <- AllRules
  Rules <- Intervals
  Policies <- ThreePolicies
  MisfireGrace = 0
  DueScanLimit = 2
  MaxCatchUp = 1
  TriggerTicks = {3}
  MaxEdits = 1
CHECK_DEADLOCK FALSE
INVARIANTS NextIsLeastPoint PointsAccounted OutcomeAgrees
PROPERTIES CreatedAlone HeldIsReleased

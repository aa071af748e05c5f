SPECIFICATION FairSpec
CONSTANTS
  w1 = w1
  w2 = w2
  u1 = u1
  u2 = u2
  u3 = u3
  Approvers <- ThreeUsers
  Workers <- TwoWorkers
  Mode = "QUORUM"
  Required = 2
  Source = "AGENT_REQUEST"
  MaxFaults = 1
CHECK_DEADLOCK FALSE
INVARIANT CallNeedsApproval
INVARIANT OneCallPerApproval
PROPERTY RefusalIsFinal
PROPERTY WaitSettles

SPECIFICATION Spec
CONSTANTS
  w1 = w1
  w2 = w2
  u1 = u1
  u2 = u2
  u3 = u3
  Approvers <- ThreeUsers
  Workers <- TwoWorkers
  Mode = "ALL"
  Required = 2
  Source = "AGENT_REQUEST"
  MaxFaults = 0
SYMMETRY Symmetry
CHECK_DEADLOCK FALSE
PROPERTY DecisionFinal

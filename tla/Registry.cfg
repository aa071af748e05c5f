SPECIFICATION RegistrySpec
CONSTANTS
  a1 = a1
  a2 = a2
  w1 = w1
  w2 = w2
  p1 = p1
  Admins <- TwoAdmins
  Workers <- TwoWorkers
  Profiles <- OneProfile
  NoProfile = NoProfile
  Scenarios <- SmallScenarios
INVARIANT SearchIsCurrent
PROPERTIES ActivationIsEarned IndexSettles
CHECK_DEADLOCK FALSE

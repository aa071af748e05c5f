SPECIFICATION FactorySpec
CONSTANTS
  w1 = w1
  w2 = w2
  c1 = c1
  c2 = c2
  Workers <- TwoWorkers
  Callers <- TwoCallers
  NoCaller = NoCaller
  MaxMsgs = 2
  MaxFaults = 2
INVARIANTS
  PublishedIsBacked
  FinishedIsComplete
PROPERTY FactorySettles
CHECK_DEADLOCK FALSE

SPECIFICATION FairSpec
CONSTANTS
  w1 = w1
  w2 = w2
  Workers <- TwoWorkers
  MaxRounds = 2
  MaxAttempts = 2
  MaxFaults = 1
INVARIANTS
  WaitIsBacked
  AnswerSentOnce
PROPERTY InputSettles
CHECK_DEADLOCK FALSE

---------------------------- MODULE MCLoopRuntime ----------------------------
EXTENDS LoopRuntime

ForEach(size, max, bodies, onError, bodyOnError, safe) ==
  [mode |-> "FOR_EACH", size |-> size, maxIterations |-> max, bodies |-> bodies,
   onError |-> onError, bodyOnError |-> bodyOnError, safe |-> safe, gate |-> "TRUE"]

While(max, bodies, onError, bodyOnError, safe, gate) ==
  [mode |-> "WHILE", size |-> 0, maxIterations |-> max, bodies |-> bodies,
   onError |-> onError, bodyOnError |-> bodyOnError, safe |-> safe, gate |-> gate]

\* Plans whose limit leaves room for both LOOPs.
RoomyPlans ==
  {[loops |-> <<ForEach(2, 2, 1, "CONTINUE", "CONTINUE", TRUE),
                While(2, 1, "CONTINUE", "CONTINUE", FALSE, "TRUE")>>, maxSteps |-> 6],
   [loops |-> <<While(2, 2, "FAIL_EXECUTION", "FAIL_EXECUTION", TRUE, "TRUE")>>, maxSteps |-> 6],
   [loops |-> <<While(3, 1, "CONTINUE", "CONTINUE", TRUE, "TRUE")>>, maxSteps |-> 3],
   [loops |-> <<ForEach(2, 2, 2, "FAIL_EXECUTION", "CONTINUE", FALSE)>>, maxSteps |-> 5],
   [loops |-> <<ForEach(3, 2, 1, "CONTINUE", "CONTINUE", TRUE),
                ForEach(0, 2, 1, "CONTINUE", "CONTINUE", TRUE),
                While(1, 1, "CONTINUE", "CONTINUE", TRUE, "FALSE")>>, maxSteps |-> 6],
   [loops |-> <<ForEach(2, 2, 2, "CONTINUE", "CONTINUE", TRUE)>>, maxSteps |-> 4],
   [loops |-> <<While(1, 1, "CONTINUE", "CONTINUE", TRUE, "ERROR")>>, maxSteps |-> 4]}

\* A FOR_EACH that has reserved the last rows beside a WHILE.
TightPlans ==
  {[loops |-> <<ForEach(2, 2, 1, "CONTINUE", "CONTINUE", TRUE),
                While(2, 1, "CONTINUE", "CONTINUE", TRUE, "TRUE")>>, maxSteps |-> 4]}
=============================================================================

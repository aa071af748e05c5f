--------------------------- MODULE MCWaveExecution ---------------------------
EXTENDS WaveExecution

CONSTANTS t1, t2

TwoTasks == {t1, t2}

Tool(deps, onError, required, gate, safe, asks) ==
  [type |-> "TOOL", deps |-> deps, onError |-> onError, required |-> required,
   gate |-> gate, policy |-> "ALL_SUCCESS", safe |-> safe, asks |-> asks]

Local(type, deps, onError, gate, policy) ==
  [type |-> type, deps |-> deps, onError |-> onError, required |-> TRUE,
   gate |-> gate, policy |-> policy, safe |-> TRUE, asks |-> FALSE]

\* two roots, a JOIN and a TOOL behind it
Diamond ==
  [steps |-> <<Tool({}, "FAIL_EXECUTION", TRUE, "TRUE", FALSE, FALSE),
               Tool({}, "MARK_PARTIAL", TRUE, "TRUE", TRUE, FALSE),
               Local("JOIN", {1, 2}, "CONTINUE", "TRUE", "ANY_SUCCESS"),
               Tool({3}, "FAIL_EXECUTION", TRUE, "TRUE", TRUE, FALSE)>>,
   maxParallelism |-> 2]

\* a fan-out behind an unsafe TOOL, one slot
FanOut ==
  [steps |-> <<Tool({}, "CONTINUE", TRUE, "TRUE", FALSE, FALSE),
               Tool({1}, "MARK_PARTIAL", FALSE, "TRUE", TRUE, FALSE),
               Tool({1}, "FAIL_EXECUTION", TRUE, "FALSE", TRUE, FALSE)>>,
   maxParallelism |-> 1]

\* a TOOL that stops the Execution, and one that depends on it
Chain ==
  [steps |-> <<Tool({}, "FAIL_EXECUTION", TRUE, "TRUE", TRUE, FALSE),
               Tool({1}, "FAIL_EXECUTION", TRUE, "TRUE", FALSE, FALSE)>>,
   maxParallelism |-> 1]

\* a TOOL whose policy asks for approval beside one that does not
Asks(slots) ==
  [steps |-> <<Tool({}, "CONTINUE", TRUE, "TRUE", TRUE, TRUE),
               Tool({}, "CONTINUE", FALSE, "TRUE", FALSE, FALSE)>>,
   maxParallelism |-> slots]

\* a CONDITION, an APPROVAL behind it and a strict JOIN; gates of every value
Gates ==
  {[steps |-> <<Local("CONDITION", {}, "FAIL_EXECUTION", c, "ALL_SUCCESS"),
                Local("APPROVAL", {1}, "FAIL_EXECUTION", a, "ALL_SUCCESS"),
                Tool({2}, "FAIL_EXECUTION", TRUE, t, TRUE, FALSE),
                Local("JOIN", {2, 3}, "FAIL_EXECUTION", "TRUE", p)>>,
    maxParallelism |-> 1] :
      <<c, a, t, p>> \in {<<"TRUE", "TRUE", "TRUE", "ALL_SUCCESS">>,
                         <<"TRUE", "TRUE", "FALSE", "ALL_SUCCESS">>,
                         <<"FALSE", "TRUE", "TRUE", "ALL_COMPLETE">>,
                         <<"TRUE", "ERROR", "TRUE", "ALL_COMPLETE">>}}

\* Plans the validator refuses: a cycle, a TOOL with two dependencies
Refused ==
  {[steps |-> <<Tool({2}, "CONTINUE", TRUE, "TRUE", TRUE, FALSE),
                Tool({1}, "CONTINUE", TRUE, "TRUE", TRUE, FALSE)>>, maxParallelism |-> 1],
   [steps |-> <<Tool({}, "CONTINUE", TRUE, "TRUE", TRUE, FALSE),
                Tool({}, "CONTINUE", TRUE, "TRUE", TRUE, FALSE),
                Tool({1, 2}, "CONTINUE", TRUE, "TRUE", TRUE, FALSE)>>, maxParallelism |-> 1]}

SmallPlans == {Diamond, FanOut, Chain, Asks(1), Asks(2)} \union Gates \union Refused
=============================================================================

--------------------------- MODULE MCToolExecution ---------------------------
(***************************************************************************)
(* Instances of ToolExecution for TLC.                                     *)
(***************************************************************************)
EXTENDS ToolExecution

CONSTANTS w1, w2, none

TwoWorkers == {w1, w2}

\* Each source; a call that may be repeated and one that may not.
BothRisks == [source : Sources, risk : {"READ_ONLY", "NON_IDEMPOTENT_WRITE"}]

UnsafeRequest == [source : {"AGENT_REQUEST"}, risk : {"NON_IDEMPOTENT_WRITE"}]
=============================================================================

--------------------------- MODULE MCToolFactory ---------------------------
(***************************************************************************)
(* A small instance of ToolFactory: two workers and two API callers.       *)
(***************************************************************************)
EXTENDS ToolFactory
CONSTANTS w1, w2, c1, c2

TwoWorkers == {w1, w2}
TwoCallers == {c1, c2}
=============================================================================

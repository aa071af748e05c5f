----------------------------- MODULE MCInputWait -----------------------------
(* Two task slots: the worker that asked, and the one that resumes or recovers. *)
EXTENDS InputWait

CONSTANTS w1, w2

TwoWorkers == {w1, w2}
=============================================================================

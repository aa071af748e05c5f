---------------------------- MODULE MCApprovalWait ----------------------------
(***************************************************************************)
(* Instances of ApprovalWait for TLC.  Users and workers are               *)
(* interchangeable, so the safety runs use both kinds of permutations.     *)
(***************************************************************************)
EXTENDS ApprovalWait, TLC

CONSTANTS w1, w2, u1, u2, u3

TwoWorkers == {w1, w2}

TwoUsers == {u1, u2}

ThreeUsers == {u1, u2, u3}

Symmetry == Permutations(TwoWorkers) \union Permutations(ThreeUsers)
=============================================================================

--------------------------- MODULE MCToolRegistry ---------------------------
(***************************************************************************)
(* A small instance of ToolRegistry: two administrators, two embedding     *)
(* workers and one embedding profile.  A Factory server is followed through *)
(* overlapping requests while its endpoint and binding are edited, a plain *)
(* server through discovery while its Tool, the remote Tool and the        *)
(* profile change.                                                         *)
(***************************************************************************)
EXTENDS ToolRegistry
CONSTANTS a1, a2, w1, w2, p1

TwoAdmins == {a1, a2}
TwoWorkers == {w1, w2}
OneProfile == {p1}

Edits(s, b, r, t, p) ==
  [SERVER |-> s, BINDING |-> b, REMOTE |-> r, TOOL |-> t, PROFILE |-> p]

\* Overlapping requests on an imported server; then its Tool in the index.
ImportedRuns ==
  {[factory |-> TRUE, active |-> NoProfile, crew |-> {a1, a2}, edits |-> Edits(1, 1, 1, 0, 0), faults |-> 0],
   [factory |-> TRUE, active |-> p1, crew |-> {a1, w1}, edits |-> Edits(1, 0, 0, 1, 0), faults |-> 0]}

\* A plain server: a Tool that changes here and there, a profile that is
\* activated and edited under two workers, and two applies out of order.
PlainRuns ==
  {[factory |-> FALSE, active |-> p1, crew |-> {a1, w1}, edits |-> Edits(0, 0, 1, 1, 0), faults |-> 1],
   [factory |-> FALSE, active |-> NoProfile, crew |-> {a1, w1, w2}, edits |-> Edits(0, 0, 0, 1, 2), faults |-> 0],
   [factory |-> FALSE, active |-> p1, crew |-> {a1, a2, w1}, edits |-> Edits(0, 0, 1, 0, 0), faults |-> 0]}

SmallScenarios == ImportedRuns \cup PlainRuns
=============================================================================

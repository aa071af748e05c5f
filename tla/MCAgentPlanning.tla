-------------------------- MODULE MCAgentPlanning --------------------------
(***************************************************************************)
(* Small instances of AgentPlanning: two processes, two questions.         *)
(***************************************************************************)
EXTENDS AgentPlanning
CONSTANTS p1, p2

TwoProcs == {p1, p2}
OneKey == {"k1"}
AllBlocks == {"NONE", "TOOL", "POLICY", "APPROVAL", "AGENT"}
BothOrigins == {"USER", "SCHEDULE"}
=============================================================================

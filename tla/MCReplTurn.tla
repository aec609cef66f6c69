----------------------------- MODULE MCReplTurn -----------------------------
(***************************************************************************)
(* ReplTurn for TLC.  One follow-up is launched by the plan and two are    *)
(* proposed; two runs are the fewest in which one of them is run twice.    *)
(***************************************************************************)
EXTENDS ReplTurn
Launched == {Deep}
Proposed == {Pc, Audit}
=============================================================================

------------------------------- MODULE MCSwarm -------------------------------
(***************************************************************************)
(* SwarmFanout for TLC.  The MCSwarm*.cfg files bound the number of fish,  *)
(* the concurrency and the number of failures; one launched swarm with two *)
(* or three fish and fewer slots than fish is the smallest in which two    *)
(* completions race for a slot and for the gate.                           *)
(***************************************************************************)
EXTENDS SwarmFanout
=============================================================================

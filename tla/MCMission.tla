----------------------------- MODULE MCMission -----------------------------
(***************************************************************************)
(* Mission for TLC.  Two missions are the fewest in which a returning tick *)
(* does its bookkeeping on another mission than its own; two tasks are the *)
(* fewest that the cursor separates; two overlapping calls of start() are  *)
(* the fewest that replace a running mission.                              *)
(***************************************************************************)
EXTENDS Mission
=============================================================================

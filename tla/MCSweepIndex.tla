---------------------------- MODULE MCSweepIndex ----------------------------
(***************************************************************************)
(* SweepIndex for TLC.  Two overlapping listings delete under one another. *)
(* One of the two rows is of an older version; in batches of one row a     *)
(* rebuild is interrupted between its batches.                             *)
(***************************************************************************)
EXTENDS SweepIndex
CONSTANTS l1, l2, r1
=============================================================================

---------------------------- MODULE MCResolution ----------------------------
(***************************************************************************)
(* Resolution for TLC.  Two requests are the fewest in which one call      *)
(* outlives its lock and releases it over another; three the fewest in     *)
(* which a suggestion is accepted, rejected and accepted again under the   *)
(* lock of the first.                                                      *)
(***************************************************************************)
EXTENDS Resolution
=============================================================================

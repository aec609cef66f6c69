----------------------------- MODULE MCAutonomy -----------------------------
(***************************************************************************)
(* Autonomy for TLC.  Three configurations: one whose caps an action       *)
(* reaches, one that never stops and whose rotation has an unknown action, *)
(* and one with nothing but an unknown action.  Two starts and one change  *)
(* are the fewest that the bound on overspending adds up; two calls of     *)
(* start() overlap.                                                        *)
(***************************************************************************)
EXTENDS Autonomy

Strict == [interval |-> 15, daily |-> 0, monthly |-> 2, cycles |-> 1,
           stop |-> TRUE, rotation |-> <<"thalamus", "fish-swarm">>]
Lax == [interval |-> 45, daily |-> 1, monthly |-> 0, cycles |-> 0,
        stop |-> FALSE,
        rotation |-> <<"sweep-nullscan", "bogus-mode", "thalamus">>]
Bogus == [interval |-> 45, daily |-> 1, monthly |-> 0, cycles |-> 0,
          stop |-> TRUE, rotation |-> <<"bogus-mode">>]
MCConfigs == {Strict, Lax, Bogus}
=============================================================================

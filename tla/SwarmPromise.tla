---------------------------- MODULE SwarmPromise ----------------------------
(***************************************************************************)
(* What a swarm promises to the reader of its aggregate, without jobs,     *)
(* workers, gates or queues: every fish is played at most once, a settled  *)
(* fish is never played again, and the one report of the swarm is made     *)
(* when every fish has settled.                                            *)
(***************************************************************************)

CONSTANT Fish

VARIABLES phase,    \* "waiting", "playing" or "settled", for every fish
          reported  \* the report of the swarm has been ordered

vars == <<phase, reported>>

Init ==
  /\ phase = [f \in Fish |-> "waiting"]
  /\ reported = FALSE

\* Some waiting fish are put into play together.
Play ==
  /\ \E S \in SUBSET {f \in Fish : phase[f] = "waiting"} :
       phase' = [f \in Fish |-> IF f \in S THEN "playing" ELSE phase[f]]
  /\ UNCHANGED reported

\* Some fish settle together; a fish may settle without having been played.
Settle ==
  /\ \E S \in SUBSET Fish :
       phase' = [f \in Fish |-> IF f \in S THEN "settled" ELSE phase[f]]
  /\ UNCHANGED reported

Report ==
  /\ ~reported
  /\ \A f \in Fish : phase[f] = "settled"
  /\ reported' = TRUE
  /\ UNCHANGED phase

Next == Play \/ Settle \/ Report

Spec == Init /\ [][Next]_vars
=============================================================================

--------------------------------- MODULE Dag ---------------------------------
(***************************************************************************)
(* Plans: maps from the cortices of a plan to the set each depends on, so  *)
(* names are unique.                                                       *)
(***************************************************************************)

\* visit() meets no name twice on its path: every set of nodes has one that
\* depends on none of the set.
Acyclic(p) == \A S \in SUBSET DOMAIN p : S # {} => \E c \in S : p[c] \cap S = {}

\* validateDag().
Valid(p) ==
  /\ DOMAIN p # {}
  /\ \A c \in DOMAIN p : c \notin p[c] /\ p[c] \subseteq DOMAIN p
  /\ Acyclic(p)

\* Mutant of Ready: every node at once.
ReadyAll(p, done) == DOMAIN p \ done

\* The level that topologicalLevels() builds when those in done are placed.
Ready(p, done) == {c \in DOMAIN p \ done : p[c] \subseteq done}
=============================================================================

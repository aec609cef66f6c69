--------------------------- MODULE MCFindingStore ---------------------------
(***************************************************************************)
(* FindingStore for TLC.  Two cycles are the fewest that race, two         *)
(* cortices the fewest that find the same claim under different hashes,    *)
(* and two claims the fewest one of which overwrites the other; two types  *)
(* on one entity crowd a search of Limit 1; a finding without an anchor    *)
(* may still have an edge to the entity another finding is anchored to.    *)
(***************************************************************************)
EXTENDS FindingStore, TLC
CONSTANTS c1, c2, x1, x2, t1, t2, p, q
Symmetry == Permutations({c1, c2}) \cup Permutations({x1, x2})
              \cup Permutations({t1, t2}) \cup Permutations({p, q})
=============================================================================

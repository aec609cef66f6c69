----------------------------- MODULE MCResearch ------------------------------
(* Two cortices: in parallel, in a chain, and in a cycle no run may start. *)
EXTENDS ResearchCycle, TLC

Chain == "a" :> {} @@ "b" :> {"a"}
Pair == "a" :> {} @@ "b" :> {}
Loop == "a" :> {"b"} @@ "b" :> {"a"}

MCPlans == {Chain, Pair, Loop}
=============================================================================

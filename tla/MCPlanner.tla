------------------------------ MODULE MCPlanner ------------------------------
(***************************************************************************)
(* Planner for TLC: a chain of two in the job, a user's cortex, and DAGs   *)
(* that are longer than the limit, end in the strategist, or are invalid.  *)
(***************************************************************************)
EXTENDS Planner

N(c, deps) == Node(c, deps)

MCCortices == {"a", "b", "u", "s", "ghost"}
MCRegistry == {"a", "b", "u", "s"}
MCJobDag == << N("a", {}), N("b", {"a"}) >>
MCFallback == << N("a", {}), N("u", {"a"}), N("s", {"a", "u"}) >>
MCRequests == {
  << N("a", {}), N("b", {"a"}), N("u", {"b"}) >>,
  << N("u", {}), N("s", {"u"}), N("b", {"s"}) >>,
  << N("a", {"s"}) >>,
  << N("a", {}), N("a", {}) >>,
  << N("ghost", {}) >> }
MCManual == { <<"b", "a", "b">>, <<"ghost">>, <<>> }

MCSettings == [disabled : {{}, {"a"}, {"s"}},
               forced : {<<>>, <<"b">>, <<"u", "ghost", "u">>},
               mandatory : BOOLEAN,
               max : {0, 1, 2, 5}]
=============================================================================

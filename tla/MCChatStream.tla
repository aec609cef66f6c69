---------------------------- MODULE MCChatStream ----------------------------
(***************************************************************************)
(* ChatStream for TLC.  Two chats about one query are the fewest that race *)
(* for its 30 days; one of the two clients leaves.                         *)
(***************************************************************************)
EXTENDS ChatStream
CONSTANTS s1, s2, q1

Signal(codes, confidence, hints, edges) ==
  [needed |-> TRUE, asks30 |-> FALSE, codes |-> codes, confidence |-> confidence,
   hints |-> hints, edges |-> edges]

\* Nothing to verify; a conjunction to watch, named by a hint and by an edge;
\* a country and a satellite with a gap, the cycle out of budget.
SomeSignals ==
  {[Signal({}, 90, {}, {}) EXCEPT !.needed = FALSE],
   Signal({"needs_monitoring"}, 70, {<<"conjunction_event", "e1">>},
          {<<"conjunction_event", "e1">>, <<"conjunction_event", "e2">>}),
   Signal({"data_gap", "budget_exhausted"}, 60, {<<"satellite", NoEntity>>},
          {<<"operator_country", "e3">>})}
=============================================================================

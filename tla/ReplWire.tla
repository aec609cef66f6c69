------------------------------ MODULE ReplWire ------------------------------
(***************************************************************************)
(* The events a console request streams, and the order a client counts on. *)
(*                                                                         *)
(* An event is its name, the follow-up it belongs to (Turn when it belongs *)
(* to the turn itself) and, for a step, its number.  The two outcomes of a *)
(* followup.done event have a name each.  The stream of a chat begins in   *)
(* "new"; a follow-up the user selected has a stream of its own that       *)
(* begins, and stays, in "selected".                                       *)
(***************************************************************************)
EXTENDS FollowUpPolicy, Sequences, SequencesExt

CONSTANT Turn

Event(name, of, n) == [name |-> name, of |-> of, n |-> n]
Says(name) == Event(name, Turn, 0)
About(name, k) == Event(name, k, 0)

\* Where a reader of the stream is: how far the turn is, the follow-up that is
\* under way, the steps read of the call that is under way, and the follow-ups
\* that have their outcome.
Reading == [turn : {"new", "routed", "answered", "cycle", "failed", "summed",
                    "planned", "briefed", "over", "selected", "lost"},
            of : Kinds \cup {Turn}, steps : Nat, ended : SUBSET Kinds]

Unread(turn) == [turn |-> turn, of |-> Turn, steps |-> 0, ended |-> {}]

\* What may come next in the turn: an event leads from one place to another.
TurnMoves ==
  {<<"new", "classified", "routed">>,
   <<"routed", "chat.complete", "answered">>,
   <<"routed", "cycle.start", "cycle">>,
   <<"cycle", "step", "cycle">>,
   <<"cycle", "finding", "cycle">>,
   <<"cycle", "summary.complete", "summed">>,
   <<"summed", "followup.plan", "planned">>,
   <<"planned", "briefing.complete", "briefed">>,
   <<"answered", "done", "over">>, <<"briefed", "done", "over">>,
   <<"failed", "done", "over">>}

\* Steps come in the order they were emitted; a poll has no number.
InTurn(r, e) == e.name \in {"step", "followup.step"} => e.n \in {0, r.steps + 1}

\* After an error nothing but done may come, also in the middle of a follow-up;
\* a follow-up has its events between its start and its one outcome.
Reads(r, e) ==
  LET to == {m[3] : m \in {x \in TurnMoves : x[1] = r.turn /\ x[2] = e.name}}
      steps == IF e.n > 0 THEN e.n ELSE r.steps
  IN CASE e.name = "error" /\ r.turn \notin {"failed", "over", "lost"} ->
            [r EXCEPT !.turn = "failed", !.of = Turn]
       [] r.of = Turn /\ e.of = Turn /\ to # {} /\ InTurn(r, e) ->
            [r EXCEPT !.turn = CHOOSE t \in to : TRUE, !.steps = steps]
       [] /\ r.of = Turn /\ r.turn \in {"planned", "selected"}
          /\ e.name = "followup.started" /\ e.of \notin r.ended ->
            [r EXCEPT !.of = e.of, !.steps = 0]
       [] /\ r.of # Turn /\ e.of = r.of /\ InTurn(r, e)
          /\ e.name \in {"followup.step", "followup.finding", "followup.summary"} ->
            [r EXCEPT !.steps = steps]
       [] /\ r.of # Turn /\ e.of = r.of
          /\ e.name \in {"followup.completed", "followup.failed"} ->
            [r EXCEPT !.of = Turn, !.ended = @ \cup {e.of}]
       [] OTHER -> [r EXCEPT !.turn = "lost"]

\* A reader after a sequence of events.
ReadsAll(r, events) ==
  LET after[i \in 0..Len(events)] == IF i = 0 THEN r ELSE Reads(after[i - 1], events[i])
  IN after[Len(events)]
=============================================================================

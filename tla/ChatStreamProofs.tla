--------------------------- MODULE ChatStreamProofs ---------------------------
(***************************************************************************)
(* What holds of ChatStream for any streams, queries, signals and numbers  *)
(* of steps.                                                               *)
(*                                                                         *)
(* Sound ties the await a stream is in to where a reader of its events is: *)
(* from it the wire is in order, no step is lost and a briefing is asked   *)
(* for when every follow-up is over.  Remembered and Met say when two      *)
(* turns may both ask their research 30 days: one that is past its         *)
(* preflights has its query recorded, so the other was planning with it.   *)
(***************************************************************************)
EXTENDS ChatStream, SequenceTheorems, FiniteSetTheorems, NaturalsInduction, TLAPS

\* Where a reader is, field by field.
Place(turn, of, steps, ended) ==
  [turn |-> turn, of |-> of, steps |-> steps, ended |-> ended]

\* The call a stream pumped is over and a reader has all its steps.
Settled(s) == run[s].call \in {"ok", "failed"} /\ read[s].steps = run[s].steps

\* The stream waits on its pump: a reader has the steps the stream took.
Pumping(s) ==
  run[s].call # "none" /\ read[s].steps = run[s].taken /\ run[s].taken <= run[s].steps

Untouched(s) == run[s] = NoRun /\ read[s].steps = 0

\* A follow-up the user selected, before its stream.
Beginning(s) ==
  /\ at[s] = "begin" /\ s \notin chats
  /\ item[s] = Turn /\ run[s] = NoRun /\ Len(auto[s]) = 1
  /\ read[s] = Unread("selected")

\* A turn up to its plan: the place of a reader and the call follow from the
\* await the stream is in.
InTheTurn(s) ==
  /\ s \in chats /\ item[s] = Turn
  /\ read[s].of = Turn /\ read[s].ended = {}
  /\ \/ at[s] = "classify" /\ read[s].turn = "new" /\ auto[s] = <<>> /\ Untouched(s)
     \/ at[s] = "reply" /\ read[s].turn = "routed" /\ auto[s] = <<>> /\ Untouched(s)
     \/ at[s] = "pull" /\ read[s].turn = "cycle" /\ auto[s] = <<>> /\ Pumping(s)
     \/ /\ at[s] \in {"findings", "summarise"} /\ read[s].turn = "cycle"
        /\ auto[s] = <<>> /\ Settled(s)
     \/ at[s] = "plan" /\ read[s].turn = "summed" /\ auto[s] = <<>> /\ Settled(s)
     \/ at[s] = "preflight" /\ read[s].turn = "summed" /\ Settled(s)

\* Where the turn of a stream is that executes follow-ups.
Executing(s) == IF s \in chats THEN "planned" ELSE "selected"

InAFollowUp(s) ==
  /\ item[s] \in ToSet(auto[s]) /\ read[s].of = item[s] /\ item[s] \notin read[s].ended
  /\ read[s].ended \subseteq ToSet(auto[s]) /\ read[s].turn = Executing(s)
  /\ \/ at[s] = "pull" /\ item[s] # Audit /\ Pumping(s)
     \/ at[s] = "audit" /\ item[s] = Audit
     \/ at[s] \in {"findings", "summarise"} /\ item[s] = Deep /\ Settled(s)
     \/ at[s] \in {"poll", "sleep", "report"} /\ item[s] \in {Pc, Telemetry} /\ Settled(s)

Briefing(s) ==
  /\ at[s] = "briefing" /\ s \in chats
  /\ read[s].turn = "planned" /\ read[s].of = Turn /\ read[s].ended = ToSet(auto[s])
  /\ item[s] # Audit => Settled(s)

\* The briefing of a turn whose client left in the middle of a follow-up.
Forsaken(s) ==
  /\ at[s] = "briefing" /\ s \in chats /\ aborted[s]
  /\ read[s].turn = "planned" /\ read[s].ended \subseteq ToSet(auto[s])
  /\ read[s].of \in ToSet(auto[s]) \cup {Turn}

Over(s) ==
  /\ at[s] = "closed"
  /\ read[s].turn # "lost" /\ read[s].ended \subseteq ToSet(auto[s])
  /\ read[s].of \in ToSet(auto[s]) \cup {Turn}
  /\ ~aborted[s] /\ run[s].call # "none" /\ item[s] # Audit => Settled(s)
  /\ s \in chats /\ read[s].turn \in {"briefed", "over"}
       => read[s].ended = ToSet(auto[s])

Sound(s) ==
  \/ Beginning(s) \/ InTheTurn(s) \/ InAFollowUp(s)
  \/ Briefing(s) \/ Forsaken(s) \/ Over(s)

\* The stream asked its research 30 days, or may still do so.
Holds(s) ==
  /\ s \in chats /\ Deep \in ToSet(auto[s])
  /\ at[s] = "closed" => Deep \in read[s].ended \cup {read[s].of}

\* Past its preflights the query of such a stream is remembered.
Remembered == \A s \in Streams : Holds(s) => at[s] = "preflight" \/ query[s] \in used

Met ==
  \A s, t \in Streams :
    s # t /\ query[s] = query[t] /\ Holds(s) /\ Holds(t) => {s, t} \in met

IInv == TypeOK /\ (\A s \in Streams : Sound(s)) /\ Remembered /\ Met
-----------------------------------------------------------------------------
(* What a reader makes of a sequence of events *)

LEMMA LeastNat ==
  ASSUME NEW S \in SUBSET Nat, S # {}
  PROVE  \E n \in S : \A m \in S : n <= m
<1>1. PICK n \in S : \A m \in S : ~(<<m, n>> \in OpToRel(<, Nat))
  BY NatLessThanWellFounded, WFMin, Zenon
<1>2. \A m \in S : ~(m < n)
  BY <1>1 DEF OpToRel
<1> QED
  BY <1>2

\* g is where a reader that began in r is after each of the first n events of e.
After(g, r, e, n) == g = [i \in 0..n |-> IF i = 0 THEN r ELSE Reads(g[i - 1], e[i])]

LEMMA AfterValues ==
  ASSUME NEW g, NEW r, NEW e, NEW n \in Nat, After(g, r, e, n)
  PROVE  g[0] = r /\ \A i \in 1..n : g[i] = Reads(g[i - 1], e[i])
BY DEF After

LEMMA AfterExtends ==
  ASSUME NEW g, NEW r, NEW e, NEW n \in Nat, After(g, r, e, n)
  PROVE  After([i \in 0..(n + 1) |-> IF i = n + 1 THEN Reads(g[n], e[n + 1]) ELSE g[i]],
               r, e, n + 1)
<1> DEFINE h == [i \in 0..(n + 1) |-> IF i = n + 1 THEN Reads(g[n], e[n + 1]) ELSE g[i]]
           w == [i \in 0..(n + 1) |-> IF i = 0 THEN r ELSE Reads(h[i - 1], e[i])]
<1>1. \A i \in 0..n : h[i] = g[i]
  OBVIOUS
<1>2. \A i \in 0..(n + 1) : h[i] = w[i]
  <2> TAKE i \in 0..(n + 1)
  <2>1. CASE i = 0
    BY <1>1, <2>1, AfterValues
  <2>2. CASE i = n + 1
    BY <1>1, <2>2
  <2>3. CASE i \in 1..n
    <3>1. i - 1 \in 0..n /\ i \in 0..n
      BY <2>3
    <3>2. h[i] = g[i] /\ h[i - 1] = g[i - 1]
      BY <1>1, <3>1
    <3>3. g[i] = Reads(g[i - 1], e[i])
      BY <2>3, AfterValues
    <3>4. w[i] = Reads(h[i - 1], e[i])
      BY <2>3
    <3> HIDE DEF h, w
    <3> QED
      BY <3>2, <3>3, <3>4
  <2> QED
    BY <2>1, <2>2, <2>3
<1>3. h = w
  BY <1>2
<1> HIDE DEF h
<1> QED
  BY <1>3 DEF After, h

LEMMA AfterExists ==
  ASSUME NEW r, NEW e, NEW n \in Nat
  PROVE  \E g : After(g, r, e, n)
<1> DEFINE Good(k) == \E g : After(g, r, e, k)
           Bad == {k \in Nat : ~Good(k)}
<1>1. Good(0)
  <2>1. After([i \in 0..0 |-> r], r, e, 0)
    BY DEF After
  <2> QED
    BY <2>1
<1>2. ASSUME NEW k \in Nat, Good(k) PROVE Good(k + 1)
  BY <1>2, AfterExtends
<1> SUFFICES ASSUME Bad # {} PROVE FALSE
  OBVIOUS
<1> HIDE DEF Good
<1>3. PICK k \in Bad : \A m \in Bad : k <= m
  BY LeastNat
<1>4. k # 0
  BY <1>1
<1>5. k - 1 \in Nat /\ Good(k - 1)
  BY <1>3, <1>4
<1> QED
  BY <1>2, <1>5

\* There is one such function, and a longer one continues a shorter one.
LEMMA AfterAgree ==
  ASSUME NEW g, NEW h, NEW r, NEW e, NEW d, NEW n \in Nat, NEW m \in Nat, n <= m,
         After(g, r, e, n), After(h, r, d, m), \A i \in 1..n : e[i] = d[i]
  PROVE  \A i \in 0..n : g[i] = h[i]
<1> DEFINE Bad == {i \in 0..n : g[i] # h[i]}
<1> SUFFICES ASSUME Bad # {} PROVE FALSE
  OBVIOUS
<1>0. Bad \in SUBSET Nat
  OBVIOUS
<1>1. PICK k \in Bad : \A i \in Bad : k <= i
  BY <1>0, LeastNat
<1>2. g[0] = h[0]
  BY AfterValues
<1>3. k \in 1..n /\ k - 1 \in 0..n /\ g[k - 1] = h[k - 1]
  BY <1>1, <1>2
<1>4. g[k] = Reads(g[k - 1], e[k]) /\ h[k] = Reads(h[k - 1], d[k])
  BY <1>3, AfterValues
<1>5. e[k] = d[k]
  BY <1>3
<1> QED
  BY <1>1, <1>3, <1>4, <1>5

LEMMA ReadsAllIsAfter ==
  ASSUME NEW r, NEW events, Len(events) \in Nat
  PROVE  \E g : After(g, r, events, Len(events)) /\ ReadsAll(r, events) = g[Len(events)]
<1> DEFINE n == Len(events)
           g == CHOOSE f : f = [i \in 0..n |-> IF i = 0 THEN r ELSE Reads(f[i - 1], events[i])]
<1>1. ReadsAll(r, events) = g[n]
  BY DEF ReadsAll
<1>2. \E f : After(f, r, events, n)
  BY AfterExists
<1>3. \E f : f = [i \in 0..n |-> IF i = 0 THEN r ELSE Reads(f[i - 1], events[i])]
  BY <1>2 DEF After
<1>4. After(g, r, events, n)
  BY <1>3, Zenon DEF After
<1> QED
  BY <1>1, <1>4

LEMMA ReadsNothing == \A r : ReadsAll(r, <<>>) = r
<1> TAKE r
<1>1. Len(<<>>) = 0
  OBVIOUS
<1>2. PICK g : After(g, r, <<>>, 0) /\ ReadsAll(r, <<>>) = g[0]
  BY <1>1, ReadsAllIsAfter
<1> QED
  BY <1>2, AfterValues

LEMMA ReadsOneMore ==
  ASSUME NEW r, NEW S, NEW events \in Seq(S), NEW e \in S
  PROVE  ReadsAll(r, Append(events, e)) = Reads(ReadsAll(r, events), e)
<1> DEFINE n == Len(events)
           more == Append(events, e)
<1>1. n \in Nat /\ Len(more) = n + 1 /\ more[n + 1] = e
      /\ \A i \in 1..n : events[i] = more[i]
  OBVIOUS
<1> HIDE DEF n, more
<1>2. PICK g : After(g, r, events, n) /\ ReadsAll(r, events) = g[n]
  BY <1>1, ReadsAllIsAfter DEF n
<1>3. PICK h : After(h, r, more, n + 1) /\ ReadsAll(r, more) = h[n + 1]
  BY <1>1, ReadsAllIsAfter
<1>4. g[n] = h[n]
  BY <1>1, <1>2, <1>3, AfterAgree
<1>5. h[n + 1] = Reads(h[n], more[n + 1])
  BY <1>1, <1>3, AfterValues
<1> QED
  BY <1>1, <1>2, <1>3, <1>4, <1>5 DEF more

LEMMA ReadsOne == \A r, e : ReadsAll(r, <<e>>) = Reads(r, e)
<1> TAKE r, e
<1>1. <<e>> = Append(<<>>, e)
  OBVIOUS
<1>2. ReadsAll(r, Append(<<>>, e)) = Reads(ReadsAll(r, <<>>), e)
  <2>1. <<>> \in Seq({e}) /\ e \in {e}
    OBVIOUS
  <2> QED
    BY <2>1, ReadsOneMore, Zenon
<1> QED
  BY <1>1, <1>2, ReadsNothing, Zenon

LEMMA ReadsTwo == \A r, e, f : ReadsAll(r, <<e, f>>) = Reads(Reads(r, e), f)
<1> TAKE r, e, f
<1>1. <<e, f>> = Append(<<e>>, f)
  OBVIOUS
<1>2. ReadsAll(r, Append(<<e>>, f)) = Reads(ReadsAll(r, <<e>>), f)
  <2>1. <<e>> \in Seq({e, f}) /\ f \in {e, f}
    OBVIOUS
  <2> QED
    BY <2>1, ReadsOneMore, Zenon
<1> QED
  BY <1>1, <1>2, ReadsOne, Zenon

LEMMA ReadsThree ==
  \A r, e, f, g : ReadsAll(r, <<e, f, g>>) = Reads(Reads(Reads(r, e), f), g)
<1> TAKE r, e, f, g
<1>1. <<e, f, g>> = Append(<<e, f>>, g)
  OBVIOUS
<1>2. ReadsAll(r, Append(<<e, f>>, g)) = Reads(ReadsAll(r, <<e, f>>), g)
  <2>1. <<e, f>> \in Seq({e, f, g}) /\ g \in {e, f, g}
    OBVIOUS
  <2> QED
    BY <2>1, ReadsOneMore, Zenon
<1>3. ReadsAll(r, <<e, f>>) = Reads(Reads(r, e), f)
  BY ReadsTwo
<1> QED
  BY <1>1, <1>2, <1>3

LEMMA ReadsTwoMore ==
  ASSUME NEW r, NEW S, NEW events \in Seq(S), NEW e \in S, NEW f \in S
  PROVE  ReadsAll(r, events \o <<e, f>>) = Reads(Reads(ReadsAll(r, events), e), f)
<1>1. events \o <<e, f>> = Append(Append(events, e), f) /\ Append(events, e) \in Seq(S)
  OBVIOUS
<1>2. ReadsAll(r, Append(Append(events, e), f)) = Reads(ReadsAll(r, Append(events, e)), f)
  BY <1>1, ReadsOneMore, Zenon
<1>3. ReadsAll(r, Append(events, e)) = Reads(ReadsAll(r, events), e)
  BY ReadsOneMore, Zenon
<1> QED
  BY <1>1, <1>2, <1>3, Zenon

-----------------------------------------------------------------------------
(* What a reader makes of one event *)

LEMMA TurnIsNoKind == Turn \notin Kinds
BY ChatStreamAssumption

Fields == {"turn", "of", "steps", "ended"}

LEMMA PlaceAsFunction ==
  ASSUME NEW turn, NEW of, NEW n, NEW E
  PROVE  Place(turn, of, n, E) = [f \in Fields |-> CASE f = "turn" -> turn
                                                     [] f = "of" -> of
                                                     [] f = "steps" -> n
                                                     [] f = "ended" -> E]
BY DEF Place, Fields

WithSteps(r, x) == [r EXCEPT !.steps = x]
WithTurnOf(r, x, y) == [r EXCEPT !.turn = x, !.of = y]
WithTurnSteps(r, x, y) == [r EXCEPT !.turn = x, !.steps = y]
WithOfSteps(r, x, y) == [r EXCEPT !.of = x, !.steps = y]
WithOfEnded(r, x, y) == [r EXCEPT !.of = x, !.ended = y]

\* A place with one or two of its fields replaced.
LEMMA PlaceSteps ==
  ASSUME NEW turn, NEW of, NEW n, NEW E, NEW x
  PROVE  WithSteps(Place(turn, of, n, E), x) = Place(turn, of, x, E)
<1> DEFINE r == Place(turn, of, n, E)
<1>1. DOMAIN r = Fields /\ r = [f \in Fields |-> r[f]]
  BY PlaceAsFunction
<1>2. r.turn = turn /\ r.of = of /\ r.ended = E
  BY DEF Place
<1> HIDE DEF r
<1>3. [r EXCEPT !.steps = x] = [f \in Fields |-> IF f = "steps" THEN x ELSE r[f]]
  BY <1>1 DEF Fields
<1>4. Place(turn, of, x, E) = [f \in Fields |-> IF f = "steps" THEN x ELSE r[f]]
  BY <1>2 DEF Place, Fields
<1> QED
  BY <1>3, <1>4 DEF r, WithSteps

LEMMA PlaceUpdates ==
  ASSUME NEW turn, NEW of, NEW n, NEW E, NEW x, NEW y
  PROVE  /\ WithTurnOf(Place(turn, of, n, E), x, y) = Place(x, y, n, E)
         /\ WithTurnSteps(Place(turn, of, n, E), x, y) = Place(x, of, y, E)
         /\ WithOfSteps(Place(turn, of, n, E), x, y) = Place(turn, x, y, E)
         /\ WithOfEnded(Place(turn, of, n, E), x, y) = Place(turn, x, n, y)
<1> DEFINE r == Place(turn, of, n, E)
<1>1. DOMAIN r = Fields /\ r = [f \in Fields |-> r[f]]
  BY PlaceAsFunction
<1>2. r.turn = turn /\ r.of = of /\ r.steps = n /\ r.ended = E
  BY DEF Place
<1> HIDE DEF r
<1>3. [r EXCEPT !.turn = x, !.of = y] = Place(x, y, n, E)
  <2> DEFINE new == [f \in Fields |-> IF f = "of" THEN y ELSE IF f = "turn" THEN x ELSE r[f]]
  <2>1. [r EXCEPT !.turn = x, !.of = y] = new
    BY <1>1 DEF Fields
  <2>2. Place(x, y, n, E) = new
    BY <1>2 DEF Place, Fields
  <2> QED
    BY <2>1, <2>2
<1>4. [r EXCEPT !.turn = x, !.steps = y] = Place(x, of, y, E)
  <2> DEFINE new == [f \in Fields |-> IF f = "steps" THEN y ELSE IF f = "turn" THEN x ELSE r[f]]
  <2>1. [r EXCEPT !.turn = x, !.steps = y] = new
    BY <1>1 DEF Fields
  <2>2. Place(x, of, y, E) = new
    BY <1>2 DEF Place, Fields
  <2> QED
    BY <2>1, <2>2
<1>5. [r EXCEPT !.of = x, !.steps = y] = Place(turn, x, y, E)
  <2> DEFINE new == [f \in Fields |-> IF f = "steps" THEN y ELSE IF f = "of" THEN x ELSE r[f]]
  <2>1. [r EXCEPT !.of = x, !.steps = y] = new
    BY <1>1 DEF Fields
  <2>2. Place(turn, x, y, E) = new
    BY <1>2 DEF Place, Fields
  <2> QED
    BY <2>1, <2>2
<1>6. [r EXCEPT !.of = x, !.ended = y] = Place(turn, x, n, y)
  <2> DEFINE new == [f \in Fields |-> IF f = "ended" THEN y ELSE IF f = "of" THEN x ELSE r[f]]
  <2>1. [r EXCEPT !.of = x, !.ended = y] = new
    BY <1>1 DEF Fields
  <2>2. Place(turn, x, n, y) = new
    BY <1>2 DEF Place, Fields
  <2> QED
    BY <2>1, <2>2
<1> QED
  BY <1>3, <1>4, <1>5, <1>6
     DEF r, WithTurnOf, WithTurnSteps, WithOfSteps, WithOfEnded

\* An event of the turn leads where TurnMoves says, and nowhere else.
LEMMA ReadsMove ==
  ASSUME NEW m \in TurnMoves, NEW n \in Nat, NEW E
  PROVE  Reads(Place(m[1], Turn, n, E), Says(m[2])) = Place(m[3], Turn, n, E)
<1> DEFINE r == Place(m[1], Turn, n, E)
           e == Says(m[2])
           to == {x[3] : x \in {y \in TurnMoves : y[1] = r.turn /\ y[2] = e.name}}
<1>1. /\ r.turn = m[1] /\ r.of = Turn /\ r.steps = n /\ r.ended = E
      /\ e.name = m[2] /\ e.of = Turn /\ e.n = 0
  BY DEF Place, Says, Event
<1>2. \A y \in TurnMoves : y[1] = m[1] /\ y[2] = m[2] => y[3] = m[3]
  BY DEF TurnMoves
<1>3. to = {m[3]}
  BY <1>1, <1>2
<1>4. (CHOOSE t \in to : TRUE) = m[3]
  BY <1>3
<1>5. e.name # "error"
  BY <1>1 DEF TurnMoves
<1>6. InTurn(r, e)
  BY <1>1 DEF InTurn
<1>10. m[2] # "followup.started"
  BY DEF TurnMoves
<1>7. (IF e.n > 0 THEN e.n ELSE r.steps) = n
  BY <1>1
<1>8. Reads(r, e) = WithTurnSteps(r, CHOOSE t \in to : TRUE,
                                  IF e.n > 0 THEN e.n ELSE r.steps)
  <2> DEFINE error == e.name = "error" /\ r.turn \notin {"failed", "over", "lost"}
             start == /\ r.of = Turn /\ r.turn \in {"planned", "selected"}
                      /\ e.name = "followup.started" /\ e.of \notin r.ended
             move == r.of = Turn /\ e.of = Turn /\ to # {} /\ InTurn(r, e)
             go == /\ r.of # Turn /\ e.of = r.of /\ InTurn(r, e)
                   /\ e.name \in {"followup.step", "followup.finding",
                                  "followup.summary"}
             end == /\ r.of # Turn /\ e.of = r.of
                    /\ e.name \in {"followup.completed", "followup.failed"}
             steps == IF e.n > 0 THEN e.n ELSE r.steps
  <2>1. Reads(r, e) =
          CASE error -> [r EXCEPT !.turn = "failed", !.of = Turn]
            [] move -> [r EXCEPT !.turn = CHOOSE t \in to : TRUE, !.steps = steps]
            [] start -> [r EXCEPT !.of = e.of, !.steps = 0]
            [] go -> [r EXCEPT !.steps = steps]
            [] end -> [r EXCEPT !.of = Turn, !.ended = @ \cup {e.of}]
            [] OTHER -> [r EXCEPT !.turn = "lost"]
    BY DEF Reads
  <2>2. ~error /\ move /\ ~start /\ ~go /\ ~end
    BY <1>1, <1>3, <1>5, <1>6, <1>10
  <2> HIDE DEF error, move, start, go, end, steps, to, r, e
  <2>3. Reads(r, e) = [r EXCEPT !.turn = CHOOSE t \in to : TRUE, !.steps = steps]
    BY <2>1, <2>2
  <2> QED
    BY <2>3 DEF steps, WithTurnSteps
<1>9. WithTurnSteps(r, m[3], n) = Place(m[3], Turn, n, E)
  BY PlaceUpdates
<1> HIDE DEF r, e, to
<1> QED
  BY <1>4, <1>7, <1>8, <1>9 DEF r, e

\* An error ends the turn or the follow-up wherever it is.
LEMMA ReadsError ==
  ASSUME NEW turn, turn \notin {"failed", "over", "lost"}, NEW of, NEW n, NEW E
  PROVE  Reads(Place(turn, of, n, E), Says("error")) = Place("failed", Turn, n, E)
<1> DEFINE r == Place(turn, of, n, E)
           e == Says("error")
<1>0. WithTurnOf(r, "failed", Turn) = Place("failed", Turn, n, E)
  BY PlaceUpdates
<1>1. r.turn = turn /\ e.name = "error" /\ e.of = Turn
  BY DEF Place, Says, Event
<1>2. \A y \in TurnMoves : y[2] # "error"
  BY DEF TurnMoves
<1> HIDE DEF r, e
<1>3. {m[3] : m \in {x \in TurnMoves : x[1] = r.turn /\ x[2] = e.name}} = {}
  BY <1>1, <1>2
<1>4. Reads(r, e) = WithTurnOf(r, "failed", Turn)
  BY <1>1, <1>3 DEF Reads, WithTurnOf
<1> QED
  BY <1>0, <1>4 DEF r, e

\* The next step of the cycle.
LEMMA ReadsStep ==
  ASSUME NEW n \in Nat, NEW E
  PROVE  Reads(Place("cycle", Turn, n, E), Event("step", Turn, n + 1))
           = Place("cycle", Turn, n + 1, E)
<1> DEFINE r == Place("cycle", Turn, n, E)
           e == Event("step", Turn, n + 1)
           to == {x[3] : x \in {y \in TurnMoves : y[1] = r.turn /\ y[2] = e.name}}
<1>1. /\ r.turn = "cycle" /\ r.of = Turn /\ r.steps = n /\ r.ended = E
      /\ e.name = "step" /\ e.of = Turn /\ e.n = n + 1
  BY DEF Place, Event
<1>2. to = {"cycle"}
  <2>1. \A y \in TurnMoves : y[1] = "cycle" /\ y[2] = "step" => y[3] = "cycle"
    BY DEF TurnMoves
  <2>2. <<"cycle", "step", "cycle">> \in TurnMoves
    BY DEF TurnMoves
  <2> QED
    BY <1>1, <2>1, <2>2
<1>3. (CHOOSE t \in to : TRUE) = "cycle"
  BY <1>2
<1>4. InTurn(r, e)
  BY <1>1 DEF InTurn
<1>5. (IF e.n > 0 THEN e.n ELSE r.steps) = n + 1
  BY <1>1
<1>6. Reads(r, e) = WithTurnSteps(r, CHOOSE t \in to : TRUE,
                                  IF e.n > 0 THEN e.n ELSE r.steps)
  <2> DEFINE error == e.name = "error" /\ r.turn \notin {"failed", "over", "lost"}
             start == /\ r.of = Turn /\ r.turn \in {"planned", "selected"}
                      /\ e.name = "followup.started" /\ e.of \notin r.ended
             move == r.of = Turn /\ e.of = Turn /\ to # {} /\ InTurn(r, e)
             go == /\ r.of # Turn /\ e.of = r.of /\ InTurn(r, e)
                   /\ e.name \in {"followup.step", "followup.finding",
                                  "followup.summary"}
             end == /\ r.of # Turn /\ e.of = r.of
                    /\ e.name \in {"followup.completed", "followup.failed"}
             steps == IF e.n > 0 THEN e.n ELSE r.steps
  <2>1. Reads(r, e) =
          CASE error -> [r EXCEPT !.turn = "failed", !.of = Turn]
            [] move -> [r EXCEPT !.turn = CHOOSE t \in to : TRUE, !.steps = steps]
            [] start -> [r EXCEPT !.of = e.of, !.steps = 0]
            [] go -> [r EXCEPT !.steps = steps]
            [] end -> [r EXCEPT !.of = Turn, !.ended = @ \cup {e.of}]
            [] OTHER -> [r EXCEPT !.turn = "lost"]
    BY DEF Reads
  <2>2. ~error /\ move /\ ~start /\ ~go /\ ~end
    BY <1>1, <1>2, <1>4
  <2> HIDE DEF error, move, start, go, end, steps, to, r, e
  <2>3. Reads(r, e) = [r EXCEPT !.turn = CHOOSE t \in to : TRUE, !.steps = steps]
    BY <2>1, <2>2
  <2> QED
    BY <2>3 DEF steps, WithTurnSteps
<1>7. WithTurnSteps(r, "cycle", n + 1) = Place("cycle", Turn, n + 1, E)
  BY PlaceUpdates
<1> HIDE DEF r, e, to
<1> QED
  BY <1>3, <1>5, <1>6, <1>7 DEF r, e

\* A follow-up starts between two others.
LEMMA ReadsStart ==
  ASSUME NEW turn \in {"planned", "selected"}, NEW n, NEW E, NEW k \in Kinds, k \notin E
  PROVE  Reads(Place(turn, Turn, n, E), About("followup.started", k))
           = Place(turn, k, 0, E)
<1> DEFINE r == Place(turn, Turn, n, E)
           e == About("followup.started", k)
<1>0. WithOfSteps(r, k, 0) = Place(turn, k, 0, E)
  BY PlaceUpdates
<1>1. /\ r.turn = turn /\ r.of = Turn /\ r.ended = E
      /\ e.name = "followup.started" /\ e.of = k
  BY DEF Place, About, Event
<1>2. e.of # Turn
  BY <1>1, TurnIsNoKind
<1> HIDE DEF r, e
<1>3. Reads(r, e) = WithOfSteps(r, e.of, 0)
  BY <1>1, <1>2 DEF Reads, WithOfSteps
<1> QED
  BY <1>0, <1>1, <1>3 DEF r, e

\* What a follow-up says before its outcome.
LEMMA ReadsWithin ==
  ASSUME NEW turn, NEW n \in Nat, NEW E, NEW k \in Kinds,
         NEW name \in {"followup.step", "followup.finding", "followup.summary"}
  PROVE  Reads(Place(turn, k, n, E), About(name, k)) = Place(turn, k, n, E)
<1> DEFINE r == Place(turn, k, n, E)
           e == About(name, k)
<1>0. WithSteps(r, n) = r
  BY PlaceSteps
<1>1. r.of = k /\ r.steps = n /\ e.name = name /\ e.of = k /\ e.n = 0
  BY DEF Place, About, Event
<1>2. k # Turn
  BY TurnIsNoKind
<1>3. InTurn(r, e)
  BY <1>1 DEF InTurn
<1> HIDE DEF r, e
<1>4. Reads(r, e) = WithSteps(r, IF e.n > 0 THEN e.n ELSE r.steps)
  BY <1>1, <1>2, <1>3 DEF Reads, WithSteps
<1>5. (IF e.n > 0 THEN e.n ELSE r.steps) = n
  BY <1>1
<1> QED
  BY <1>0, <1>4, <1>5 DEF r, e

\* The next step of the call of a follow-up.
LEMMA ReadsFollowUpStep ==
  ASSUME NEW turn, NEW n \in Nat, NEW E, NEW k \in Kinds
  PROVE  Reads(Place(turn, k, n, E), Event("followup.step", k, n + 1))
           = Place(turn, k, n + 1, E)
<1> DEFINE r == Place(turn, k, n, E)
           e == Event("followup.step", k, n + 1)
<1>0. WithSteps(r, n + 1) = Place(turn, k, n + 1, E)
  BY PlaceSteps
<1>1. r.of = k /\ r.steps = n /\ e.name = "followup.step" /\ e.of = k /\ e.n = n + 1
  BY DEF Place, Event
<1>2. k # Turn
  BY TurnIsNoKind
<1>3. InTurn(r, e)
  BY <1>1 DEF InTurn
<1> HIDE DEF r, e
<1>4. Reads(r, e) = WithSteps(r, IF e.n > 0 THEN e.n ELSE r.steps)
  BY <1>1, <1>2, <1>3 DEF Reads, WithSteps
<1>5. (IF e.n > 0 THEN e.n ELSE r.steps) = n + 1
  BY <1>1
<1> QED
  BY <1>0, <1>4, <1>5 DEF r, e

\* A follow-up has its outcome.
LEMMA ReadsOutcome ==
  ASSUME NEW turn, NEW n, NEW E, NEW k \in Kinds,
         NEW name \in {"followup.completed", "followup.failed"}
  PROVE  Reads(Place(turn, k, n, E), About(name, k)) = Place(turn, Turn, n, E \cup {k})
<1> DEFINE r == Place(turn, k, n, E)
           e == About(name, k)
<1>0. WithOfEnded(r, Turn, E \cup {k}) = Place(turn, Turn, n, E \cup {k})
  BY PlaceUpdates
<1>1. r.of = k /\ r.ended = E /\ e.name = name /\ e.of = k
  BY DEF Place, About, Event
<1>2. k # Turn
  BY TurnIsNoKind
<1> HIDE DEF r, e
<1>3. Reads(r, e) = WithOfEnded(r, Turn, r.ended \cup {e.of})
  BY <1>1, <1>2 DEF Reads, WithOfEnded
<1> QED
  BY <1>0, <1>1, <1>3 DEF r, e

-----------------------------------------------------------------------------
(* What a reader makes of the steps in a queue *)

\* The step of number n of a call pumped for k.
Step(k, n) == Event(IF k = Turn THEN "step" ELSE "followup.step", k, n)
StepsOf(k) == {Step(k, n) : n \in Nat}
Steps(k, t, m) == [i \in 1..m |-> Step(k, t + i)]

LEMMA ReadsNextStep ==
  ASSUME NEW turn, NEW k \in Kinds \cup {Turn}, k = Turn => turn = "cycle",
         NEW n \in Nat, NEW E
  PROVE  Reads(Place(turn, k, n, E), Step(k, n + 1)) = Place(turn, k, n + 1, E)
<1>1. CASE k = Turn
  BY <1>1, ReadsStep DEF Step
<1>2. CASE k # Turn
  BY <1>2, ReadsFollowUpStep DEF Step
<1> QED
  BY <1>1, <1>2

LEMMA StepsGrow ==
  ASSUME NEW k, NEW t \in Nat, NEW m \in Nat
  PROVE  /\ Steps(k, t, m) \in Seq(StepsOf(k)) /\ Step(k, t + (m + 1)) \in StepsOf(k)
         /\ Steps(k, t, m + 1) = Append(Steps(k, t, m), Step(k, t + (m + 1)))
<1>1. \A i \in 1..(m + 1) : t + i \in Nat
  OBVIOUS
<1>2. \A i \in 1..(m + 1) : Step(k, t + i) \in StepsOf(k)
  BY <1>1 DEF StepsOf
<1>3. Steps(k, t, m) \in Seq(StepsOf(k))
  BY <1>2, SeqDef DEF Steps
<1>4. Len(Steps(k, t, m)) = m /\ Len(Steps(k, t, m + 1)) = m + 1
  BY DEF Steps
<1>5. Steps(k, t, m + 1) = Append(Steps(k, t, m), Step(k, t + (m + 1)))
  BY <1>3, <1>4 DEF Steps
<1>6. Step(k, t + (m + 1)) \in StepsOf(k)
  BY <1>2
<1> QED
  BY <1>3, <1>5, <1>6

\* Steps that follow one another take a reader on by their number.
LEMMA ReadsSteps ==
  ASSUME NEW turn, NEW k \in Kinds \cup {Turn}, k = Turn => turn = "cycle",
         NEW t \in Nat, NEW m \in Nat, NEW E
  PROVE  ReadsAll(Place(turn, k, t, E), Steps(k, t, m)) = Place(turn, k, t + m, E)
<1> DEFINE Good(i) == ReadsAll(Place(turn, k, t, E), Steps(k, t, i))
                        = Place(turn, k, t + i, E)
           Bad == {i \in Nat : ~Good(i)}
<1>1. Good(0)
  <2>1. Steps(k, t, 0) = <<>> /\ t + 0 = t
    BY DEF Steps
  <2> QED
    BY <2>1, ReadsNothing
<1>2. ASSUME NEW i \in Nat, Good(i) PROVE Good(i + 1)
  <2>1. /\ Step(k, t + (i + 1)) \in StepsOf(k) /\ Steps(k, t, i) \in Seq(StepsOf(k))
        /\ Steps(k, t, i + 1) = Append(Steps(k, t, i), Step(k, t + (i + 1)))
    BY StepsGrow
  <2>2. ReadsAll(Place(turn, k, t, E), Append(Steps(k, t, i), Step(k, t + (i + 1))))
          = Reads(ReadsAll(Place(turn, k, t, E), Steps(k, t, i)), Step(k, t + (i + 1)))
    BY <2>1, ReadsOneMore
  <2>3. t + i \in Nat /\ t + (i + 1) = (t + i) + 1
    OBVIOUS
  <2>4. Reads(Place(turn, k, t + i, E), Step(k, (t + i) + 1))
          = Place(turn, k, (t + i) + 1, E)
    BY <2>3, ReadsNextStep
  <2> QED
    BY <1>2, <2>1, <2>2, <2>3, <2>4
<1> SUFFICES ASSUME Bad # {} PROVE FALSE
  OBVIOUS
<1> HIDE DEF Good
<1>3. PICK i \in Bad : \A j \in Bad : i <= j
  BY LeastNat
<1>4. i # 0
  BY <1>1
<1>5. i - 1 \in Nat /\ Good(i - 1)
  BY <1>3, <1>4
<1> QED
  BY <1>2, <1>5

LEMMA PlaceOfReading ==
  ASSUME NEW r \in Reading
  PROVE  r = Place(r.turn, r.of, r.steps, r.ended)
BY DEF Reading, Place

LEMMA PlaceIsReading ==
  ASSUME NEW turn \in {"new", "routed", "answered", "cycle", "failed", "summed",
                       "planned", "briefed", "over", "selected", "lost"},
         NEW of \in Kinds \cup {Turn}, NEW n \in Nat, NEW E \in SUBSET Kinds
  PROVE  /\ Place(turn, of, n, E) \in Reading
         /\ Place(turn, of, n, E).turn = turn /\ Place(turn, of, n, E).of = of
         /\ Place(turn, of, n, E).steps = n /\ Place(turn, of, n, E).ended = E
BY DEF Reading, Place

\* Once the queue is written a reader has every step that was emitted.
LEMMA ReadsPending ==
  ASSUME TypeOK, NEW s \in Streams, Pumping(s), read[s].of = item[s],
         item[s] = Turn => read[s].turn = "cycle"
  PROVE  /\ Pending(s) \in Seq(StepsOf(item[s]))
         /\ ReadsAll(read[s], Pending(s))
              = Place(read[s].turn, item[s], run[s].steps, read[s].ended)
<1> DEFINE t == run[s].taken
           m == run[s].steps - run[s].taken
<1>1. /\ t \in Nat /\ m \in Nat /\ t + m = run[s].steps
      /\ item[s] \in Kinds \cup {Turn} /\ read[s] \in Reading
  BY ChatStreamAssumption DEF TypeOK, Run, Pumping
<1>2. Pending(s) = Steps(item[s], t, m)
  BY DEF Pending, Steps, Step
<1>3. read[s] = Place(read[s].turn, item[s], t, read[s].ended)
  BY <1>1, PlaceOfReading DEF Pumping
<1> HIDE DEF t, m
<1>4. Pending(s) \in Seq(StepsOf(item[s]))
  BY <1>1, <1>2, StepsGrow
<1>5. ReadsAll(Place(read[s].turn, item[s], t, read[s].ended), Steps(item[s], t, m))
        = Place(read[s].turn, item[s], t + m, read[s].ended)
  BY <1>1, ReadsSteps
<1> QED
  BY <1>1, <1>2, <1>3, <1>4, <1>5

-----------------------------------------------------------------------------
(* The follow-ups a turn launches *)

LEMMA CandidateKinds ==
  ASSUME NEW v, NEW c \in Candidates(v)
  PROVE  c.kind \in Kinds /\ (c.kind = Deep => c = [kind |-> Deep, id |-> NoEntity])
<1> DEFINE pairs == {x \in (Kinds \ {Deep}) \X (v.hints \cup v.edges) :
                       /\ x[2][1] = EntityOf[x[1]]
                       /\ x[1] # Pc => "data_gap" \in v.codes}
           aimed == {[kind |-> kp[1], id |-> kp[2][2]] : kp \in pairs}
           deep == [kind |-> Deep, id |-> NoEntity]
<1>1. c \in aimed \cup {deep}
  <2>1. Candidates(v) \subseteq aimed \cup {deep}
    BY DEF Candidates
  <2> QED
    BY <2>1
<1>2. CASE c = deep
  BY <1>2 DEF Kinds
<1>3. CASE c \in aimed
  <2>1. PICK kp \in pairs : c = [kind |-> kp[1], id |-> kp[2][2]]
    BY <1>3
  <2>2. kp[1] \in Kinds \ {Deep}
    OBVIOUS
  <2> HIDE DEF pairs
  <2>3. c.kind = kp[1]
    BY <2>1
  <2> QED
    BY <2>2, <2>3
<1> QED
  BY <1>1, <1>2, <1>3

\* A plan launches at most a research and a proof, and no research for a query
\* that had one.
LEMMA LaunchedKinds ==
  ASSUME NEW v, NEW canStart, NEW again \in BOOLEAN,
         NEW q \in AutoLaunched(v, canStart, again),
         NEW kinds, kinds = [i \in DOMAIN q |-> q[i].kind]
  PROVE  /\ kinds \in Seq(Kinds) /\ Len(kinds) <= 2
         /\ again => Deep \notin ToSet(kinds)
<1> DEFINE may == MayLaunch(v, canStart, again)
           research == {c \in may : c.kind = Deep}
           proofs == Best(may \ research, v)
           deep == [kind |-> Deep, id |-> NoEntity]
<1>1. /\ \A c \in may : c.kind \in Kinds /\ (c.kind = Deep => c = deep)
      /\ again => \A c \in may : c.kind # Deep
  BY CandidateKinds DEF MayLaunch
<1>2. proofs \subseteq may
  BY DEF Best
<1>3. PICK S : /\ q \in Ordered(S, v)
               /\ S = research \/ \E c \in proofs : S = research \cup {c}
  BY DEF AutoLaunched
<1> HIDE DEF may, proofs
<1>4. S \subseteq may
  BY <1>2, <1>3
<1>5. IsFiniteSet(research) /\ Cardinality(research) \in 0..1
  <2>1. research \subseteq {deep}
    BY <1>1
  <2>2. IsFiniteSet({deep}) /\ Cardinality({deep}) = 1
    BY FS_Singleton
  <2> QED
    BY <2>1, <2>2, FS_Subset, FS_CardinalityType
<1> HIDE DEF research
<1>6. Cardinality(S) \in 0..2
  <2>1. CASE S = research
    BY <1>5, <2>1
  <2>2. CASE \E c \in proofs : S = research \cup {c}
    <3>1. PICK c \in proofs : S = research \cup {c}
      BY <2>2
    <3>2. Cardinality(research \cup {c}) \in {Cardinality(research), Cardinality(research) + 1}
      BY <1>5, FS_AddElement
    <3> QED
      BY <1>5, <3>1, <3>2
  <2> QED
    BY <1>3, <2>1, <2>2
<1>7. q \in [1..Cardinality(S) -> S]
  BY <1>3 DEF Ordered
<1>8. \A i \in 1..Cardinality(S) : q[i] \in may
  BY <1>4, <1>7
<1>9. kinds \in [1..Cardinality(S) -> Kinds]
  BY <1>1, <1>7, <1>8
<1>10. kinds \in Seq(Kinds) /\ Len(kinds) = Cardinality(S)
  BY <1>6, <1>9, SeqDef
<1>11. again => Deep \notin ToSet(kinds)
  BY <1>1, <1>7, <1>8, <1>9 DEF ToSet
<1> QED
  BY <1>6, <1>10, <1>11

-----------------------------------------------------------------------------
(* The other streams *)

LEMMA OthersKeep ==
  ASSUME NEW t \in Streams, Sound(t), chats' = chats, auto'[t] = auto[t],
         at'[t] = at[t], item'[t] = item[t], run'[t] = run[t],
         read'[t] = read[t], aborted'[t] = aborted[t]
  PROVE  Sound(t)'
<1>1. Beginning(t) => Beginning(t)'
  BY DEF Beginning
<1>2. /\ Untouched(t) => Untouched(t)'
      /\ Settled(t) => Settled(t)'
      /\ Pumping(t) => Pumping(t)'
  BY DEF Untouched, Settled, Pumping
<1>3. InTheTurn(t) => InTheTurn(t)'
  BY <1>2 DEF InTheTurn
<1>4. InAFollowUp(t) => InAFollowUp(t)'
  BY <1>2 DEF InAFollowUp, Executing
<1>5. Briefing(t) => Briefing(t)'
  BY <1>2 DEF Briefing
<1>6. Over(t) => Over(t)'
  BY <1>2 DEF Over
<1>7. Forsaken(t) => Forsaken(t)'
  BY DEF Forsaken
<1> QED
  BY <1>1, <1>3, <1>4, <1>5, <1>6, <1>7 DEF Sound

\* A stream that leaves its preflights with a research is remembered; then no
\* step but Candidate adds to those that hold one.
LEMMA RaceKeeps ==
  ASSUME Remembered, Met, UNCHANGED <<chats, query, auto>>, used \subseteq used',
         met' = met, NEW s \in Streams, at[s] # "closed",
         \A t \in Streams \ {s} : at'[t] = at[t] /\ read'[t] = read[t],
         at[s] = "preflight" /\ Holds(s)' => at'[s] = "preflight" \/ query[s] \in used'
  PROVE  Remembered' /\ Met'
<1>1. \A t \in Streams : Holds(t)' => Holds(t)
  BY DEF Holds
<1>2. Remembered'
  BY <1>1 DEF Remembered
<1>3. Met'
  BY <1>1 DEF Met
<1> QED
  BY <1>2, <1>3

LEMMA StreamSteps ==
  ASSUME IInv, TypeOK', UNCHANGED <<chats, query, auto, met>>, used \subseteq used',
         NEW s \in Streams, at[s] # "closed", Sound(s)',
         \A t \in Streams \ {s} : /\ at'[t] = at[t] /\ item'[t] = item[t]
                                  /\ run'[t] = run[t] /\ read'[t] = read[t]
                                  /\ aborted'[t] = aborted[t],
         at[s] = "preflight" /\ Holds(s)' => at'[s] = "preflight" \/ query[s] \in used'
  PROVE  IInv'
<1>1. \A t \in Streams \ {s} : Sound(t)'
  BY OthersKeep DEF IInv
<1>2. Remembered' /\ Met'
  BY RaceKeeps DEF IInv
<1> QED
  BY <1>1, <1>2 DEF IInv

-----------------------------------------------------------------------------
(* Writing *)

\* The generators of a client that is gone are ended.
Stopped(s) == aborted[s] /\ at' = [at EXCEPT ![s] = "closed"] /\ read' = read

Wrote(s, next, then) ==
  \/ Stopped(s)
  \/ at' = [at EXCEPT ![s] = then] /\ read' = [read EXCEPT ![s] = next]

LEMMA WritingCases ==
  ASSUME NEW s \in Streams, NEW events, NEW then,
         Writes(s, events, then) \/ Checked(s, events, then)
  PROVE  Wrote(s, ReadsAll(read[s], events), then)
BY DEF Writes, Checked, Wrote, Stopped

LEMMA StopKeeps ==
  ASSUME IInv, NEW s \in Streams, at[s] # "closed", Stopped(s),
         UNCHANGED <<chats, auto, aborted>>
  PROVE  Sound(s)' /\ (at[s] = "preflight" => ~Holds(s)')
<1>1. at'[s] = "closed" /\ read'[s] = read[s] /\ aborted'[s]
  BY DEF Stopped, IInv, TypeOK
<1>2. /\ read[s].turn # "lost" /\ read[s].ended \subseteq ToSet(auto[s])
      /\ read[s].of \in ToSet(auto[s]) \cup {Turn}
      /\ s \in chats => read[s].turn \notin {"briefed", "over"}
      /\ at[s] = "preflight" => read[s].of = Turn /\ read[s].ended = {}
  <2>1. CASE Beginning(s)
    BY <2>1 DEF Beginning, Unread
  <2>2. CASE InTheTurn(s)
    BY <2>2 DEF InTheTurn
  <2>3. CASE InAFollowUp(s)
    BY <2>3 DEF InAFollowUp, Executing
  <2>4. CASE Briefing(s)
    BY <2>4 DEF Briefing
  <2>5. CASE Forsaken(s)
    BY <2>5 DEF Forsaken
  <2> QED
    BY <2>1, <2>2, <2>3, <2>4, <2>5 DEF IInv, Sound, Over
<1>3. Over(s)'
  BY <1>1, <1>2 DEF Over
<1>4. Deep # Turn
  BY TurnIsNoKind DEF Kinds
<1> QED
  BY <1>1, <1>2, <1>3, <1>4 DEF Sound, Holds

\* A step of a stream that writes keeps the invariant if it leaves the stream
\* sound and, out of its preflights, remembered.
LEMMA WroteKeeps ==
  ASSUME IInv, NEW s \in Streams, at[s] # "closed",
         NEW next \in Reading, NEW then \in Places, Wrote(s, next, then),
         UNCHANGED <<chats, query, auto, aborted, met>>,
         used' \in SUBSET Queries, used \subseteq used', swarm' = swarm,
         run' \in [Streams -> Run], item' \in [Streams -> Kinds \cup {Turn}],
         \A t \in Streams \ {s} : run'[t] = run[t] /\ item'[t] = item[t],
         Stopped(s) \/ Sound(s)',
         at[s] = "preflight" => \/ query[s] \in used' \/ Deep \notin ToSet(auto[s])
                                \/ then = "closed" /\ next.of = Turn /\ next.ended = {}
  PROVE  IInv'
<1>1. TypeOK' /\ \A t \in Streams \ {s} : at'[t] = at[t] /\ read'[t] = read[t]
  <2>1. at \in [Streams -> Places] /\ read \in [Streams -> Reading]
    BY DEF IInv, TypeOK
  <2>2. "closed" \in Places
    BY DEF Places
  <2>3. CASE Stopped(s)
    <3>1. /\ at' \in [Streams -> Places] /\ read' \in [Streams -> Reading]
          /\ \A t \in Streams \ {s} : at'[t] = at[t] /\ read'[t] = read[t]
      BY <2>1, <2>2, <2>3 DEF Stopped
    <3> QED
      BY <3>1 DEF IInv, TypeOK
  <2>4. CASE at' = [at EXCEPT ![s] = then] /\ read' = [read EXCEPT ![s] = next]
    <3>1. /\ at' \in [Streams -> Places] /\ read' \in [Streams -> Reading]
          /\ \A t \in Streams \ {s} : at'[t] = at[t] /\ read'[t] = read[t]
      BY <2>1, <2>4
    <3> QED
      BY <3>1 DEF IInv, TypeOK
  <2> QED
    BY <2>3, <2>4 DEF Wrote
<1>2. Sound(s)'
  BY StopKeeps
<1>3. at[s] = "preflight" /\ Holds(s)' => query[s] \in used'
  <2>1. CASE Stopped(s)
    BY <2>1, StopKeeps
  <2>2. CASE at' = [at EXCEPT ![s] = then] /\ read' = [read EXCEPT ![s] = next]
    <3>1. at'[s] = then /\ read'[s] = next /\ Deep # Turn
      BY <2>2, TurnIsNoKind DEF IInv, TypeOK, Kinds
    <3> QED
      BY <3>1 DEF Holds
  <2> QED
    BY <2>1, <2>2 DEF Wrote
<1> QED
  BY <1>1, <1>2, <1>3, StreamSteps

\* The same, when the stream keeps its call and what it works for.
LEMMA TellsKeeps ==
  ASSUME IInv, NEW s \in Streams, at[s] # "closed",
         NEW next \in Reading, NEW then \in Places, Wrote(s, next, then),
         UNCHANGED <<chats, item, query, auto, run, swarm, aborted, used, met>>,
         at'[s] = then /\ read'[s] = next => Sound(s)',
         at[s] = "preflight" => then = "closed" /\ next.of = Turn /\ next.ended = {}
  PROVE  IInv'
<1>1. Stopped(s) \/ Sound(s)'
  BY DEF Wrote, IInv, TypeOK
<1>2. used' \in SUBSET Queries /\ run' \in [Streams -> Run]
      /\ item' \in [Streams -> Kinds \cup {Turn}]
  BY DEF IInv, TypeOK
<1> QED
  BY <1>1, <1>2, WroteKeeps

-----------------------------------------------------------------------------
(* executeAutoLaunched() *)

LEMMA RunTypes ==
  /\ NoRun \in Run /\ NoRun.call = "none" /\ NoRun.steps = 0 /\ NoRun.taken = 0
  /\ NewRun \in Run /\ NewRun.call = "running" /\ NewRun.steps = 0 /\ NewRun.taken = 0
<1>1. 0 \in 0..MaxSteps
  BY ChatStreamAssumption
<1> DEFINE r == NoRun
<1>2. r \in Run /\ r.call = "none" /\ r.steps = 0 /\ r.taken = 0
  BY <1>1 DEF NoRun, Run
<1> HIDE DEF r
<1>3. LET new == [r EXCEPT !.call = "running"] IN
      new \in Run /\ new.call = "running" /\ new.steps = 0 /\ new.taken = 0
  BY <1>2 DEF Run
<1> QED
  BY <1>2, <1>3 DEF NewRun, r

\* Where the generator of the follow-ups goes on: after a follow-up, after the
\* plan of a turn, or at the begin of a selected one.
LEMMA GoesOnKeeps ==
  ASSUME IInv, NEW s \in Streams, at[s] # "closed",
         NEW T, NEW events \in Seq(T), NEW n \in Nat, NEW E \in SUBSET Kinds,
         GoesOn(s, events),
         ReadsAll(read[s], events) = Place(Executing(s), Turn, n, E),
         E \cup {Turn} = read[s].ended \cup {read[s].of, Turn},
         E \subseteq ToSet(auto[s]),
         \/ item[s] = Audit
         \/ run[s].call \in {"ok", "failed"} /\ n = run[s].steps
         \/ at[s] = "begin",
         UNCHANGED <<chats, query, auto, swarm, aborted, met>>,
         IF at[s] = "preflight" THEN used' = Recorded(s) ELSE used' = used
  PROVE  IInv'
<1> DEFINE k == auto[s][Least(Left(s))]
           started == About("followup.started", k)
           here == Place(Executing(s), Turn, n, E)
<1>1. /\ used' \in SUBSET Queries /\ used \subseteq used'
      /\ at[s] = "preflight" => query[s] \in used' \/ Deep \notin ToSet(auto[s])
  BY DEF IInv, TypeOK, Recorded
<1>2. /\ here \in Reading /\ here.turn = Executing(s) /\ here.of = Turn
      /\ here.steps = n /\ here.ended = E
  BY PlaceIsReading DEF Executing
<1>3. auto[s] \in Seq(Kinds) /\ Turn \notin Kinds
  BY TurnIsNoKind DEF IInv, TypeOK
<1>4. at[s] = "begin" => run[s] = NoRun /\ s \notin chats
  BY DEF IInv, Sound, Beginning, InTheTurn, InAFollowUp, Briefing, Forsaken, Over
<1>5. CASE aborted[s] \/ Left(s) = {}
  <2> DEFINE then == IF s \in chats THEN "briefing" ELSE "closed"
  <2>1. Writes(s, events, then) /\ UNCHANGED <<run, item>>
    BY <1>5 DEF GoesOn
  <2>2. Wrote(s, here, then)
    BY <2>1, WritingCases
  <2>3. Stopped(s) \/ Sound(s)'
    <3> SUFFICES ASSUME ~Stopped(s) PROVE Sound(s)'
      OBVIOUS
    <3>1. at'[s] = then /\ read'[s] = here
      BY <2>2 DEF Wrote, IInv, TypeOK
    <3> HIDE DEF here
    <3>2. CASE s \in chats /\ aborted[s]
      <4>1. Forsaken(s)'
        BY <1>2, <3>1, <3>2 DEF Forsaken, Executing
      <4> QED
        BY <4>1 DEF Sound
    <3>3. CASE s \in chats /\ ~aborted[s]
      <4>1. \A i \in DOMAIN auto[s] : auto[s][i] \in E
        BY <1>3, <1>5, <3>3 DEF Left
      <4>2. ToSet(auto[s]) = E
        BY <4>1 DEF ToSet
      <4>3. Briefing(s)'
        BY <1>2, <1>4, <2>1, <3>1, <3>3, <4>2 DEF Briefing, Settled, Executing
      <4> QED
        BY <4>3 DEF Sound
    <3>4. CASE s \notin chats
      <4>1. run[s].call # "none" /\ item[s] # Audit
              => run[s].call \in {"ok", "failed"} /\ n = run[s].steps
        BY <1>4 DEF NoRun
      <4>2. Over(s)'
        BY <1>2, <2>1, <3>1, <3>4, <4>1 DEF Over, Settled, Executing
      <4> QED
        BY <4>2 DEF Sound
    <3> QED
      BY <3>2, <3>3, <3>4
  <2>4. then \in Places
    BY DEF Places
  <2>5. run' \in [Streams -> Run] /\ item' \in [Streams -> Kinds \cup {Turn}]
    BY <2>1 DEF IInv, TypeOK
  <2> HIDE DEF then, here
  <2> QED
    BY <1>1, <1>2, <2>1, <2>2, <2>3, <2>4, <2>5, WroteKeeps
<1>6. CASE ~aborted[s] /\ Left(s) # {}
  <2> DEFINE then == IF k = Audit THEN "audit" ELSE "pull"
             there == Place(Executing(s), k, 0, E)
             new == IF k = Audit THEN NoRun ELSE NewRun
  <2>1. /\ Writes(s, Append(events, started), then)
        /\ item' = [item EXCEPT ![s] = k] /\ run' = [run EXCEPT ![s] = new]
    BY <1>6 DEF GoesOn
  <2>2. k \in Kinds /\ k \notin E /\ k \in ToSet(auto[s])
    <3>1. Left(s) \in SUBSET Nat
      BY <1>3 DEF Left
    <3>2. Least(Left(s)) \in Left(s)
      BY <1>6, <3>1, LeastNat DEF Least
    <3>3. PICK i \in DOMAIN auto[s] : /\ k = auto[s][i]
                                     /\ auto[s][i] \notin read[s].ended \cup {read[s].of}
      BY <3>2 DEF Left
    <3>4. k \in Kinds /\ k # Turn /\ k \notin read[s].ended \cup {read[s].of}
      BY <1>3, <3>3
    <3>5. k \in ToSet(auto[s])
      BY <3>3 DEF ToSet
    <3> QED
      BY <3>4, <3>5
  <2> HIDE DEF k
  <2>3. ReadsAll(read[s], Append(events, started)) = there
    <3>1. events \in Seq(T \cup {started}) /\ started \in T \cup {started}
      OBVIOUS
    <3>2. ReadsAll(read[s], Append(events, started)) = Reads(here, started)
      BY <3>1, ReadsOneMore
    <3>3. Reads(here, started) = there
      BY <2>2, ReadsStart DEF Executing
    <3> QED
      BY <3>2, <3>3
  <2>4. /\ there \in Reading /\ there.turn = Executing(s) /\ there.of = k
        /\ there.steps = 0 /\ there.ended = E
    BY <2>2, PlaceIsReading DEF Executing
  <2>5. Wrote(s, there, then)
    BY <2>1, <2>3, WritingCases
  <2>6. new \in Run /\ (k # Audit => new.call = "running" /\ new.taken = 0 /\ new.steps = 0)
    BY RunTypes
  <2>7. Stopped(s) \/ Sound(s)'
    <3> SUFFICES ASSUME ~Stopped(s) PROVE Sound(s)'
      OBVIOUS
    <3>1. /\ at'[s] = then /\ read'[s] = there /\ run'[s] = new /\ item'[s] = k
      BY <2>1, <2>5 DEF Wrote, IInv, TypeOK
    <3> HIDE DEF there, new
    <3>2. InAFollowUp(s)'
      BY <2>2, <2>4, <2>6, <3>1 DEF InAFollowUp, Pumping, Executing
    <3> QED
      BY <3>2 DEF Sound
  <2>8. /\ run' \in [Streams -> Run] /\ item' \in [Streams -> Kinds \cup {Turn}]
        /\ \A t \in Streams \ {s} : run'[t] = run[t] /\ item'[t] = item[t]
    BY <2>1, <2>2, <2>6 DEF IInv, TypeOK
  <2>9. then \in Places
    BY DEF Places
  <2> HIDE DEF then, there
  <2> QED
    BY <1>1, <2>4, <2>5, <2>7, <2>8, <2>9, WroteKeeps
<1> QED
  BY <1>5, <1>6

\* After the outcome of the follow-up that was under way.
LEMMA FollowUpEnds ==
  ASSUME IInv, NEW s \in Streams, InAFollowUp(s),
         NEW T, NEW events \in Seq(T), GoesOn(s, events), NEW n \in Nat,
         ReadsAll(read[s], events)
           = Place(Executing(s), Turn, n, read[s].ended \cup {item[s]}),
         \/ item[s] = Audit
         \/ run[s].call \in {"ok", "failed"} /\ n = run[s].steps,
         UNCHANGED <<chats, query, auto, swarm, aborted, used, met>>
  PROVE  IInv'
<1> DEFINE E == read[s].ended \cup {item[s]}
<1>1. /\ auto[s] \in Seq(Kinds) /\ item[s] \in ToSet(auto[s])
      /\ read[s].ended \subseteq ToSet(auto[s]) /\ read[s].of = item[s]
      /\ at[s] \notin {"closed", "preflight", "begin"}
  BY DEF IInv, TypeOK, InAFollowUp
<1>2. ToSet(auto[s]) \subseteq Kinds
  BY <1>1 DEF ToSet
<1>3. /\ E \in SUBSET Kinds /\ E \subseteq ToSet(auto[s])
      /\ E \cup {Turn} = read[s].ended \cup {read[s].of, Turn}
  BY <1>1, <1>2
<1> HIDE DEF E
<1> QED
  BY <1>1, <1>3, GoesOnKeeps DEF E

\* A follow-up that found its client gone returns: what it would have yielded
\* first closes the stream, else the turn asks for its briefing.
LEMMA QuitsKeeps ==
  ASSUME IInv, NEW s \in Streams, InAFollowUp(s), aborted[s],
         NEW events, GoesOn(s, events),
         UNCHANGED <<chats, query, auto, swarm, aborted, used, met>>
  PROVE  IInv'
<1> DEFINE then == IF s \in chats THEN "briefing" ELSE "closed"
<1>1. Writes(s, events, then) /\ UNCHANGED <<run, item>>
  BY DEF GoesOn
<1>2. Wrote(s, read[s], then)
  <2>1. CASE events = <<>>
    BY <1>1, <2>1, ReadsNothing DEF Writes, Wrote
  <2>2. CASE events # <<>>
    BY <1>1, <2>2 DEF Writes, Wrote, Stopped
  <2> QED
    BY <2>1, <2>2
<1>3. /\ at[s] \notin {"closed", "preflight"} /\ read[s] \in Reading
      /\ read[s].turn = Executing(s) /\ read[s].ended \subseteq ToSet(auto[s])
      /\ read[s].of \in ToSet(auto[s])
  BY DEF InAFollowUp, IInv, TypeOK
<1>4. ASSUME at'[s] = then, read'[s] = read[s] PROVE Sound(s)'
  <2>1. CASE s \in chats
    <3>1. Forsaken(s)'
      BY <1>3, <1>4, <2>1 DEF Forsaken, Executing
    <3> QED
      BY <3>1 DEF Sound
  <2>2. CASE s \notin chats
    <3>1. Over(s)'
      BY <1>3, <1>4, <2>2 DEF Over, Executing
    <3> QED
      BY <3>1 DEF Sound
  <2> QED
    BY <2>1, <2>2
<1>5. then \in Places
  BY DEF Places
<1> HIDE DEF then
<1> QED
  BY <1>1, <1>2, <1>3, <1>4, <1>5, TellsKeeps

-----------------------------------------------------------------------------
(* The actions of a turn *)

LEMMA ReadsTurn ==
  ASSUME NEW from, NEW name, NEW to, <<from, name, to>> \in TurnMoves,
         NEW n \in Nat, NEW E
  PROVE  Reads(Place(from, Turn, n, E), Says(name)) = Place(to, Turn, n, E)
<1> DEFINE m == <<from, name, to>>
<1>1. m[1] = from /\ m[2] = name /\ m[3] = to
  OBVIOUS
<1> HIDE DEF m
<1>2. m \in TurnMoves
  BY DEF m
<1> QED
  BY <1>1, <1>2, ReadsMove

\* What is known of a stream in one of its awaits.
LEMMA Awaits ==
  ASSUME IInv, NEW s \in Streams
  PROVE  /\ read[s] = Place(read[s].turn, read[s].of, read[s].steps, read[s].ended)
         /\ read[s] \in Reading /\ read[s].steps \in Nat /\ run[s] \in Run
         /\ auto[s] \in Seq(Kinds) /\ ToSet(auto[s]) \subseteq Kinds
         /\ at[s] \in {"classify", "reply", "plan", "preflight"} => InTheTurn(s)
         /\ at[s] \in {"pull", "findings", "summarise"}
              => IF item[s] = Turn THEN InTheTurn(s) ELSE InAFollowUp(s)
         /\ at[s] \in {"audit", "poll", "sleep", "report"} => InAFollowUp(s)
         /\ at[s] = "begin" => Beginning(s)
         /\ at[s] = "briefing" => Briefing(s) \/ Forsaken(s)
<1>1. /\ read[s] \in Reading /\ run[s] \in Run /\ auto[s] \in Seq(Kinds)
  BY DEF IInv, TypeOK
<1>2. read[s].steps \in Nat
  BY <1>1 DEF Reading
<1>3. ToSet(auto[s]) \subseteq Kinds
  BY <1>1 DEF ToSet
<1>4. InAFollowUp(s) => item[s] # Turn
  BY <1>3, TurnIsNoKind DEF InAFollowUp
<1>5. Sound(s)
  BY DEF IInv
<1>6. at[s] \in {"classify", "reply", "plan", "preflight"} => InTheTurn(s)
  BY <1>5 DEF Sound, Beginning, InAFollowUp, Briefing, Forsaken, Over
<1>7. at[s] \in {"pull", "findings", "summarise"}
        => IF item[s] = Turn THEN InTheTurn(s) ELSE InAFollowUp(s)
  BY <1>4, <1>5 DEF Sound, Beginning, InTheTurn, Briefing, Forsaken, Over
<1>8. at[s] \in {"audit", "poll", "sleep", "report"} => InAFollowUp(s)
  BY <1>5 DEF Sound, Beginning, InTheTurn, Briefing, Forsaken, Over
<1>9. at[s] = "begin" => Beginning(s)
  BY <1>5 DEF Sound, InTheTurn, InAFollowUp, Briefing, Forsaken, Over
<1>10. at[s] = "briefing" => Briefing(s) \/ Forsaken(s)
  BY <1>5 DEF Sound, InTheTurn, InAFollowUp, Beginning, Over
<1> QED
  BY <1>1, <1>2, <1>3, <1>6, <1>7, <1>8, <1>9, <1>10, PlaceOfReading

LEMMA RejectsKeeps ==
  ASSUME IInv, NEW s \in Streams, Rejects(s)
  PROVE  IInv'
<1> DEFINE next == Place("failed", Turn, read[s].steps, read[s].ended)
<1>1. /\ at[s] \in {"classify", "reply", "findings", "summarise", "plan",
                    "preflight", "audit", "poll", "report", "briefing"}
      /\ UNCHANGED <<chats, item, query, auto, run, swarm, aborted, used, met>>
  BY DEF Rejects
<1>2. /\ read[s].turn \notin {"failed", "over", "lost"}
      /\ read[s].ended \subseteq ToSet(auto[s])
      /\ at[s] = "preflight" => read[s].ended = {}
      /\ ~aborted[s] /\ run[s].call # "none" /\ item[s] # Audit
           => run[s].call \in {"ok", "failed"} /\ read[s].steps = run[s].steps
  <2>1. CASE InTheTurn(s)
    BY <1>1, <2>1 DEF InTheTurn, Untouched, Settled, NoRun
  <2>2. CASE InAFollowUp(s)
    BY <1>1, <2>2 DEF InAFollowUp, Executing, Settled
  <2>3. CASE Briefing(s)
    BY <2>3 DEF Briefing, Settled
  <2>4. CASE Forsaken(s)
    BY <2>4 DEF Forsaken
  <2> QED
    BY <1>1, <2>1, <2>2, <2>3, <2>4, Awaits
<1>3. ReadsAll(read[s], <<Says("error")>>) = next
  BY <1>2, Awaits, ReadsOne, ReadsError
<1>4. Wrote(s, next, "closed")
  BY <1>3, WritingCases DEF Rejects
<1>5. /\ next \in Reading /\ next.turn = "failed" /\ next.of = Turn
      /\ next.steps = read[s].steps /\ next.ended = read[s].ended
  <2>1. read[s] \in Reading /\ read[s].steps \in Nat
    BY Awaits
  <2>2. read[s].ended \in SUBSET Kinds
    BY <2>1 DEF Reading
  <2> QED
    BY <2>1, <2>2, PlaceIsReading
<1> HIDE DEF next
<1>6. ASSUME at'[s] = "closed", read'[s] = next PROVE Sound(s)'
  <2>1. Over(s)'
    BY <1>1, <1>2, <1>5, <1>6 DEF Over, Settled
  <2> QED
    BY <2>1 DEF Sound
<1>7. "closed" \in Places
  BY DEF Places
<1> QED
  BY <1>1, <1>2, <1>4, <1>5, <1>6, <1>7, TellsKeeps

LEMMA RouteKeeps ==
  ASSUME IInv, NEW s \in Streams, Route(s)
  PROVE  IInv'
<1>1. /\ at[s] = "classify" /\ InTheTurn(s)
      /\ read[s] = Place("new", Turn, 0, {}) /\ run[s] = NoRun
      /\ s \in chats /\ item[s] = Turn /\ auto[s] = <<>>
      /\ UNCHANGED <<chats, item, query, auto, swarm, aborted, used, met>>
  BY Awaits DEF Route, InTheTurn, Untouched
<1>2. Reads(Place("new", Turn, 0, {}), Says("classified")) = Place("routed", Turn, 0, {})
  BY ReadsTurn DEF TurnMoves
<1>3. CASE Checked(s, <<Says("classified")>>, "reply") /\ UNCHANGED run
  <2> DEFINE next == Place("routed", Turn, 0, {})
  <2>1. ReadsAll(read[s], <<Says("classified")>>) = next
    BY <1>1, <1>2, ReadsOne
  <2>2. Wrote(s, next, "reply")
    BY <1>3, <2>1, WritingCases
  <2>3. /\ next \in Reading /\ next.turn = "routed" /\ next.of = Turn
        /\ next.steps = 0 /\ next.ended = {}
    BY PlaceIsReading
  <2> HIDE DEF next
  <2>4. ASSUME at'[s] = "reply", read'[s] = next PROVE Sound(s)'
    <3>1. InTheTurn(s)'
      BY <1>1, <1>3, <2>3, <2>4 DEF InTheTurn, Untouched
    <3> QED
      BY <3>1 DEF Sound
  <2>5. "reply" \in Places
    BY DEF Places
  <2> QED
    BY <1>1, <1>3, <2>2, <2>3, <2>4, <2>5, TellsKeeps
<1>4. CASE /\ Checked(s, <<Says("classified"), Says("cycle.start")>>, "pull")
           /\ run' = IF aborted[s] THEN run ELSE [run EXCEPT ![s] = NewRun]
  <2> DEFINE next == Place("cycle", Turn, 0, {})
  <2>1. Reads(Place("routed", Turn, 0, {}), Says("cycle.start")) = next
    BY ReadsTurn DEF TurnMoves
  <2>2. ReadsAll(read[s], <<Says("classified"), Says("cycle.start")>>) = next
    BY <1>1, <1>2, <2>1, ReadsTwo
  <2>3. Wrote(s, next, "pull")
    BY <1>4, <2>2, WritingCases
  <2>4. /\ next \in Reading /\ next.turn = "cycle" /\ next.of = Turn
        /\ next.steps = 0 /\ next.ended = {}
    BY PlaceIsReading
  <2> HIDE DEF next
  <2>5. Stopped(s) \/ Sound(s)'
    <3>1. CASE aborted[s]
      BY <1>4, <3>1 DEF Checked, Stopped
    <3>2. CASE ~aborted[s]
      <4>1. at'[s] = "pull" /\ read'[s] = next /\ run'[s] = NewRun
        BY <1>4, <2>3, <3>2 DEF Wrote, Stopped, IInv, TypeOK
      <4>2. InTheTurn(s)'
        BY <1>1, <2>4, <4>1, RunTypes DEF InTheTurn, Pumping
      <4> QED
        BY <4>2 DEF Sound
    <3> QED
      BY <3>1, <3>2
  <2>6. /\ run' \in [Streams -> Run]
        /\ \A t \in Streams \ {s} : run'[t] = run[t]
    BY <1>4, RunTypes DEF IInv, TypeOK
  <2>7. /\ used' \in SUBSET Queries /\ item' \in [Streams -> Kinds \cup {Turn}]
        /\ "pull" \in Places
    BY <1>1 DEF Places, IInv, TypeOK
  <2> QED
    BY <1>1, <2>3, <2>4, <2>5, <2>6, <2>7, WroteKeeps
<1> QED
  BY <1>3, <1>4 DEF Route

LEMMA ReplyKeeps ==
  ASSUME IInv, NEW s \in Streams, Reply(s)
  PROVE  IInv'
<1> DEFINE next == Place("over", Turn, 0, {})
           events == <<Says("chat.complete"), Says("done")>>
<1>1. /\ at[s] = "reply" /\ read[s] = Place("routed", Turn, 0, {}) /\ run[s] = NoRun
      /\ item[s] = Turn /\ auto[s] = <<>> /\ Checked(s, events, "closed")
      /\ UNCHANGED <<chats, item, query, auto, run, swarm, aborted, used, met>>
  BY Awaits DEF Reply, InTheTurn, Untouched
<1>2. ReadsAll(read[s], events) = next
  <2>1. Reads(Place("routed", Turn, 0, {}), Says("chat.complete"))
          = Place("answered", Turn, 0, {})
    BY ReadsTurn DEF TurnMoves
  <2>2. Reads(Place("answered", Turn, 0, {}), Says("done")) = next
    BY ReadsTurn DEF TurnMoves
  <2> QED
    BY <1>1, <2>1, <2>2, ReadsTwo
<1>3. Wrote(s, next, "closed")
  BY <1>1, <1>2, WritingCases
<1>4. /\ next \in Reading /\ next.turn = "over" /\ next.of = Turn
      /\ next.steps = 0 /\ next.ended = {}
  BY PlaceIsReading
<1> HIDE DEF next
<1>5. ASSUME at'[s] = "closed", read'[s] = next PROVE Sound(s)'
  <2>1. ToSet(auto[s]) = {}
    BY <1>1 DEF ToSet
  <2>2. Over(s)'
    BY <1>1, <1>4, <1>5, <2>1, RunTypes DEF Over
  <2> QED
    BY <2>2 DEF Sound
<1>6. "closed" \in Places
  BY DEF Places
<1> QED
  BY <1>1, <1>3, <1>4, <1>5, <1>6, TellsKeeps

-----------------------------------------------------------------------------
(* The pump *)

LEMMA PlaceStays ==
  ASSUME NEW r \in Reading, NEW n \in Nat
  PROVE  /\ Place(r.turn, r.of, n, r.ended) \in Reading
         /\ Place(r.turn, r.of, n, r.ended).turn = r.turn
         /\ Place(r.turn, r.of, n, r.ended).of = r.of
         /\ Place(r.turn, r.of, n, r.ended).steps = n
         /\ Place(r.turn, r.of, n, r.ended).ended = r.ended
BY DEF Reading, Place

\* A stream that waits on its pump, or just left it, with a reader in the same
\* turn and follow-up.
LEMMA PumpKeeps ==
  ASSUME IInv, NEW s \in Streams, at[s] = "pull", UNCHANGED <<chats, item, auto>>,
         NEW n \in Nat,
         read'[s] = Place(read[s].turn, read[s].of, n, read[s].ended),
         \/ at'[s] = "pull" /\ Pumping(s)'
         \/ /\ Settled(s)'
            /\ at'[s] = IF item[s] \in {Turn, Deep} THEN "findings" ELSE "poll"
  PROVE  Sound(s)'
<1>1. /\ read'[s].turn = read[s].turn /\ read'[s].of = read[s].of
      /\ read'[s].ended = read[s].ended
  BY Awaits, PlaceStays
<1>2. CASE item[s] = Turn
  <2>1. InTheTurn(s)
    BY <1>2, Awaits
  <2>2. InTheTurn(s)'
    BY <1>1, <1>2, <2>1 DEF InTheTurn
  <2> QED
    BY <2>2 DEF Sound
<1>3. CASE item[s] # Turn
  <2>1. InAFollowUp(s)
    BY <1>3, Awaits
  <2>2. item[s] \in {Deep, Pc, Telemetry}
    BY <2>1, Awaits DEF InAFollowUp, Kinds
  <2>3. Deep \notin {Pc, Telemetry} /\ Audit \notin {Deep, Pc, Telemetry}
    BY DEF Deep, Pc, Telemetry, Audit
  <2>4. InAFollowUp(s)'
    BY <1>1, <1>3, <2>1, <2>2, <2>3 DEF InAFollowUp, Executing
  <2> QED
    BY <2>4 DEF Sound
<1> QED
  BY <1>2, <1>3

LEMMA Pulls ==
  ASSUME IInv, NEW s \in Streams, at[s] = "pull"
  PROVE  /\ Pumping(s) /\ read[s].of = item[s]
         /\ item[s] = Turn => read[s].turn = "cycle"
         /\ item[s] # Turn => InAFollowUp(s)
BY Awaits DEF InTheTurn, InAFollowUp

LEMMA EmitKeeps ==
  ASSUME IInv, NEW s \in Streams, Emit(s)
  PROVE  IInv'
<1> DEFINE new == [Woken(run[s]) EXCEPT !.steps = @ + 1]
<1>1. /\ at[s] = "pull" /\ run[s].call = "running" /\ run[s].steps < MaxSteps
      /\ UNCHANGED <<chats, at, item, query, auto, swarm, read, aborted, used, met>>
  BY DEF Emit
<1>0. run' = [run EXCEPT ![s] = new]
  BY DEF Emit
<1>2. /\ new \in Run /\ new.call = run[s].call /\ new.taken = run[s].taken
      /\ new.steps = run[s].steps + 1
  <2>1. run[s] \in Run
    BY DEF IInv, TypeOK
  <2>2. Woken(run[s]) \in Run /\ Woken(run[s]).call = run[s].call
        /\ Woken(run[s]).taken = run[s].taken /\ Woken(run[s]).steps = run[s].steps
    BY <2>1 DEF Woken, Run
  <2>3. run[s].steps + 1 \in 0..MaxSteps
    BY <1>1, <2>1, ChatStreamAssumption DEF Run
  <2> QED
    BY <2>2, <2>3 DEF Run
<1> HIDE DEF new
<1>3. TypeOK'
  BY <1>0, <1>1, <1>2 DEF IInv, TypeOK
<1>4. run'[s] = new
  BY <1>0 DEF IInv, TypeOK
<1>5. Pumping(s)'
  <2>1. run[s].taken \in Nat /\ run[s].steps \in Nat
    BY ChatStreamAssumption DEF IInv, TypeOK, Run
  <2> QED
    BY <1>1, <1>2, <1>4, <2>1, Pulls DEF Pumping
<1>6. Sound(s)'
  BY <1>1, <1>5, Awaits, PumpKeeps
<1>7. \A t \in Streams \ {s} : run'[t] = run[t]
  BY <1>0 DEF IInv, TypeOK
<1> QED
  BY <1>1, <1>3, <1>6, <1>7, StreamSteps

LEMMA SettleKeeps ==
  ASSUME IInv, NEW s \in Streams, NEW outcome \in {"ok", "failed"}, Settle(s, outcome)
  PROVE  IInv'
<1> DEFINE new == [Woken(run[s]) EXCEPT !.call = outcome]
<1>1. /\ at[s] = "pull" /\ run[s].call = "running" /\ run' = [run EXCEPT ![s] = new]
      /\ UNCHANGED <<chats, at, item, query, auto, read, aborted, used, met>>
  BY DEF Settle
<1>2. /\ new \in Run /\ new.call = outcome /\ new.taken = run[s].taken
      /\ new.steps = run[s].steps
  <2>1. run[s] \in Run
    BY DEF IInv, TypeOK
  <2>2. Woken(run[s]) \in Run
        /\ Woken(run[s]).taken = run[s].taken /\ Woken(run[s]).steps = run[s].steps
    BY <2>1 DEF Woken, Run
  <2> QED
    BY <2>2 DEF Run
<1> HIDE DEF new
<1>3. swarm' \in [Streams -> {"none", "running", "done", "failed"}]
  BY DEF Settle, IInv, TypeOK
<1>4. TypeOK'
  BY <1>1, <1>2, <1>3 DEF IInv, TypeOK
<1>5. run'[s] = new
  BY <1>1 DEF IInv, TypeOK
<1>6. Pumping(s)'
  BY <1>1, <1>2, <1>5, Pulls DEF Pumping
<1>7. Sound(s)'
  BY <1>1, <1>6, Awaits, PumpKeeps
<1>8. \A t \in Streams \ {s} : run'[t] = run[t]
  BY <1>1 DEF IInv, TypeOK
<1> QED
  BY <1>1, <1>4, <1>7, <1>8, StreamSteps

LEMMA PullKeeps ==
  ASSUME IInv, NEW s \in Streams, Pull(s)
  PROVE  IInv'
<1> DEFINE next == Place(read[s].turn, item[s], run[s].steps, read[s].ended)
           new == [run[s] EXCEPT !.taken = run[s].steps, !.asleep = TRUE]
<1>1. /\ at[s] = "pull" /\ run[s].call = "running" /\ Writes(s, Pending(s), "pull")
      /\ run' = [run EXCEPT ![s].taken = run[s].steps, ![s].asleep = TRUE]
      /\ UNCHANGED <<chats, item, query, auto, swarm, aborted, used, met>>
  BY DEF Pull
<1>2. run[s] \in Run /\ run[s].steps \in Nat /\ TypeOK
  BY ChatStreamAssumption DEF IInv, TypeOK, Run
<1>3. /\ new \in Run /\ new.call = run[s].call /\ new.taken = run[s].steps
      /\ new.steps = run[s].steps
  BY <1>2 DEF Run
<1>4. run' = [run EXCEPT ![s] = new]
  BY <1>1 DEF IInv, TypeOK
<1> HIDE DEF new
<1>5. /\ ReadsAll(read[s], Pending(s)) = next
      /\ next = Place(read[s].turn, read[s].of, run[s].steps, read[s].ended)
  BY <1>1, <1>2, Pulls, ReadsPending
<1>6. Wrote(s, next, "pull")
  BY <1>1, <1>5, WritingCases
<1>7. next \in Reading /\ next.steps = run[s].steps
  BY <1>2, <1>5, Awaits, PlaceStays
<1> HIDE DEF next
<1>8. Stopped(s) \/ Sound(s)'
  <2> SUFFICES ASSUME ~Stopped(s) PROVE Sound(s)'
    OBVIOUS
  <2>1. at'[s] = "pull" /\ read'[s] = next /\ run'[s] = new
    BY <1>4, <1>6 DEF Wrote, IInv, TypeOK
  <2>2. Pumping(s)'
    BY <1>1, <1>2, <1>3, <1>7, <2>1 DEF Pumping
  <2> QED
    BY <1>1, <1>2, <1>5, <2>1, <2>2, PumpKeeps
<1>9. run' \in [Streams -> Run] /\ \A t \in Streams \ {s} : run'[t] = run[t]
  BY <1>3, <1>4 DEF IInv, TypeOK
<1>10. /\ item' \in [Streams -> Kinds \cup {Turn}] /\ used' \in SUBSET Queries
       /\ "pull" \in Places
  BY <1>1 DEF IInv, TypeOK, Places
<1> QED
  BY <1>1, <1>6, <1>7, <1>8, <1>9, <1>10, WroteKeeps

\* The call the stream pumped is over.
LEMMA ReturnKeeps ==
  ASSUME IInv, NEW s \in Streams, Return(s)
  PROVE  IInv'
<1> DEFINE k == item[s]
           n == run[s].steps
           turn == read[s].turn
           E == read[s].ended
           here == Place(turn, k, n, E)
<1>1. /\ at[s] = "pull" /\ run[s].call \in {"ok", "failed"} /\ TypeOK
      /\ UNCHANGED <<chats, query, auto, swarm, aborted, used, met>>
  BY DEF Return, IInv
<1>2. /\ Pumping(s) /\ read[s].of = k /\ (k = Turn => turn = "cycle")
      /\ k # Turn => InAFollowUp(s)
      /\ k = Turn => InTheTurn(s)
  BY <1>1, Pulls, Awaits
<1>3. /\ Pending(s) \in Seq(StepsOf(k))
      /\ ReadsAll(read[s], Pending(s)) = here
  BY <1>1, <1>2, ReadsPending
<1>4. n \in Nat /\ read[s] \in Reading /\ E \in SUBSET Kinds /\ k \in Kinds \cup {Turn}
  BY ChatStreamAssumption DEF IInv, TypeOK, Run, Reading
<1>5. /\ here \in Reading /\ here.turn = turn /\ here.of = k
      /\ here.steps = n /\ here.ended = E
  BY <1>2, <1>4, PlaceStays
<1>6. CASE run[s].call = "failed" /\ k # Turn
  <2> DEFINE failed == About("followup.failed", k)
             T == StepsOf(k) \cup {failed}
  <2>1. GoesOn(s, Append(Pending(s), failed))
    BY <1>6 DEF Return
  <2>2. k \in Kinds /\ turn = Executing(s) /\ InAFollowUp(s)
    BY <1>2, <1>4, <1>6 DEF InAFollowUp
  <2>3. Pending(s) \in Seq(T) /\ failed \in T /\ Append(Pending(s), failed) \in Seq(T)
    BY <1>3
  <2>4. Reads(here, failed) = Place(turn, Turn, n, E \cup {k})
    BY <2>2, ReadsOutcome
  <2> HIDE DEF failed, T, here
  <2>5. ReadsAll(read[s], Append(Pending(s), failed)) = Place(turn, Turn, n, E \cup {k})
    BY <1>3, <2>3, <2>4, ReadsOneMore
  <2> QED
    BY <1>1, <1>4, <2>1, <2>2, <2>3, <2>5, FollowUpEnds
<1>7. CASE run[s].call = "failed" /\ k = Turn
  <2> DEFINE error == Says("error")
             done == Says("done")
             next == Place("over", Turn, n, E)
             T == StepsOf(k) \cup {error, done}
  <2>1. /\ Checked(s, Pending(s) \o <<error, done>>, "closed")
        /\ UNCHANGED <<run, item>>
    BY <1>7 DEF Return
  <2>2. /\ Reads(here, error) = Place("failed", Turn, n, E)
        /\ Reads(Place("failed", Turn, n, E), done) = next
    BY <1>2, <1>4, <1>7, ReadsError, ReadsTurn DEF TurnMoves
  <2>3. Pending(s) \in Seq(T) /\ error \in T /\ done \in T
    BY <1>3
  <2> HIDE DEF error, done, T, here
  <2>4. ReadsAll(read[s], Pending(s) \o <<error, done>>) = next
    BY <1>3, <2>2, <2>3, ReadsTwoMore
  <2>5. Wrote(s, next, "closed")
    BY <2>1, <2>4, WritingCases
  <2>6. /\ next \in Reading /\ next.turn = "over" /\ next.of = Turn
        /\ next.steps = n /\ next.ended = E
    BY <1>4, PlaceIsReading
  <2> HIDE DEF next
  <2>7. ASSUME at'[s] = "closed", read'[s] = next PROVE Sound(s)'
    <3>1. ToSet(auto[s]) = {} /\ E = {}
      BY <1>1, <1>2, <1>7 DEF InTheTurn, ToSet
    <3>2. Over(s)'
      BY <1>1, <2>1, <2>6, <2>7, <3>1 DEF Over, Settled
    <3> QED
      BY <3>2 DEF Sound
  <2>8. "closed" \in Places
    BY DEF Places
  <2> QED
    BY <1>1, <2>1, <2>5, <2>6, <2>7, <2>8, TellsKeeps
<1>8. CASE run[s].call = "ok" /\ k \in {Pc, Telemetry} /\ aborted[s]
  <2>1. GoesOn(s, Pending(s)) /\ InAFollowUp(s)
    <3>1. k # Turn /\ k # Deep
      BY <1>8, TurnIsNoKind DEF Kinds, Deep, Pc, Telemetry
    <3> QED
      BY <1>2, <1>8, <3>1 DEF Return, Heeded
  <2> QED
    BY <1>1, <1>8, <2>1, QuitsKeeps
<1>9. CASE run[s].call = "ok" /\ ~(k \in {Pc, Telemetry} /\ aborted[s])
  <2> DEFINE then == IF k \in {Turn, Deep} THEN "findings" ELSE "poll"
  <2>1. /\ Writes(s, Pending(s), then) \/ Checked(s, Pending(s), then)
        /\ UNCHANGED <<run, item>>
    <3>1. k = Turn \/ (InAFollowUp(s) /\ k \in {Deep, Pc, Telemetry})
      BY <1>1, <1>2, <1>4 DEF InAFollowUp, Kinds
    <3>2. Turn \notin {Deep, Pc, Telemetry} /\ Deep \notin {Pc, Telemetry}
      BY TurnIsNoKind DEF Kinds, Deep, Pc, Telemetry
    <3>3. CASE k = Turn
      BY <1>9, <3>2, <3>3 DEF Return
    <3>4. CASE k = Deep
      BY <1>9, <3>2, <3>4 DEF Return
    <3>5. CASE k \in {Pc, Telemetry}
      <4>1. Heeded(s, Pending(s), "poll") /\ ~aborted[s]
        BY <1>9, <3>2, <3>5 DEF Return
      <4> QED
        BY <3>2, <3>5, <4>1 DEF Heeded
    <3> QED
      BY <3>1, <3>3, <3>4, <3>5
  <2>2. Wrote(s, here, then)
    BY <1>3, <2>1, WritingCases
  <2>3. ASSUME at'[s] = then, read'[s] = here PROVE Sound(s)'
    <3>1. Settled(s)'
      BY <1>1, <1>5, <2>1, <2>3 DEF Settled
    <3>2. read'[s] = Place(read[s].turn, read[s].of, n, read[s].ended)
      BY <1>2, <2>3
    <3>3. UNCHANGED <<chats, item, auto>>
      BY <1>1, <2>1
    <3> QED
      BY <1>1, <1>4, <2>3, <3>1, <3>2, <3>3, PumpKeeps
  <2>4. then \in Places
    BY DEF Places
  <2> HIDE DEF then, here
  <2> QED
    BY <1>1, <1>5, <2>1, <2>2, <2>3, <2>4, TellsKeeps
<1> QED
  BY <1>1, <1>6, <1>7, <1>8, <1>9

-----------------------------------------------------------------------------
(* The findings and the summary *)

LEMMA FindingsKeeps ==
  ASSUME IInv, NEW s \in Streams, Findings(s)
  PROVE  IInv'
<1> DEFINE k == item[s]
           finding == IF k = Turn THEN Says("finding") ELSE About("followup.finding", k)
<1>1. /\ at[s] = "findings"
      /\ UNCHANGED <<chats, query, auto, swarm, aborted, used, met>>
  BY DEF Findings
<1>2. PICK events \in {<<>>, <<finding>>} : Found(s, events)
  BY DEF Findings
<1>3. /\ read[s] \in Reading /\ read[s].steps \in Nat
      /\ read[s] = Place(read[s].turn, read[s].of, read[s].steps, read[s].ended)
      /\ IF k = Turn THEN InTheTurn(s) ELSE InAFollowUp(s)
      /\ k # Turn => k \in Kinds
  BY <1>1, Awaits DEF IInv, TypeOK
<1>4. Reads(read[s], finding) = read[s]
  <2>1. CASE k = Turn
    <3>1. read[s] = Place("cycle", Turn, read[s].steps, read[s].ended)
      BY <1>1, <1>3, <2>1 DEF InTheTurn
    <3>2. Reads(Place("cycle", Turn, read[s].steps, read[s].ended), Says("finding"))
            = Place("cycle", Turn, read[s].steps, read[s].ended)
      BY <1>3, ReadsTurn DEF TurnMoves
    <3> QED
      BY <2>1, <3>1, <3>2
  <2>2. CASE k # Turn
    <3>1. read[s] = Place(read[s].turn, k, read[s].steps, read[s].ended)
      BY <1>3, <2>2 DEF InAFollowUp
    <3>2. Reads(Place(read[s].turn, k, read[s].steps, read[s].ended),
                About("followup.finding", k))
            = Place(read[s].turn, k, read[s].steps, read[s].ended)
      BY <1>3, <2>2, ReadsWithin
    <3> QED
      BY <2>2, <3>1, <3>2
  <2> QED
    BY <2>1, <2>2
<1> HIDE DEF finding
<1>5. ReadsAll(read[s], events) = read[s]
  BY <1>2, <1>4, ReadsNothing, ReadsOne
<1>6. CASE k # Turn /\ aborted[s]
  BY <1>1, <1>2, <1>3, <1>6, QuitsKeeps DEF Found, Heeded
<1>7. CASE k = Turn \/ ~aborted[s]
  <2>1. /\ Writes(s, events, "summarise") \/ Checked(s, events, "summarise")
        /\ UNCHANGED <<run, item>>
    BY <1>2, <1>7 DEF Found, Heeded, Told
  <2>2. Wrote(s, read[s], "summarise")
    BY <1>5, <2>1, WritingCases
  <2>3. ASSUME at'[s] = "summarise", read'[s] = read[s] PROVE Sound(s)'
    <3>1. CASE k = Turn
      <4>1. InTheTurn(s)'
        BY <1>1, <1>3, <2>1, <2>3, <3>1 DEF InTheTurn, Settled
      <4> QED
        BY <4>1 DEF Sound
    <3>2. CASE k # Turn
      <4>1. InAFollowUp(s)'
        BY <1>1, <1>3, <2>1, <2>3, <3>2 DEF InAFollowUp, Settled, Executing
      <4> QED
        BY <4>1 DEF Sound
    <3> QED
      BY <3>1, <3>2
  <2>4. "summarise" \in Places
    BY DEF Places
  <2> QED
    BY <1>1, <1>3, <2>1, <2>2, <2>3, <2>4, TellsKeeps
<1> QED
  BY <1>6, <1>7

\* What a follow-up says in the end.
LEMMA ReadsEnd ==
  ASSUME NEW turn, NEW n \in Nat, NEW E, NEW k \in Kinds,
         NEW first \in {"followup.finding", "followup.summary"},
         NEW last \in {"followup.completed", "followup.failed"}
  PROVE  Reads(Reads(Place(turn, k, n, E), About(first, k)), About(last, k))
           = Place(turn, Turn, n, E \cup {k})
<1>1. Reads(Place(turn, k, n, E), About(first, k)) = Place(turn, k, n, E)
  BY ReadsWithin
<1>2. Reads(Place(turn, k, n, E), About(last, k)) = Place(turn, Turn, n, E \cup {k})
  BY ReadsOutcome
<1> QED
  BY <1>1, <1>2

LEMMA SummariseKeeps ==
  ASSUME IInv, NEW s \in Streams, Summarise(s)
  PROVE  IInv'
<1> DEFINE k == item[s]
           n == read[s].steps
           E == read[s].ended
<1>1. /\ at[s] = "summarise"
      /\ UNCHANGED <<chats, query, auto, swarm, aborted, used, met>>
  BY DEF Summarise
<1>2. /\ read[s] \in Reading /\ n \in Nat /\ E \in SUBSET Kinds
      /\ read[s] = Place(read[s].turn, read[s].of, n, E)
      /\ IF k = Turn THEN InTheTurn(s) ELSE InAFollowUp(s)
      /\ k # Turn => k \in Kinds
  BY <1>1, Awaits DEF IInv, TypeOK, Reading
<1>3. CASE k = Turn
  <2> DEFINE next == Place("summed", Turn, n, E)
  <2>1. Checked(s, <<Says("summary.complete")>>, "plan") /\ UNCHANGED <<run, item>>
    BY <1>3 DEF Summarise
  <2>2. read[s] = Place("cycle", Turn, n, E) /\ InTheTurn(s)
    BY <1>1, <1>2, <1>3 DEF InTheTurn
  <2>3. Reads(Place("cycle", Turn, n, E), Says("summary.complete")) = next
    BY <1>2, ReadsTurn DEF TurnMoves
  <2>4. ReadsAll(read[s], <<Says("summary.complete")>>) = next
    BY <2>2, <2>3, ReadsOne
  <2>5. Wrote(s, next, "plan")
    BY <2>1, <2>4, WritingCases
  <2>6. /\ next \in Reading /\ next.turn = "summed" /\ next.of = Turn
        /\ next.steps = n /\ next.ended = E
    BY <1>2, PlaceIsReading
  <2> HIDE DEF next
  <2>7. ASSUME at'[s] = "plan", read'[s] = next PROVE Sound(s)'
    <3>1. InTheTurn(s)'
      BY <1>1, <2>1, <2>2, <2>6, <2>7 DEF InTheTurn, Settled
    <3> QED
      BY <3>1 DEF Sound
  <2>8. "plan" \in Places
    BY DEF Places
  <2> QED
    BY <1>1, <2>1, <2>5, <2>6, <2>7, <2>8, TellsKeeps
<1>4. CASE k # Turn
  <2> DEFINE summary == About("followup.summary", k)
             completed == About("followup.completed", k)
  <2>1. GoesOn(s, <<summary, completed>>)
    BY <1>4 DEF Summarise
  <2>2. /\ InAFollowUp(s) /\ read[s] = Place(Executing(s), k, n, E)
        /\ run[s].call \in {"ok", "failed"} /\ n = run[s].steps
    BY <1>1, <1>2, <1>4 DEF InAFollowUp, Settled
  <2>3. ReadsAll(read[s], <<summary, completed>>) = Place(Executing(s), Turn, n, E \cup {k})
    BY <1>2, <1>4, <2>2, ReadsTwo, ReadsEnd
  <2>4. <<summary, completed>> \in Seq({summary, completed})
    OBVIOUS
  <2> HIDE DEF summary, completed
  <2> QED
    BY <1>1, <1>2, <2>1, <2>2, <2>3, <2>4, FollowUpEnds
<1> QED
  BY <1>3, <1>4

-----------------------------------------------------------------------------
(* The plan *)

\* A query that is not remembered is held only by turns in their preflights, and
\* the new one met each of them.
LEMMA CandidateKeeps ==
  ASSUME IInv, NEW s \in Streams, Candidate(s)
  PROVE  IInv'
<1>1. /\ at[s] = "plan" /\ InTheTurn(s)
      /\ at' = [at EXCEPT ![s] = "preflight"]
      /\ met' = met \cup {{s, t} : t \in {u \in chats \ {s} : at[u] = "preflight"}}
      /\ UNCHANGED <<chats, item, query, run, swarm, read, aborted, used>>
  BY Awaits DEF Candidate
<1>2. PICK v \in Signals, canStart \in SUBSET (Kinds \ {Deep}) :
        \E q \in AutoLaunched(v, canStart, query[s] \in used) :
          auto' = [auto EXCEPT ![s] = [i \in DOMAIN q |-> q[i].kind]]
  BY DEF Candidate
<1>3. PICK q \in AutoLaunched(v, canStart, query[s] \in used) :
        auto' = [auto EXCEPT ![s] = [i \in DOMAIN q |-> q[i].kind]]
  BY <1>2
<1> DEFINE kinds == [i \in DOMAIN q |-> q[i].kind]
<1>4. /\ kinds \in Seq(Kinds) /\ Len(kinds) <= 2
      /\ query[s] \in used => Deep \notin ToSet(kinds)
  <2>1. (query[s] \in used) \in BOOLEAN
    OBVIOUS
  <2> QED
    BY <2>1, LaunchedKinds
<1>5. auto' = [auto EXCEPT ![s] = kinds]
  BY <1>3
<1> HIDE DEF kinds
<1>6. /\ auto'[s] = kinds /\ at'[s] = "preflight"
      /\ \A t \in Streams \ {s} : auto'[t] = auto[t] /\ at'[t] = at[t]
  BY <1>1, <1>5 DEF IInv, TypeOK
<1>7. TypeOK'
  <2>1. auto' \in [Streams -> Seq(Kinds)] /\ \A t \in Streams : Len(auto'[t]) <= 2
    BY <1>4, <1>5, <1>6 DEF IInv, TypeOK
  <2>2. at' \in [Streams -> Places]
    BY <1>1 DEF IInv, TypeOK, Places
  <2>3. \A t \in chats : {s, t} \in SUBSET Streams
    BY DEF IInv, TypeOK
  <2>4. met' \in SUBSET SUBSET Streams
    <3>1. {{s, t} : t \in {u \in chats \ {s} : at[u] = "preflight"}} \subseteq SUBSET Streams
      BY <2>3
    <3>2. met \subseteq SUBSET Streams
      BY DEF IInv, TypeOK
    <3> QED
      BY <1>1, <3>1, <3>2
  <2> QED
    BY <1>1, <2>1, <2>2, <2>4 DEF IInv, TypeOK
<1>8. \A t \in Streams : Sound(t)'
  <2>1. InTheTurn(s)'
    BY <1>1, <1>6 DEF InTheTurn, Settled
  <2>2. \A t \in Streams \ {s} : Sound(t)'
    BY <1>1, <1>6, OthersKeep DEF IInv
  <2> QED
    BY <2>1, <2>2 DEF Sound
<1>9. /\ \A t \in Streams \ {s} : Holds(t)' <=> Holds(t)
      /\ Holds(s)' => query[s] \notin used
  BY <1>1, <1>4, <1>6 DEF Holds
<1>10. Remembered'
  BY <1>1, <1>6, <1>9 DEF IInv, Remembered
<1>11. Met'
  <2>1. ASSUME NEW t \in Streams \ {s}, query[s] = query[t], Holds(s)', Holds(t)'
        PROVE  {s, t} \in met'
    <3>1. Holds(t) /\ t \in chats /\ query[t] \notin used
      BY <1>9, <2>1 DEF Holds
    <3>2. at[t] = "preflight"
      BY <3>1 DEF IInv, Remembered
    <3> QED
      BY <1>1, <3>1, <3>2
  <2>2. ASSUME NEW t \in Streams \ {s}, NEW u \in Streams \ {s}, t # u,
               query[t] = query[u], Holds(t)', Holds(u)'
        PROVE  {t, u} \in met'
    BY <1>1, <1>9, <2>2 DEF IInv, Met
  <2>3. \A t : {s, t} = {t, s}
    OBVIOUS
  <2> SUFFICES ASSUME NEW t \in Streams, NEW u \in Streams, t # u,
                      query[t] = query[u], Holds(t)', Holds(u)'
               PROVE  {t, u} \in met'
    BY <1>1 DEF Met
  <2>4. CASE t = s
    BY <2>1, <2>4
  <2>5. CASE u = s
    BY <2>1, <2>3, <2>5
  <2>6. CASE t # s /\ u # s
    BY <2>2, <2>6
  <2> QED
    BY <2>4, <2>5, <2>6
<1> QED
  BY <1>7, <1>8, <1>10, <1>11 DEF IInv

LEMMA PlanKeeps ==
  ASSUME IInv, NEW s \in Streams, Plan(s)
  PROVE  IInv'
<1> DEFINE n == read[s].steps
           plan == Says("followup.plan")
<1>1. /\ at[s] = "preflight" /\ used' = Recorded(s) /\ GoesOn(s, <<plan>>)
      /\ UNCHANGED <<chats, query, auto, swarm, aborted, met>>
  BY DEF Plan
<1>2. /\ read[s] = Place("summed", Turn, n, {}) /\ n \in Nat
      /\ read[s].of = Turn /\ read[s].ended = {} /\ s \in chats
      /\ run[s].call \in {"ok", "failed"} /\ n = run[s].steps
  BY <1>1, Awaits DEF InTheTurn, Settled
<1>3. Reads(Place("summed", Turn, n, {}), plan) = Place("planned", Turn, n, {})
  BY <1>2, ReadsTurn DEF TurnMoves
<1>4. ReadsAll(read[s], <<plan>>) = Place(Executing(s), Turn, n, {})
  BY <1>2, <1>3, ReadsOne DEF Executing
<1>5. <<plan>> \in Seq({plan})
  OBVIOUS
<1> HIDE DEF plan
<1> QED
  BY <1>1, <1>2, <1>4, <1>5, GoesOnKeeps

-----------------------------------------------------------------------------
(* The actions of a follow-up *)

\* Concatenations of events, written out.
LEMMA OneMore ==
  ASSUME NEW S, NEW q \in Seq(S), NEW c \in S, NEW r \in Seq(S),
         Len(r) = Len(q) + 1, r[Len(r)] = c, \A i \in 1..Len(q) : r[i] = q[i]
  PROVE  q \o <<c>> = r
<1>1. Append(q, c) = q \o <<c>>
  BY AppendIsConcat
<1>2. Append(q, c) = r
  BY AppendProperties, SeqEqual
<1> QED
  BY <1>1, <1>2

LEMMA SecondOne ==
  ASSUME NEW S, NEW q \in Seq(S), NEW c \in S, NEW r \in Seq(S),
         Len(q) = 1, Len(r) = 2, r[2] = c, r[1] = q[1]
  PROVE  q \o <<c>> = r
<1>1. Len(r) = Len(q) + 1 /\ r[Len(r)] = c /\ \A i \in 1..Len(q) : r[i] = q[i]
  OBVIOUS
<1> QED
  BY <1>1, OneMore

LEMMA ThirdOne ==
  ASSUME NEW S, NEW q \in Seq(S), NEW c \in S, NEW r \in Seq(S),
         Len(q) = 2, Len(r) = 3, r[3] = c, r[2] = q[2], r[1] = q[1]
  PROVE  q \o <<c>> = r
<1>1. Len(r) = Len(q) + 1 /\ r[Len(r)] = c /\ \A i \in 1..Len(q) : r[i] = q[i]
  OBVIOUS
<1> QED
  BY <1>1, OneMore

LEMMA Joined ==
  ASSUME NEW a, NEW b, NEW c
  PROVE  /\ <<>> \o <<c>> = <<c>> /\ <<b>> \o <<c>> = <<b, c>>
         /\ <<a, b>> \o <<c>> = <<a, b, c>> /\ <<a>> \o <<b, c>> = <<a, b, c>>
<1> DEFINE S == {a, b, c}
<1>1. /\ <<>> \in Seq(S) /\ <<a>> \in Seq(S) /\ <<b>> \in Seq(S) /\ <<c>> \in Seq(S)
      /\ <<a, b>> \in Seq(S) /\ <<b, c>> \in Seq(S) /\ <<a, b, c>> \in Seq(S)
      /\ b \in S /\ c \in S
  OBVIOUS
<1>2. /\ Len(<<a>>) = 1 /\ Len(<<b>>) = 1 /\ Len(<<a, b>>) = 2 /\ Len(<<b, c>>) = 2
      /\ Len(<<a, b, c>>) = 3
      /\ <<a>>[1] = a /\ <<b>>[1] = b /\ <<a, b>>[1] = a /\ <<a, b>>[2] = b
      /\ <<b, c>>[1] = b /\ <<b, c>>[2] = c
      /\ <<a, b, c>>[1] = a /\ <<a, b, c>>[2] = b /\ <<a, b, c>>[3] = c
  OBVIOUS
<1> HIDE DEF S
<1>3. <<>> \o <<c>> = <<c>>
  OBVIOUS
<1>4. <<b>> \o <<c>> = <<b, c>>
  BY <1>1, <1>2, SecondOne
<1>5. <<a, b>> \o <<c>> = <<a, b, c>>
  BY <1>1, <1>2, ThirdOne
<1>6. <<a>> \o <<b>> = <<a, b>>
  BY <1>1, <1>2, SecondOne
<1>7. (<<a>> \o <<b>>) \o <<c>> = <<a>> \o (<<b>> \o <<c>>)
  BY <1>1, ConcatAssociative
<1> QED
  BY <1>3, <1>4, <1>5, <1>6, <1>7

LEMMA Sequences123 ==
  ASSUME NEW a, NEW b, NEW c
  PROVE  /\ <<c>> \in Seq({a, b, c}) /\ <<b, c>> \in Seq({a, b, c})
         /\ <<a, b, c>> \in Seq({a, b, c})
OBVIOUS

LEMMA BeginKeeps ==
  ASSUME IInv, NEW s \in Streams, Begin(s)
  PROVE  IInv'
<1> DEFINE k == auto[s][1]
<1>1. /\ at[s] = "begin" /\ Beginning(s)
      /\ UNCHANGED <<chats, query, auto, swarm, aborted, used, met>>
  BY Awaits DEF Begin
<1>2. /\ read[s] = Place("selected", Turn, 0, {})
      /\ read[s].of = Turn /\ read[s].ended = {}
      /\ s \notin chats /\ run[s] = NoRun
  BY <1>1 DEF Beginning, Unread, Place
<1>3. k \in ToSet(auto[s]) /\ k \in Kinds
  BY <1>1, Awaits DEF Beginning, ToSet
<1>4. CASE GoesOn(s, <<>>)
  <2>1. ReadsAll(read[s], <<>>) = Place(Executing(s), Turn, 0, {})
    BY <1>2, ReadsNothing DEF Executing
  <2>2. <<>> \in Seq({})
    OBVIOUS
  <2> QED
    BY <1>1, <1>2, <1>4, <2>1, <2>2, GoesOnKeeps
<1>5. CASE /\ Checked(s, <<About("followup.started", k)>> \o Unavailable(k), "closed")
           /\ UNCHANGED <<run, item>>
  <2> DEFINE started == About("followup.started", k)
             summary == About("followup.summary", k)
             failed == About("followup.failed", k)
             next == Place("selected", Turn, 0, {} \cup {k})
  <2>1. <<started>> \o Unavailable(k) = <<started, summary, failed>>
    <3>1. Unavailable(k) = <<summary, failed>>
      BY DEF Unavailable
    <3> HIDE DEF started, summary, failed
    <3>2. <<started>> \o <<summary, failed>> = <<started, summary, failed>>
      BY Joined
    <3> QED
      BY <3>1, <3>2
  <2>2. Reads(Place("selected", Turn, 0, {}), started) = Place("selected", k, 0, {})
    BY <1>3, ReadsStart
  <2>3. Reads(Reads(Place("selected", k, 0, {}), summary), failed) = next
    BY <1>3, ReadsEnd
  <2> HIDE DEF k, started, summary, failed
  <2>4. ReadsAll(read[s], <<started, summary, failed>>) = next
    BY <1>2, <2>2, <2>3, ReadsThree
  <2>5. Wrote(s, next, "closed")
    BY <1>5, <2>1, <2>4, WritingCases DEF k, started
  <2>6. /\ next \in Reading /\ next.turn = "selected" /\ next.of = Turn
        /\ next.steps = 0 /\ next.ended = {k}
    BY <1>3, PlaceIsReading
  <2> HIDE DEF next
  <2>7. ASSUME at'[s] = "closed", read'[s] = next PROVE Sound(s)'
    <3>1. Over(s)'
      BY <1>1, <1>2, <1>3, <1>5, <2>6, <2>7, RunTypes DEF Over
    <3> QED
      BY <3>1 DEF Sound
  <2>8. "closed" \in Places
    BY DEF Places
  <2> QED
    BY <1>1, <1>5, <2>5, <2>6, <2>7, <2>8, TellsKeeps
<1> QED
  BY <1>4, <1>5 DEF Begin

LEMMA AuditDoneKeeps ==
  ASSUME IInv, NEW s \in Streams, AuditDone(s)
  PROVE  IInv'
<1> DEFINE summary == About("followup.summary", Audit)
           completed == About("followup.completed", Audit)
           n == read[s].steps
           E == read[s].ended
<1>1. /\ at[s] = "audit" /\ GoesOn(s, Told(s, <<summary, completed>>))
      /\ UNCHANGED <<chats, query, auto, swarm, aborted, used, met>>
  BY DEF AuditDone
<1>2. /\ InAFollowUp(s) /\ item[s] = Audit /\ n \in Nat /\ Audit \in Kinds
      /\ read[s] = Place(Executing(s), Audit, n, E)
  BY <1>1, Awaits DEF InAFollowUp, Kinds
<1>3. Reads(Reads(Place(Executing(s), Audit, n, E), summary), completed)
        = Place(Executing(s), Turn, n, E \cup {Audit})
  BY <1>2, ReadsEnd
<1>4. ReadsAll(read[s], <<summary, completed>>) = Place(Executing(s), Turn, n, E \cup {Audit})
  BY <1>2, <1>3, ReadsTwo
<1>5. <<summary, completed>> \in Seq({summary, completed})
  OBVIOUS
<1> HIDE DEF summary, completed
<1>6. CASE aborted[s]
  BY <1>1, <1>2, <1>6, QuitsKeeps
<1>7. CASE ~aborted[s]
  <2>1. GoesOn(s, <<summary, completed>>)
    BY <1>1, <1>7 DEF Told
  <2> QED
    BY <1>1, <1>2, <1>4, <1>5, <2>1, FollowUpEnds
<1> QED
  BY <1>6, <1>7

LEMMA SwarmEndsKeeps ==
  ASSUME IInv, NEW s \in Streams, NEW outcome \in {"done", "failed"}, SwarmEnds(s, outcome)
  PROVE  IInv'
<1>1. /\ at[s] \in {"poll", "sleep"}
      /\ UNCHANGED <<chats, at, item, query, auto, run, read, aborted, used, met>>
  BY DEF SwarmEnds
<1>2. TypeOK'
  BY <1>1 DEF SwarmEnds, IInv, TypeOK
<1>3. Sound(s)'
  BY <1>1, OthersKeep DEF IInv
<1> QED
  BY <1>1, <1>2, <1>3, StreamSteps

LEMMA PollKeeps ==
  ASSUME IInv, NEW s \in Streams, Poll(s)
  PROVE  IInv'
<1> DEFINE k == item[s]
           n == read[s].steps
           E == read[s].ended
           summary == About("followup.summary", k)
           failed == About("followup.failed", k)
           step == About("followup.step", k)
           then == IF swarm[s] = "running" THEN "sleep" ELSE "report"
<1>1. /\ at[s] = "poll"
      /\ UNCHANGED <<chats, query, auto, swarm, aborted, used, met>>
  BY DEF Poll
<1>2. /\ InAFollowUp(s) /\ k \in Kinds /\ n \in Nat /\ read[s] \in Reading
      /\ read[s] = Place(Executing(s), k, n, E)
      /\ run[s].call \in {"ok", "failed"} /\ n = run[s].steps
  BY <1>1, Awaits DEF InAFollowUp, Settled
<1>3. CASE GoesOn(s, Unavailable(k))
  <2>1. Reads(Reads(Place(Executing(s), k, n, E), summary), failed)
          = Place(Executing(s), Turn, n, E \cup {k})
    BY <1>2, ReadsEnd
  <2>2. Unavailable(k) = <<summary, failed>>
    BY DEF Unavailable
  <2> HIDE DEF summary, failed
  <2>3. ReadsAll(read[s], Unavailable(k)) = Place(Executing(s), Turn, n, E \cup {k})
    BY <1>2, <2>1, <2>2, ReadsTwo
  <2>4. Unavailable(k) \in Seq({summary, failed})
    BY <2>2
  <2> QED
    BY <1>1, <1>2, <1>3, <2>3, <2>4, FollowUpEnds
<1>4. CASE Writes(s, <<step>>, then) /\ UNCHANGED <<run, item>>
  <2>1. Reads(Place(Executing(s), k, n, E), step) = Place(Executing(s), k, n, E)
    BY <1>2, ReadsWithin
  <2>2. ReadsAll(read[s], <<step>>) = read[s]
    BY <1>2, <2>1, ReadsOne
  <2>3. Wrote(s, read[s], then)
    BY <1>4, <2>2, WritingCases
  <2>4. ASSUME at'[s] = then, read'[s] = read[s] PROVE Sound(s)'
    <3>1. InAFollowUp(s)'
      BY <1>1, <1>2, <1>4, <2>4 DEF InAFollowUp, Settled, Executing
    <3> QED
      BY <3>1 DEF Sound
  <2>5. then \in Places
    BY DEF Places
  <2> HIDE DEF then
  <2> QED
    BY <1>1, <1>2, <1>4, <2>3, <2>4, <2>5, TellsKeeps
<1> QED
  BY <1>3, <1>4 DEF Poll

LEMMA WakeKeeps ==
  ASSUME IInv, NEW s \in Streams, Wake(s)
  PROVE  IInv'
<1>1. /\ at[s] = "sleep" /\ Heeded(s, <<>>, "poll") /\ InAFollowUp(s)
      /\ read[s] \in Reading
      /\ UNCHANGED <<chats, query, auto, swarm, aborted, used, met>>
  BY Awaits DEF Wake
<1>2. CASE aborted[s]
  BY <1>1, <1>2, QuitsKeeps DEF Heeded
<1>3. CASE ~aborted[s]
  <2>1. Writes(s, <<>>, "poll") /\ UNCHANGED <<run, item>>
    BY <1>1, <1>3 DEF Heeded
  <2>2. Wrote(s, read[s], "poll")
    BY <2>1, WritingCases, ReadsNothing
  <2>3. ASSUME at'[s] = "poll", read'[s] = read[s] PROVE Sound(s)'
    <3>1. InAFollowUp(s)'
      BY <1>1, <2>1, <2>3 DEF InAFollowUp, Settled, Executing
    <3> QED
      BY <3>1 DEF Sound
  <2>4. "poll" \in Places
    BY DEF Places
  <2> QED
    BY <1>1, <2>1, <2>2, <2>3, <2>4, TellsKeeps
<1> QED
  BY <1>2, <1>3

LEMMA ReportKeeps ==
  ASSUME IInv, NEW s \in Streams, Report(s)
  PROVE  IInv'
<1> DEFINE k == item[s]
           n == read[s].steps
           E == read[s].ended
           name == IF swarm[s] = "done" THEN "followup.completed" ELSE "followup.failed"
           outcome == About(name, k)
           summary == About("followup.summary", k)
           finding == About("followup.finding", k)
           here == Place(Executing(s), k, n, E)
           next == Place(Executing(s), Turn, n, E \cup {k})
<1>1. /\ at[s] = "report"
      /\ UNCHANGED <<chats, query, auto, swarm, aborted, used, met>>
  BY DEF Report
<1>2. /\ InAFollowUp(s) /\ k \in Kinds /\ n \in Nat /\ read[s] = here
      /\ run[s].call \in {"ok", "failed"} /\ n = run[s].steps
  BY <1>1, Awaits DEF InAFollowUp, Settled
<1>3. PICK told \in {<<finding>> \o <<summary>>, <<summary>>, <<>>} :
        GoesOn(s, told \o <<outcome>>)
  BY DEF Report
<1>4. /\ Reads(here, finding) = here /\ Reads(here, summary) = here
      /\ Reads(here, outcome) = next
  BY <1>2, ReadsWithin, ReadsOutcome
<1> DEFINE S == {finding, summary, outcome}
<1> HIDE DEF finding, summary, outcome, here, next
<1>5. told \o <<outcome>> \in {<<finding, summary, outcome>>, <<summary, outcome>>, <<outcome>>}
  <2>1. /\ <<finding>> \o <<summary>> = <<finding, summary>>
        /\ <<finding, summary>> \o <<outcome>> = <<finding, summary, outcome>>
        /\ <<summary>> \o <<outcome>> = <<summary, outcome>>
        /\ <<>> \o <<outcome>> = <<outcome>>
    BY Joined
  <2>2. CASE told = <<finding>> \o <<summary>>
    BY <2>1, <2>2
  <2>3. CASE told = <<summary>>
    BY <2>1, <2>3
  <2>4. CASE told = <<>>
    BY <2>1, <2>4
  <2> QED
    BY <1>3, <2>2, <2>3, <2>4
<1>6. /\ told \o <<outcome>> \in Seq(S)
      /\ ReadsAll(here, told \o <<outcome>>) = next
  <2>1. CASE told \o <<outcome>> = <<finding, summary, outcome>>
    <3>1. ReadsAll(here, <<finding, summary, outcome>>) = next
      BY <1>4, ReadsThree
    <3> QED
      BY <2>1, <3>1, Sequences123
  <2>2. CASE told \o <<outcome>> = <<summary, outcome>>
    <3>1. ReadsAll(here, <<summary, outcome>>) = next
      BY <1>4, ReadsTwo
    <3> QED
      BY <2>2, <3>1, Sequences123
  <2>3. CASE told \o <<outcome>> = <<outcome>>
    <3>1. ReadsAll(here, <<outcome>>) = next
      BY <1>4, ReadsOne
    <3> QED
      BY <2>3, <3>1, Sequences123
  <2> QED
    BY <1>5, <2>1, <2>2, <2>3
<1> HIDE DEF S
<1> QED
  BY <1>1, <1>2, <1>3, <1>6, FollowUpEnds DEF next

LEMMA BriefKeeps ==
  ASSUME IInv, NEW s \in Streams, Brief(s)
  PROVE  IInv'
<1> DEFINE n == read[s].steps
           E == read[s].ended
           next == Place("over", Turn, n, E)
           complete == Says("briefing.complete")
           done == Says("done")
<1>1. /\ at[s] = "briefing" /\ Checked(s, <<complete, done>>, "closed")
      /\ UNCHANGED <<chats, item, query, auto, run, swarm, aborted, used, met>>
  BY DEF Brief
<1>2. read[s] \in Reading /\ n \in Nat /\ E \in SUBSET Kinds /\ "closed" \in Places
  BY Awaits DEF Reading, Places
<1>3. CASE aborted[s]
  <2>1. Wrote(s, read[s], "closed")
    BY <1>1, <1>3 DEF Checked, Wrote, Stopped
  <2>2. Stopped(s)
    BY <1>1, <1>3 DEF Checked, Stopped
  <2>3. Sound(s)'
    BY <1>1, <2>2, StopKeeps
  <2> QED
    BY <1>1, <1>2, <2>1, <2>3, TellsKeeps
<1>4. CASE ~aborted[s]
  <2>1. Briefing(s) /\ read[s] = Place("planned", Turn, n, E)
    BY <1>1, <1>4, Awaits DEF Briefing, Forsaken
  <2>2. /\ Reads(Place("planned", Turn, n, E), complete) = Place("briefed", Turn, n, E)
        /\ Reads(Place("briefed", Turn, n, E), done) = next
    BY <1>2, ReadsTurn DEF TurnMoves
  <2> HIDE DEF complete, done
  <2>3. ReadsAll(read[s], <<complete, done>>) = next
    BY <2>1, <2>2, ReadsTwo
  <2>4. Wrote(s, next, "closed")
    BY <1>1, <2>3, WritingCases
  <2>5. /\ next \in Reading /\ next.turn = "over" /\ next.of = Turn
        /\ next.steps = n /\ next.ended = E
    BY <1>2, PlaceIsReading
  <2> HIDE DEF next
  <2>6. ASSUME at'[s] = "closed", read'[s] = next PROVE Sound(s)'
    <3>1. Over(s)'
      BY <1>1, <2>1, <2>5, <2>6 DEF Over, Briefing, Settled
    <3> QED
      BY <3>1 DEF Sound
  <2> QED
    BY <1>1, <1>2, <2>4, <2>5, <2>6, TellsKeeps
<1> QED
  BY <1>3, <1>4

LEMMA LeaveKeeps ==
  ASSUME IInv, NEW s \in Streams, Leave(s)
  PROVE  IInv'
<1>1. /\ at[s] # "closed" /\ aborted' = [aborted EXCEPT ![s] = TRUE]
      /\ UNCHANGED <<chats, at, item, query, auto, run, swarm, read, used, met>>
  BY DEF Leave
<1>2. TypeOK' /\ \A t \in Streams \ {s} : aborted'[t] = aborted[t]
  BY <1>1 DEF IInv, TypeOK
<1>3. Sound(s)'
  <2>1. Sound(s)
    BY DEF IInv
  <2>2. Beginning(s) => Beginning(s)'
    BY <1>1 DEF Beginning
  <2>3. InTheTurn(s) => InTheTurn(s)'
    BY <1>1 DEF InTheTurn, Untouched, Pumping, Settled
  <2>4. InAFollowUp(s) => InAFollowUp(s)'
    BY <1>1 DEF InAFollowUp, Pumping, Settled, Executing
  <2>5. Briefing(s) => Briefing(s)'
    BY <1>1 DEF Briefing, Settled
  <2>6. ~Over(s) /\ ~Forsaken(s)
    BY <1>1 DEF Over, Forsaken, Leave
  <2> QED
    BY <2>1, <2>2, <2>3, <2>4, <2>5, <2>6 DEF Sound
<1> QED
  BY <1>1, <1>2, <1>3, StreamSteps

-----------------------------------------------------------------------------
(* The invariant *)

LEMMA Initially == Init => IInv
<1> SUFFICES ASSUME Init PROVE IInv
  OBVIOUS
<1>1. \A s \in Streams : /\ at[s] = IF s \in chats THEN "classify" ELSE "begin"
                         /\ item[s] = Turn /\ run[s] = NoRun /\ ~aborted[s]
                         /\ read[s] = Unread(IF s \in chats THEN "new" ELSE "selected")
  BY DEF Init
<1>2. PICK f \in [Streams -> {<<>>} \cup {<<k>> : k \in Kinds}] :
        auto = f /\ \A s \in Streams : f[s] = <<>> <=> s \in chats
  BY DEF Init
<1>3. \A s \in Streams : /\ auto[s] \in Seq(Kinds) /\ Len(auto[s]) <= 2
                         /\ s \in chats => auto[s] = <<>>
                         /\ s \notin chats => Len(auto[s]) = 1
  <2> TAKE s \in Streams
  <2>1. auto[s] = <<>> \/ \E k \in Kinds : auto[s] = <<k>>
    BY <1>2
  <2>2. auto[s] = <<>> <=> s \in chats
    BY <1>2
  <2>3. CASE auto[s] = <<>>
    BY <2>2, <2>3
  <2>4. CASE \E k \in Kinds : auto[s] = <<k>>
    <3>1. PICK k \in Kinds : auto[s] = <<k>>
      BY <2>4
    <3>2. <<k>> \in Seq(Kinds) /\ Len(<<k>>) = 1 /\ <<k>> # <<>>
      OBVIOUS
    <3> QED
      BY <2>2, <3>1, <3>2
  <2> QED
    BY <2>1, <2>3, <2>4
<1>4. TypeOK
  <2>1. Unread("new") \in Reading /\ Unread("selected") \in Reading
    BY DEF Unread, Reading
  <2>2. read \in [Streams -> Reading]
    BY <2>1 DEF Init
  <2>3. at \in [Streams -> Places]
    BY DEF Init, Places
  <2>4. run \in [Streams -> Run]
    BY ChatStreamAssumption DEF Init, NoRun, Run
  <2>5. auto \in [Streams -> Seq(Kinds)]
    BY <1>2, <1>3
  <2> QED
    BY <1>3, <2>2, <2>3, <2>4, <2>5 DEF Init, TypeOK
<1>5. \A s \in Streams : Sound(s)
  <2> TAKE s \in Streams
  <2>1. CASE s \in chats
    <3>1. read[s] = Unread("new") /\ at[s] = "classify"
      BY <1>1, <2>1
    <3>2. /\ read[s].turn = "new" /\ read[s].of = Turn
          /\ read[s].steps = 0 /\ read[s].ended = {}
      BY <3>1 DEF Unread
    <3>3. InTheTurn(s)
      BY <1>1, <1>3, <2>1, <3>1, <3>2 DEF InTheTurn, Untouched
    <3> QED
      BY <3>3 DEF Sound
  <2>2. CASE s \notin chats
    <3>1. Beginning(s)
      BY <1>1, <1>3, <2>2 DEF Beginning
    <3> QED
      BY <3>1 DEF Sound
  <2> QED
    BY <2>1, <2>2
<1>6. \A s \in Streams : ~Holds(s)
  BY <1>3 DEF Holds, ToSet
<1> QED
  BY <1>4, <1>5, <1>6 DEF IInv, Remembered, Met

LEMMA StepKeeps == IInv /\ [Next]_vars => IInv'
<1> SUFFICES ASSUME IInv, [Next]_vars PROVE IInv'
  OBVIOUS
<1>1. CASE UNCHANGED vars
  <2>1. TypeOK'
    BY <1>1 DEF vars, IInv, TypeOK
  <2>2. \A s \in Streams : Sound(s)'
    BY <1>1, OthersKeep DEF vars, IInv
  <2>3. \A s \in Streams : Holds(s)' <=> Holds(s)
    BY <1>1 DEF vars, Holds
  <2>4. Remembered' /\ Met'
    BY <1>1, <2>3 DEF vars, IInv, Remembered, Met
  <2> QED
    BY <2>1, <2>2, <2>4 DEF IInv
<1>2. CASE Next
  <2>1. PICK s \in Streams :
          Advance(s) \/ Leave(s) \/ Emit(s) \/ Settles(s) \/ SwarmOver(s)
    BY <1>2 DEF Next
  <2>2. CASE Rejects(s)
    BY <2>2, RejectsKeeps
  <2>3. CASE Route(s)
    BY <2>3, RouteKeeps
  <2>4. CASE Reply(s)
    BY <2>4, ReplyKeeps
  <2>5. CASE Pull(s)
    BY <2>5, PullKeeps
  <2>6. CASE Return(s)
    BY <2>6, ReturnKeeps
  <2>7. CASE Findings(s)
    BY <2>7, FindingsKeeps
  <2>8. CASE Summarise(s)
    BY <2>8, SummariseKeeps
  <2>9. CASE Candidate(s)
    BY <2>9, CandidateKeeps
  <2>10. CASE Plan(s)
    BY <2>10, PlanKeeps
  <2>11. CASE Begin(s)
    BY <2>11, BeginKeeps
  <2>12. CASE AuditDone(s)
    BY <2>12, AuditDoneKeeps
  <2>13. CASE Poll(s)
    BY <2>13, PollKeeps
  <2>14. CASE Wake(s)
    BY <2>14, WakeKeeps
  <2>15. CASE Report(s)
    BY <2>15, ReportKeeps
  <2>16. CASE Brief(s)
    BY <2>16, BriefKeeps
  <2>17. CASE Leave(s)
    BY <2>17, LeaveKeeps
  <2>18. CASE Emit(s)
    BY <2>18, EmitKeeps
  <2>19. CASE Settles(s)
    BY <2>19, SettleKeeps DEF Settles
  <2>20. CASE SwarmOver(s)
    BY <2>20, SwarmEndsKeeps DEF SwarmOver
  <2> QED
    BY <2>1, <2>2, <2>3, <2>4, <2>5, <2>6, <2>7, <2>8, <2>9, <2>10, <2>11, <2>12,
       <2>13, <2>14, <2>15, <2>16, <2>17, <2>18, <2>19, <2>20 DEF Advance
<1> QED
  BY <1>1, <1>2

LEMMA Invariance == Spec => []IInv
BY Initially, StepKeeps, PTL DEF Spec

-----------------------------------------------------------------------------
(* What follows from it *)

\* The state of every stream stays within its types.
THEOREM ChatStreamTypeCorrect == Spec => []TypeOK
<1>1. IInv => TypeOK
  BY DEF IInv
<1> QED
  BY <1>1, Invariance, PTL

\* A client never sees an event out of place: the steps of a call come in the
\* order they were emitted, a follow-up has its events between its start and its
\* one outcome, and after an error or done only what may follow them.
THEOREM EventsAreInOrder == Spec => []WireIsInOrder
<1>1. IInv => WireIsInOrder
  BY DEF IInv, Sound, Beginning, InTheTurn, InAFollowUp, Executing, Briefing,
         Forsaken, Over, Unread, WireIsInOrder
<1> QED
  BY <1>1, Invariance, PTL

\* The pump loses no step: a stream that went on from a call wrote all of them,
\* also those the call emitted while the stream was writing or after it settled.
THEOREM StepsAreDelivered == Spec => []StepsAllDelivered
<1>1. IInv => StepsAllDelivered
  <2> SUFFICES ASSUME IInv, NEW s \in Streams, run[s].call # "none", ~aborted[s],
                      item[s] # Audit, at[s] # "pull"
               PROVE  run[s].call # "running" /\ read[s].steps = run[s].steps
    BY DEF StepsAllDelivered
  <2>1. ~Beginning(s) /\ ~Untouched(s)
    BY DEF Beginning, Untouched, NoRun
  <2>2. Settled(s)
    BY <2>1 DEF IInv, Sound, InTheTurn, InAFollowUp, Briefing, Forsaken, Over
  <2> QED
    BY <2>2 DEF Settled
<1> QED
  BY <1>1, Invariance, PTL

\* A chat asks for the briefing of a client that is there, and tells it that it is
\* done, only when each of the follow-ups it launched has its outcome.
THEOREM BriefingHasAllOutcomes == Spec => []BriefingIsComplete
<1>1. IInv => BriefingIsComplete
  <2> SUFFICES ASSUME IInv, NEW s \in chats,
                      \/ at[s] = "briefing" /\ ~aborted[s]
                      \/ read[s].turn \in {"briefed", "over"}
               PROVE  ToSet(auto[s]) = read[s].ended
    BY DEF BriefingIsComplete
  <2>1. s \in Streams /\ Sound(s)
    BY DEF IInv, TypeOK
  <2> QED
    BY <2>1 DEF Sound, Beginning, InTheTurn, InAFollowUp, Executing, Briefing,
                Forsaken, Over
<1> QED
  BY <1>1, Invariance, PTL

\* Two chats research the same question for 30 days only when both were planning
\* at the same time, whatever the number of chats and of questions.
THEOREM ResearchTwiceOnlyByRace == Spec => []SecondResearchOnlyByRace
<1>1. IInv => SecondResearchOnlyByRace
  <2> SUFFICES ASSUME IInv PROVE SecondResearchOnlyByRace
    OBVIOUS
  <2>1. ASSUME NEW s \in chats, Deep \in read[s].ended \cup {read[s].of}
        PROVE  s \in Streams /\ Holds(s)
    <3>1. s \in Streams /\ Sound(s) /\ Deep # Turn
      BY TurnIsNoKind DEF IInv, TypeOK, Kinds
    <3>2. Deep \in ToSet(auto[s])
      BY <2>1, <3>1 DEF Sound, Beginning, InTheTurn, InAFollowUp, Briefing, Forsaken, Over
    <3> QED
      BY <2>1, <3>1, <3>2 DEF Holds
  <2> QED
    BY <2>1 DEF IInv, Met, SecondResearchOnlyByRace
<1> QED
  BY <1>1, Invariance, PTL

\* The ways out of a pump: only the turn looks at the signal for the whole stream.
LEMMA ReturnCases ==
  ASSUME IInv, NEW s \in Streams, Return(s)
  PROVE  \/ item[s] = Turn /\ run' = run /\ \E events, then : Checked(s, events, then)
         \/ item[s] # Turn /\ \E events : GoesOn(s, events)
         \/ item[s] # Turn /\ run' = run /\ Writes(s, Pending(s), "findings")
         \/ item[s] # Turn /\ Heeded(s, Pending(s), "poll")
<1>1. at[s] = "pull" /\ run[s].call \in {"ok", "failed"}
  BY DEF Return
<1>2. item[s] = Turn \/ item[s] \in {Deep, Pc, Telemetry}
  BY <1>1, Pulls, Awaits DEF InAFollowUp, Kinds
<1>3. Turn \notin {Deep, Pc, Telemetry} /\ Deep \notin {Pc, Telemetry}
  BY TurnIsNoKind DEF Kinds, Deep, Pc, Telemetry
<1>4. CASE item[s] = Turn /\ run[s].call = "failed"
  BY <1>4 DEF Return
<1>5. CASE item[s] = Turn /\ run[s].call = "ok"
  BY <1>3, <1>5 DEF Return
<1>6. CASE item[s] # Turn /\ run[s].call = "failed"
  BY <1>6 DEF Return
<1>7. CASE item[s] = Deep /\ run[s].call = "ok"
  BY <1>3, <1>7 DEF Return
<1>8. CASE item[s] \in {Pc, Telemetry} /\ run[s].call = "ok"
  BY <1>3, <1>8 DEF Return
<1> QED
  BY <1>1, <1>2, <1>4, <1>5, <1>6, <1>7, <1>8

\* Once the client is gone a step of its stream writes nothing, and the stream only
\* closes, looks at the findings of the cycle it pumped, ranks its plan, or asks for
\* its briefing when it was in a follow-up; it begins no other call.
THEOREM AbortStops == Spec => AbortStopsWork
<1> DEFINE Kept(s) ==
      /\ read'[s] = read[s]
      /\ \/ at'[s] \in {at[s], "closed"}
         \/ <<at[s], at'[s]>> \in {<<"pull", "findings">>, <<"plan", "preflight">>}
         \/ /\ s \in chats /\ item[s] # Turn /\ at'[s] = "briefing"
            /\ at[s] \in {"pull", "findings", "audit", "sleep"}
      /\ run'[s].call = "running" => run[s].call = "running"
<1>1. ASSUME IInv, Next, NEW s \in Streams, aborted[s]
      PROVE  Kept(s)
  <2>1. PICK t \in Streams :
          Advance(t) \/ Leave(t) \/ Emit(t) \/ Settles(t) \/ SwarmOver(t)
    BY <1>1 DEF Next
  <2>2. ASSUME NEW events, NEW then, Checked(s, events, then)
        PROVE  at'[s] = "closed" /\ read' = read
    BY <1>1, <2>2 DEF Checked, IInv, TypeOK
  <2>3. ASSUME NEW events, NEW then, Writes(s, events, then)
        PROVE  /\ read'[s] = read[s]
               /\ at'[s] = "closed" \/ (events = <<>> /\ at'[s] = then)
    <3>1. CASE events = <<>>
      BY <1>1, <2>3, <3>1, ReadsNothing DEF Writes, IInv, TypeOK
    <3>2. CASE events # <<>>
      BY <1>1, <2>3, <3>2 DEF Writes, IInv, TypeOK
    <3> QED
      BY <3>1, <3>2
  <2>4. ASSUME NEW events, GoesOn(s, events)
        PROVE  /\ read'[s] = read[s] /\ run' = run
               /\ \/ at'[s] = "closed"
                  \/ events = <<>> /\ s \in chats /\ at'[s] = "briefing"
    BY <1>1, <2>3, <2>4 DEF GoesOn
  <2>5. ASSUME NEW events, NEW then, Heeded(s, events, then)
        PROVE  GoesOn(s, events)
    BY <1>1, <2>5 DEF Heeded
  <2>6. at[s] \in {"audit", "sleep"} => item[s] # Turn
    BY <1>1, Awaits, TurnIsNoKind DEF InAFollowUp
  <2>7. at[s] = "begin" => s \notin chats
    BY <1>1, Awaits DEF Beginning
  <2>8. CASE t # s
    <3>1. ASSUME NEW events, NEW then, Writes(t, events, then) \/ Checked(t, events, then)
          PROVE  at'[s] = at[s] /\ read'[s] = read[s]
      BY <1>1, <2>8, <3>1 DEF Writes, Checked, IInv, TypeOK
    <3>2. ASSUME NEW events, GoesOn(t, events)
          PROVE  at'[s] = at[s] /\ read'[s] = read[s] /\ run'[s] = run[s]
      BY <1>1, <2>8, <3>1, <3>2 DEF GoesOn, IInv, TypeOK
    <3>3. ASSUME NEW events, NEW then, Heeded(t, events, then)
          PROVE  at'[s] = at[s] /\ read'[s] = read[s] /\ run'[s] = run[s]
      BY <3>1, <3>2, <3>3 DEF Heeded
    <3>4. at \in [Streams -> Places] /\ run \in [Streams -> Run]
      BY <1>1 DEF IInv, TypeOK
    <3>5. CASE Return(t) \/ Findings(t)
      <4>1. \/ (run' = run /\ \E events, then : Checked(t, events, then))
            \/ \E events : GoesOn(t, events)
            \/ (run' = run /\ Writes(t, Pending(t), "findings"))
            \/ \E events, then : Heeded(t, events, then)
        BY <1>1, <3>5, ReturnCases DEF Findings, Found
      <4>2. ASSUME run' = run, NEW events, NEW then, Checked(t, events, then) PROVE Kept(s)
        BY <3>1, <4>2
      <4>3. ASSUME NEW events, GoesOn(t, events) PROVE Kept(s)
        BY <3>2, <4>3
      <4>4. ASSUME run' = run, Writes(t, Pending(t), "findings") PROVE Kept(s)
        BY <3>1, <4>4
      <4>5. ASSUME NEW events, NEW then, Heeded(t, events, then) PROVE Kept(s)
        BY <3>3, <4>5
      <4> QED
        BY <4>1, <4>2, <4>3, <4>4, <4>5
    <3>6. CASE ~Return(t) /\ ~Findings(t)
      BY <2>1, <2>8, <3>1, <3>2, <3>3, <3>4, <3>6
      DEF Advance, Rejects, Route, Reply, Pull, Summarise, Candidate, Plan, Begin,
          AuditDone, Poll, Wake, Report, Brief, Leave, Emit, Settles, Settle,
          SwarmOver, SwarmEnds
    <3> QED
      BY <3>5, <3>6
  <2>9. CASE t = s
    <3>1. CASE Rejects(s) \/ Reply(s) \/ Brief(s)
      BY <2>2, <3>1 DEF Rejects, Reply, Brief
    <3>2. CASE Route(s)
      BY <1>1, <2>2, <3>2 DEF Route
    <3>3. CASE Pull(s)
      BY <1>1, <2>3, <3>3 DEF Pull
    <3>4. CASE Return(s)
      <4>1. at[s] = "pull"
        BY <3>4 DEF Return
      <4>2. ASSUME NEW events, NEW then, Checked(s, events, then), run' = run PROVE Kept(s)
        BY <2>2, <4>2
      <4>3. ASSUME NEW events, GoesOn(s, events), item[s] # Turn PROVE Kept(s)
        BY <2>4, <4>1, <4>3
      <4>4. ASSUME Writes(s, Pending(s), "findings"), run' = run PROVE Kept(s)
        BY <2>3, <4>1, <4>4
      <4> QED
        BY <1>1, <2>5, <3>4, <4>2, <4>3, <4>4, ReturnCases
    <3>5. CASE Findings(s)
      BY <2>2, <2>4, <2>5, <3>5 DEF Findings, Found
    <3>6. CASE Summarise(s)
      BY <2>2, <2>4, <3>6 DEF Summarise
    <3>7. CASE Candidate(s)
      BY <1>1, <3>7 DEF Candidate, IInv, TypeOK
    <3>8. CASE Plan(s)
      BY <2>4, <3>8 DEF Plan
    <3>9. CASE AuditDone(s) \/ Wake(s)
      BY <2>4, <2>5, <2>6, <3>9 DEF AuditDone, Wake
    <3>10. CASE Report(s)
      <4> DEFINE k == item[s]
                 finding == About("followup.finding", k)
                 summary == About("followup.summary", k)
                 outcome == About(IF swarm[s] = "done" THEN "followup.completed"
                                  ELSE "followup.failed", k)
      <4>1. PICK told \in {<<finding>> \o <<summary>>, <<summary>>, <<>>} :
              GoesOn(s, told \o <<outcome>>)
        BY <3>10 DEF Report
      <4> HIDE DEF finding, summary, outcome
      <4>2. told \o <<outcome>> \in
              {<<finding, summary, outcome>>, <<summary, outcome>>, <<outcome>>}
        <5>1. /\ <<finding>> \o <<summary>> = <<finding, summary>>
              /\ <<finding, summary>> \o <<outcome>> = <<finding, summary, outcome>>
              /\ <<summary>> \o <<outcome>> = <<summary, outcome>>
              /\ <<>> \o <<outcome>> = <<outcome>>
          BY Joined
        <5>2. told = <<finding, summary>> \/ told = <<summary>> \/ told = <<>>
          BY <4>1, <5>1
        <5> QED
          BY <5>1, <5>2
      <4>3. told \o <<outcome>> # <<>>
        BY <4>2
      <4> DEFINE events == told \o <<outcome>>
      <4>4. GoesOn(s, events) /\ events # <<>>
        BY <4>1, <4>3
      <4> HIDE DEF events
      <4> QED
        BY <2>4, <4>4
    <3>11. CASE Begin(s)
      BY <2>2, <2>4, <2>7, <3>11 DEF Begin
    <3>12. CASE Poll(s)
      <4> DEFINE step == <<About("followup.step", item[s])>>
      <4>1. Unavailable(item[s]) # <<>> /\ step # <<>>
        BY DEF Unavailable
      <4>2. CASE GoesOn(s, Unavailable(item[s]))
        BY <2>4, <4>1, <4>2
      <4>3. CASE \E then : Writes(s, step, then) /\ run' = run
        <5> HIDE DEF step
        <5> QED
          BY <2>3, <4>1, <4>3
      <4> QED
        BY <3>12, <4>2, <4>3 DEF Poll
    <3>13. CASE Leave(s) \/ SwarmOver(s)
      BY <3>13 DEF Leave, SwarmOver, SwarmEnds
    <3>14. CASE Emit(s)
      BY <3>14 DEF Emit
    <3>15. CASE Settles(s)
      BY <3>15 DEF Settles, Settle
    <3> QED
      BY <2>1, <2>9, <3>1, <3>2, <3>3, <3>4, <3>5, <3>6, <3>7, <3>8, <3>9, <3>10,
         <3>11, <3>12, <3>13, <3>14, <3>15 DEF Advance
  <2> QED
    BY <2>8, <2>9
<1>2. IInv /\ [Next]_vars =>
        [\A s \in Streams : aborted[s] => Kept(s)]_vars
  BY <1>1
<1> QED
  BY <1>2, Invariance, PTL DEF Spec, AbortStopsWork
=============================================================================

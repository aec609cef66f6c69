--------------------------- MODULE ReplTurnProofs ---------------------------
(***************************************************************************)
(* What holds of ReplTurn for any follow-ups a plan launches or proposes   *)
(* and however often the user runs them.  IInv follows the streams: what a *)
(* stream may still say of a follow-up depends on what was read from it,   *)
(* and the entry of the follow-up agrees with that (Unstarted, Outcome).   *)
(***************************************************************************)
EXTENDS ReplTurn, SequenceTheorems, TLAPS

FollowUpNames == {"followup.started", "followup.step", "followup.finding",
                  "followup.summary", "followup.completed", "followup.failed"}
TurnNames == {"classified", "chat.complete", "cycle.start", "step", "finding",
              "summary.complete", "followup.plan", "briefing.complete", "done"}

\* Where an event of the turn leads from a place.
To(turn, name) == {m[3] : m \in {x \in TurnMoves : x[1] = turn /\ x[2] = name}}

\* The follow-up a reader is in has no outcome yet.
Tidy(r) == r.of \notin r.ended

-----------------------------------------------------------------------------
(* The grammar of a stream *)

LEMMA KindsAreNotTurn == \A k \in Automatic \cup Offered : k \in Kinds /\ k # Turn
BY ReplTurnAssumption

\* Only classified leaves the beginning, only the plan is read after the
\* summary, done ends the turn, and nothing of a turn is read after its end.
LEMMA MovesOfATurn ==
  ASSUME NEW turn, NEW name, NEW t \in To(turn, name)
  PROVE  /\ name \in TurnNames
         /\ t \in {"routed", "answered", "cycle", "summed", "planned", "briefed",
                   "over"}
         /\ name = "done" => t = "over"
         /\ turn \notin {"over", "selected"}
BY DEF To, TurnMoves, TurnNames

LEMMA MoveNames == \A m \in TurnMoves : m[2] \in TurnNames
BY DEF TurnMoves, TurnNames

\* Where a reader is, field by field.
Place(turn, of, steps, ended) ==
  [turn |-> turn, of |-> of, steps |-> steps, ended |-> ended]

\* The five ways to read an event in its place.
Ways(r, e, next) ==
  \/ /\ e.name = "error" /\ r.turn \notin {"failed", "over", "lost"}
     /\ next = Place("failed", Turn, r.steps, r.ended)
  \/ /\ r.of = Turn /\ e.of = Turn
     /\ \E t \in To(r.turn, e.name) : next = Place(t, Turn, r.steps, r.ended)
  \/ /\ r.of = Turn /\ r.turn \in {"planned", "selected"}
     /\ e.name = "followup.started" /\ e.of \notin r.ended
     /\ next = Place(r.turn, e.of, 0, r.ended)
  \/ /\ r.of # Turn /\ e.of = r.of
     /\ e.name \in {"followup.step", "followup.finding", "followup.summary"}
     /\ next = r
  \/ /\ r.of # Turn /\ e.of = r.of
     /\ e.name \in {"followup.completed", "followup.failed"}
     /\ next = Place(r.turn, Turn, r.steps, r.ended \cup {e.of})

LEMMA ReadsCases ==
  ASSUME NEW r \in Reading, NEW e, e.n = 0, Reads(r, e).turn # "lost"
  PROVE  Ways(r, e, Reads(r, e))
<1> DEFINE to == {m[3] : m \in {x \in TurnMoves : x[1] = r.turn /\ x[2] = e.name}}
           error == e.name = "error" /\ r.turn \notin {"failed", "over", "lost"}
           move == r.of = Turn /\ e.of = Turn /\ to # {} /\ InTurn(r, e)
           start == /\ r.of = Turn /\ r.turn \in {"planned", "selected"}
                    /\ e.name = "followup.started" /\ e.of \notin r.ended
           go == /\ r.of # Turn /\ e.of = r.of /\ InTurn(r, e)
                 /\ e.name \in {"followup.step", "followup.finding",
                                "followup.summary"}
           end == /\ r.of # Turn /\ e.of = r.of
                  /\ e.name \in {"followup.completed", "followup.failed"}
           steps == IF e.n > 0 THEN e.n ELSE r.steps
<1>1. steps = r.steps
  OBVIOUS
<1>2. Reads(r, e) =
        CASE error -> [r EXCEPT !.turn = "failed", !.of = Turn]
          [] move -> [r EXCEPT !.turn = CHOOSE t \in to : TRUE, !.steps = steps]
          [] start -> [r EXCEPT !.of = e.of, !.steps = 0]
          [] go -> [r EXCEPT !.steps = steps]
          [] end -> [r EXCEPT !.of = Turn, !.ended = @ \cup {e.of}]
          [] OTHER -> [r EXCEPT !.turn = "lost"]
  BY DEF Reads
<1>3. [r EXCEPT !.turn = "lost"].turn = "lost"
  BY DEF Reading
<1>4. to = To(r.turn, e.name)
  BY DEF To
<1>5. to # {} => (CHOOSE t \in to : TRUE) \in to
  OBVIOUS
<1>6. to # {} => e.name \in TurnNames
  BY <1>4, MovesOfATurn
<1>7. /\ ~(error /\ (move \/ start \/ go \/ end))
      /\ ~(move /\ (start \/ go \/ end))
      /\ ~(start /\ (go \/ end)) /\ ~(go /\ end)
  BY <1>6 DEF TurnNames
<1> HIDE DEF to, steps
<1> QED
  <2>1. CASE error
    <3>1. Reads(r, e) = [r EXCEPT !.turn = "failed", !.of = Turn]
      BY <1>2, <1>7, <2>1
    <3> QED
      BY <2>1, <3>1 DEF Ways, Place, Reading
  <2>2. CASE move
    <3>1. Reads(r, e) = [r EXCEPT !.turn = CHOOSE t \in to : TRUE, !.steps = r.steps]
      BY <1>1, <1>2, <1>7, <2>2
    <3> DEFINE t == CHOOSE t \in to : TRUE
    <3>2. t \in To(r.turn, e.name)
      BY <1>4, <1>5, <2>2
    <3> HIDE DEF t
    <3>3. Reads(r, e) = Place(t, Turn, r.steps, r.ended)
      BY <2>2, <3>1 DEF Place, Reading, t
    <3> QED
      BY <2>2, <3>2, <3>3 DEF Ways
  <2>3. CASE start
    <3>1. Reads(r, e) = [r EXCEPT !.of = e.of, !.steps = 0]
      BY <1>2, <1>7, <2>3
    <3> QED
      BY <2>3, <3>1 DEF Ways, Place, Reading
  <2>4. CASE go
    <3>1. Reads(r, e) = [r EXCEPT !.steps = r.steps]
      BY <1>1, <1>2, <1>7, <2>4
    <3>2. [r EXCEPT !.steps = r.steps] = r
      BY DEF Reading
    <3> QED
      BY <2>4, <3>1, <3>2 DEF Ways
  <2>5. CASE end
    <3>1. Reads(r, e) = [r EXCEPT !.of = Turn, !.ended = @ \cup {e.of}]
      BY <1>2, <1>7, <2>5
    <3> QED
      BY <2>5, <3>1 DEF Ways, Place, Reading
  <2>6. CASE ~error /\ ~move /\ ~start /\ ~go /\ ~end
    <3>1. Reads(r, e) = [r EXCEPT !.turn = "lost"]
      BY <1>2, <2>6
    <3> QED
      BY <1>3, <3>1
  <2> QED
    BY <2>1, <2>2, <2>3, <2>4, <2>5, <2>6

\* What a stream carries is about the turn or about a follow-up it may run.
LEMMA CarriesCases ==
  ASSUME NEW key \in Keys, NEW e \in Carries(key)
  PROVE  /\ e.n = 0
         /\ \/ /\ e.of = Turn /\ e.name \in TurnNames \cup {"error"}
               /\ key # Turn => e.name = "error"
            \/ /\ e.of \in Automatic \cup Offered /\ e.name \in FollowUpNames
               /\ IF key = Turn THEN e.of \in Automatic ELSE e.of = key
<1>1. CASE \E m \in TurnMoves : e = Says(m[2]) /\ key = Turn
  BY <1>1, MoveNames DEF Says, Event
<1>2. CASE e = Says("error")
  BY <1>2 DEF Says, Event
<1>3. ASSUME NEW k \in IF key = Turn THEN Automatic ELSE {key}, NEW name \in FollowUpNames,
             e = About(name, k)
      PROVE  /\ e.n = 0
             /\ e.of \in Automatic \cup Offered /\ e.name \in FollowUpNames
             /\ IF key = Turn THEN e.of \in Automatic ELSE e.of = key
  BY <1>3 DEF About, Event, Keys
<1> QED
  BY <1>1, <1>2, <1>3 DEF Carries, FollowUpNames

\* An event of the turn leaves the outcomes alone; one of a follow-up is about a
\* follow-up without an outcome, which begins or is under way.
Understood(r, key, e, next) ==
  \/ /\ e.of = Turn /\ e.name \in TurnNames \cup {"error"}
     /\ next.ended = r.ended /\ r.turn # "over"
     /\ e.name = "done" => next.turn = "over"
     /\ key # Turn => /\ e.name = "error"
                      /\ next = Place("failed", Turn, r.steps, r.ended)
  \/ /\ e.of \in Automatic \cup Offered /\ e.name \in FollowUpNames
     /\ IF key = Turn THEN e.of \in Automatic ELSE e.of = key
     /\ e.of \notin r.ended /\ next.turn = r.turn
     /\ e.name = "followup.started" \/ e.of = r.of
     /\ next.ended = IF e.name \in {"followup.completed", "followup.failed"}
                     THEN r.ended \cup {e.of} ELSE r.ended

LEMMA Received ==
  ASSUME NEW r \in Reading, Tidy(r), NEW key \in Keys, NEW e \in Carries(key),
         NEW next, next = Reads(r, e), next.turn # "lost"
  PROVE  next \in Reading /\ Tidy(next) /\ Understood(r, key, e, next)
<1>1. /\ e.n = 0
      /\ \/ /\ e.of = Turn /\ e.name \in TurnNames \cup {"error"}
            /\ key # Turn => e.name = "error"
         \/ /\ e.of \in Automatic \cup Offered /\ e.name \in FollowUpNames
            /\ IF key = Turn THEN e.of \in Automatic ELSE e.of = key
  BY CarriesCases
<1>2. e.of \in Automatic \cup Offered => e.of \in Kinds /\ e.of # Turn
  BY KindsAreNotTurn
<1>3. Turn \notin Kinds
  BY ReplTurnAssumption
<1>4. Ways(r, e, next)
  BY <1>1, ReadsCases
<1>5. /\ r.turn \in {"new", "routed", "answered", "cycle", "failed", "summed",
                     "planned", "briefed", "over", "selected", "lost"}
      /\ r.of \in Kinds \cup {Turn} /\ r.steps \in Nat /\ r.ended \in SUBSET Kinds
  BY DEF Reading
<1>6. ASSUME e.name = "error", r.turn \notin {"failed", "over", "lost"},
             next = Place("failed", Turn, r.steps, r.ended)
      PROVE  /\ e.of = Turn /\ next \in Reading /\ Tidy(next)
             /\ next.ended = r.ended
  BY <1>1, <1>3, <1>5, <1>6 DEF FollowUpNames, Place, Reading, Tidy
<1>7. ASSUME r.of = Turn, e.of = Turn, NEW t \in To(r.turn, e.name),
             next = Place(t, Turn, r.steps, r.ended)
      PROVE  /\ next \in Reading /\ Tidy(next) /\ next.ended = r.ended
             /\ r.turn # "over" /\ e.name \in TurnNames
             /\ e.name = "done" => next.turn = "over"
             /\ key = Turn
  <2>1. /\ e.name \in TurnNames
        /\ t \in {"routed", "answered", "cycle", "summed", "planned", "briefed",
                  "over"}
        /\ e.name = "done" => t = "over"
        /\ r.turn \notin {"over", "selected"}
    BY <1>7, MovesOfATurn
  <2>2. /\ next.turn = t /\ next.of = Turn /\ next.ended = r.ended
        /\ next \in Reading /\ Tidy(next)
    BY <1>3, <1>5, <1>7, <2>1 DEF Place, Reading, Tidy
  <2>3. key = Turn
    BY <1>1, <1>2, <1>7, <2>1 DEF TurnNames
  <2> QED
    BY <2>1, <2>2, <2>3
<1>8. ASSUME r.of = Turn, e.name = "followup.started", e.of \notin r.ended,
             next = Place(r.turn, e.of, 0, r.ended)
      PROVE  /\ e.of \in Automatic \cup Offered
             /\ next \in Reading /\ Tidy(next) /\ next.ended = r.ended
             /\ next.turn = r.turn
  <2>1. e.of \in Automatic \cup Offered
    BY <1>1, <1>8 DEF TurnNames
  <2> QED
    BY <1>2, <1>5, <1>8, <2>1 DEF Place, Reading, Tidy
<1>9. ASSUME e.of = r.of, r.of # Turn,
             e.name \in {"followup.completed", "followup.failed"},
             next = Place(r.turn, Turn, r.steps, r.ended \cup {e.of})
      PROVE  /\ next \in Reading /\ Tidy(next) /\ next.ended = r.ended \cup {e.of}
             /\ next.turn = r.turn
  <2>1. r.ended \cup {e.of} \in SUBSET Kinds
    BY <1>5, <1>9
  <2>2. /\ next.turn = r.turn /\ next.of = Turn /\ next.steps = r.steps
        /\ next.ended = r.ended \cup {e.of}
    BY <1>9 DEF Place
  <2>3. next \in Reading
    BY <1>5, <1>9, <2>1 DEF Place, Reading
  <2>4. Turn \notin next.ended
    BY <1>3, <2>1, <2>2
  <2> QED
    BY <2>2, <2>3, <2>4 DEF Tidy
<1>10. CASE e.name = "error" /\ r.turn \notin {"failed", "over", "lost"}
            /\ next = Place("failed", Turn, r.steps, r.ended)
  BY <1>1, <1>6, <1>10 DEF Understood
<1>11. CASE r.of = Turn /\ e.of = Turn
            /\ \E t \in To(r.turn, e.name) : next = Place(t, Turn, r.steps, r.ended)
  BY <1>7, <1>11 DEF Understood
<1>12. CASE r.of = Turn /\ e.name = "followup.started" /\ e.of \notin r.ended
            /\ next = Place(r.turn, e.of, 0, r.ended)
  BY <1>1, <1>2, <1>8, <1>12 DEF Understood
<1>13. CASE r.of # Turn /\ e.of = r.of /\ next = r
            /\ e.name \in {"followup.step", "followup.finding", "followup.summary"}
  BY <1>1, <1>13 DEF Tidy, Understood
<1>14. CASE r.of # Turn /\ e.of = r.of
            /\ e.name \in {"followup.completed", "followup.failed"}
            /\ next = Place(r.turn, Turn, r.steps, r.ended \cup {e.of})
  BY <1>1, <1>9, <1>14 DEF Tidy, Understood
<1> QED
  BY <1>4, <1>10, <1>11, <1>12, <1>13, <1>14 DEF Ways, Understood

-----------------------------------------------------------------------------
(* The invariant *)

\* The request of the turn is the first, the others run what a button offers.
Keyed ==
  /\ 1 \in DOMAIN requests
  /\ \A r \in DOMAIN requests : IF r = 1 THEN requests[r].key = Turn
                                ELSE requests[r].key \in Offered

AllTidy == \A r \in DOMAIN requests : Tidy(requests[r].read)

\* A request under way has its controller in the hook, or shares its key.
Tracked ==
  \A r \in Open : inFlight[requests[r].key] = r \/ RunTwice(requests[r].key)

\* Once done was read, the turn is shown as running by its follow-ups only.
DoneIsRead == took => requests[1].read.turn = "over"
DoneIsShown == took => (phase \notin Running \/ HasRunning(status))

\* A stream of a follow-up without an entry has said nothing of it.
Unstarted ==
  \A r \in DOMAIN requests :
    (requests[r].key \in Offered /\ status[requests[r].key] = "none")
      => requests[r].read \in {Unread("selected"), Unread("failed")}

\* Who may speak of a follow-up, and what has its outcome has it in the stream.
Speaks(r, k) == requests[r].key = k \/ (requests[r].key = Turn /\ k \in Automatic)
Outcome ==
  \A k \in Automatic \cup Offered :
    (status[k] \in {"completed", "failed"} /\ ~RunTwice(k))
      => \A r \in DOMAIN requests : Speaks(r, k) => k \in requests[r].read.ended

IInv ==
  TypeOK /\ TrackedIsOpen /\ Keyed /\ AllTidy /\ Tracked /\ DoneIsRead /\ DoneIsShown
         /\ Unstarted /\ Outcome

LEMMA RequestsAreTyped ==
  ASSUME TypeOK
  PROVE  /\ DOMAIN requests = 1..Len(requests) /\ Len(requests) \in Nat
         /\ \A r \in DOMAIN requests : requests[r] \in Request
BY LenProperties, ElementOfSeq DEF TypeOK

\* One request changes and keeps its key.
LEMMA ReplaceOne ==
  ASSUME TypeOK, NEW r \in DOMAIN requests, NEW new \in Request,
         new.key = requests[r].key, requests' = [requests EXCEPT ![r] = new]
  PROVE  /\ requests' \in Seq(Request) /\ Len(requests') = Len(requests)
         /\ DOMAIN requests' = DOMAIN requests
         /\ requests'[r] = new
         /\ \A q \in DOMAIN requests \ {r} : requests'[q] = requests[q]
         /\ \A q \in DOMAIN requests : requests'[q].key = requests[q].key
<1>1. requests \in Seq(Request) /\ DOMAIN requests = 1..Len(requests)
  BY RequestsAreTyped DEF TypeOK
<1>2. /\ requests' \in Seq(Request) /\ Len(requests') = Len(requests)
      /\ \A j \in 1..Len(requests) : requests'[j] = IF j = r THEN new ELSE requests[j]
  BY <1>1, ExceptSeq
<1>3. DOMAIN requests' = 1..Len(requests')
  BY <1>2, LenProperties
<1> QED
  BY <1>1, <1>2, <1>3

\* Requests are never forgotten, so a follow-up that was run twice stays so.
LEMMA RunTwiceStays ==
  ASSUME NEW k, RunTwice(k), DOMAIN requests \subseteq DOMAIN requests',
         \A q \in DOMAIN requests : requests'[q].key = requests[q].key
  PROVE  RunTwice(k)'
BY DEF RunTwice

-----------------------------------------------------------------------------
(* Events *)

\* The entry of a follow-up changes only by an event about it.
LEMMA StatusKeeps ==
  ASSUME TypeOK, NEW e, e.of \in Automatic \cup Offered \/ e.name \in TurnNames \cup {"error"}
  PROVE  /\ Status(e) \in [Automatic \cup Offered -> {"none", "running", "completed", "failed"}]
         /\ \A k \in Automatic \cup Offered : k # e.of => Status(e)[k] = status[k]
         /\ e.name \in TurnNames \cup {"error", "followup.finding", "followup.summary"}
              => Status(e) = status
         /\ (e.of \in Automatic \cup Offered
             /\ e.name \in {"followup.started", "followup.step"})
              => Status(e)[e.of] = "running"
         /\ (e.of \in Automatic \cup Offered
             /\ e.name \in {"followup.completed", "followup.failed"})
              => Status(e)[e.of] \in {"completed", "failed"}
<1>1. CASE e.name \in {"followup.started", "followup.step"} /\ e.of \in Automatic \cup Offered
  <2>1. Status(e) = [status EXCEPT ![e.of] = "running"]
    BY <1>1 DEF Status
  <2> QED
    BY <1>1, <2>1 DEF TypeOK, TurnNames
<1>2. CASE e.name = "followup.completed" /\ e.of \in Automatic \cup Offered
  <2>1. Status(e) = [status EXCEPT ![e.of] = "completed"]
    BY <1>2 DEF Status
  <2> QED
    BY <1>2, <2>1 DEF TypeOK, TurnNames
<1>3. CASE e.name = "followup.failed" /\ e.of \in Automatic \cup Offered
  <2>1. Status(e) = [status EXCEPT ![e.of] = "failed"]
    BY <1>3 DEF Status
  <2> QED
    BY <1>3, <2>1 DEF TypeOK, TurnNames
<1>4. CASE e.name \notin {"followup.started", "followup.step", "followup.completed",
                          "followup.failed"}
  <2>1. Status(e) = status
    BY <1>4 DEF Status
  <2> QED
    BY <1>4, <2>1 DEF TypeOK
<1> QED
  BY <1>1, <1>2, <1>3, <1>4 DEF TurnNames

LEMMA PhaseType ==
  ASSUME TypeOK, NEW e
  PROVE  Phase(e) \in {"turn", "followup-running", "done", "error"}
BY DEF TypeOK, Phase

\* Everything an event changes.
LEMMA ReceiveKeeps ==
  ASSUME IInv, NEW r \in DOMAIN requests, Receive(r)
  PROVE  /\ IInv'
         /\ \A k \in Automatic \cup Offered : status[k] \in {"completed", "failed"}
              => status'[k] = status[k] \/ RunTwice(k)
<1> USE DEF IInv
<1> DEFINE old == requests[r]
<1>1. old \in Request
  BY RequestsAreTyped
<1>2. PICK e \in Carries(old.key) :
        LET next == Reads(old.read, e) IN
        /\ r \in Open /\ next.turn # "lost"
        /\ requests' = [requests EXCEPT ![r].read = next]
        /\ phase' = Phase(e)
        /\ took' = (took \/ e.name = "done")
        /\ plan' = (plan \/ e.name = "followup.plan")
        /\ status' = Status(e)
        /\ UNCHANGED inFlight
  BY DEF Receive
<1> DEFINE next == Reads(old.read, e)
           new == [old EXCEPT !.read = next]
<1>3. old.key \in Keys /\ old.read \in Reading /\ Tidy(old.read)
  BY <1>1 DEF Request, AllTidy
<1> HIDE DEF next
<1>4. /\ next \in Reading /\ Tidy(next)
      /\ Understood(old.read, old.key, e, next)
  BY <1>2, <1>3, Received DEF next
<1>5. /\ new \in Request /\ new.key = old.key /\ new.read = next /\ new.is = old.is
      /\ requests' = [requests EXCEPT ![r] = new]
  BY <1>1, <1>2, <1>4 DEF Request, next, Understood
<1> HIDE DEF new, old
<1>6. /\ requests' \in Seq(Request) /\ Len(requests') = Len(requests)
      /\ DOMAIN requests' = DOMAIN requests
      /\ requests'[r] = new
      /\ \A q \in DOMAIN requests \ {r} : requests'[q] = requests[q]
      /\ \A q \in DOMAIN requests : requests'[q].key = requests[q].key
  BY <1>5, ReplaceOne DEF old
<1>7. \A q \in DOMAIN requests : requests'[q].is = requests[q].is
  BY <1>5, <1>6 DEF old
<1>8. Open' = Open
  BY <1>6, <1>7 DEF Open
<1>9. \A k : RunTwice(k)' <=> RunTwice(k)
  BY <1>6 DEF RunTwice
<1>10. TypeOK' /\ TrackedIsOpen' /\ Keyed' /\ Tracked'
  <2>1. /\ status' \in [Automatic \cup Offered -> {"none", "running", "completed", "failed"}]
        /\ phase' \in {"turn", "followup-running", "done", "error"}
    BY <1>2, <1>4, StatusKeeps, PhaseType DEF Understood
  <2>2. TypeOK'
    BY <1>2, <1>6, <2>1 DEF TypeOK
  <2>3. TrackedIsOpen' /\ Keyed' /\ Tracked'
    BY <1>2, <1>6, <1>8, <1>9 DEF TrackedIsOpen, Keyed, Tracked, Open
  <2> QED
    BY <2>2, <2>3
<1>11. AllTidy'
  BY <1>4, <1>5, <1>6 DEF AllTidy, Understood
<1>12. /\ \A k \in Automatic \cup Offered : k # e.of => status'[k] = status[k]
       /\ e.name \in TurnNames \cup {"error", "followup.finding", "followup.summary"}
            => status' = status
       /\ (e.of \in Automatic \cup Offered
           /\ e.name \in {"followup.started", "followup.step"})
            => status'[e.of] = "running"
       /\ (e.of \in Automatic \cup Offered
           /\ e.name \in {"followup.completed", "followup.failed"})
            => status'[e.of] \in {"completed", "failed"}
  BY <1>2, <1>4, StatusKeeps DEF Understood
<1>13. Unstarted'
  <2> SUFFICES ASSUME NEW q \in DOMAIN requests, requests[q].key \in Offered,
                      status'[requests[q].key] = "none"
               PROVE  requests'[q].read \in {Unread("selected"), Unread("failed")}
    BY <1>6 DEF Unstarted
  <2> DEFINE k == requests[q].key
  <2>1. k \in Automatic \cup Offered /\ k \notin Automatic /\ k # Turn
    BY ReplTurnAssumption
  <2>2. e.of = k => e.name \in {"followup.finding", "followup.summary"}
    BY <1>4, <1>12, <2>1 DEF FollowUpNames, Understood
  <2>3. status[k] = "none"
    BY <1>12, <2>1, <2>2
  <2>4. requests[q].read \in {Unread("selected"), Unread("failed")}
    BY <2>3 DEF Unstarted
  <2>5. CASE q # r
    BY <1>6, <2>4, <2>5
  <2>6. CASE q = r
    <3>1. old.key = k /\ old.read.of = Turn /\ old.read.ended = {}
          /\ old.read.steps = 0
      BY <2>4, <2>6 DEF Unread, old
    <3>2. e.of = Turn
      BY <1>4, <2>1, <2>2, <3>1 DEF Understood
    <3>3. next = Place("failed", Turn, 0, {})
      BY <1>4, <2>1, <3>1, <3>2, KindsAreNotTurn DEF Understood
    <3> QED
      BY <1>5, <1>6, <2>6, <3>3 DEF Place, Unread
  <2> QED
    BY <2>5, <2>6
<1>14. DoneIsRead'
  <2> SUFFICES ASSUME took' PROVE requests'[1].read.turn = "over"
    BY DEF DoneIsRead
  <2>1. CASE took
    BY <1>4, <1>5, <1>6, <2>1 DEF DoneIsRead, Keyed, old, Understood
  <2>2. CASE ~took /\ e.name = "done"
    <3>1. old.key = Turn /\ next.turn = "over"
      BY <1>4, <2>2 DEF FollowUpNames, Understood
    <3>2. r = 1
      BY <3>1, KindsAreNotTurn DEF Keyed, old
    <3> QED
      BY <1>5, <1>6, <3>1, <3>2
  <2> QED
    BY <1>2, <2>1, <2>2
<1>15. DoneIsShown'
  <2> SUFFICES ASSUME took', phase' \in Running
               PROVE  \E k \in DOMAIN status' : status'[k] = "running"
    BY DEF DoneIsShown, HasRunning
  <2>1. DOMAIN status = Automatic \cup Offered /\ DOMAIN status' = Automatic \cup Offered
    BY <1>10 DEF TypeOK
  <2>2. CASE e.of = Turn /\ e.name \in TurnNames \cup {"error"}
    <3>1. status' = status
      BY <1>12, <2>2
    <3>2. CASE took
      <4>1. old.key # Turn
        BY <1>4, <2>2, <3>2, KindsAreNotTurn DEF DoneIsRead, Keyed, old, Understood
      <4>2. e.name = "error"
        BY <1>4, <2>2, <4>1, KindsAreNotTurn DEF Understood
      <4> QED
        BY <1>2, <4>2 DEF Phase, Running
    <3>3. CASE ~took /\ e.name = "done"
      BY <1>2, <3>3 DEF Phase, Running
    <3> QED
      BY <1>2, <3>2, <3>3
  <2>3. CASE e.of \in Automatic \cup Offered /\ e.name \in FollowUpNames
    <3>1. took
      BY <1>2, <2>3 DEF FollowUpNames
    <3>2. CASE e.name \in {"followup.started", "followup.step"}
      BY <1>12, <2>1, <2>3, <3>2
    <3>3. CASE e.name \in {"followup.completed", "followup.failed"}
      BY <1>2, <2>3, <3>1, <3>3 DEF Phase, HasRunning, Running
    <3>4. CASE e.name \in {"followup.finding", "followup.summary"}
      <4>1. phase' = phase /\ status' = status
        BY <1>2, <1>12, <3>4 DEF Phase
      <4> QED
        BY <3>1, <4>1 DEF DoneIsShown, HasRunning
    <3> QED
      BY <2>3, <3>2, <3>3, <3>4 DEF FollowUpNames
  <2> QED
    BY <1>4, <2>2, <2>3 DEF Understood
<1>16. \A q \in DOMAIN requests : requests[q].read.ended \subseteq requests'[q].read.ended
  BY <1>4, <1>5, <1>6 DEF old, Understood
<1>17. ASSUME NEW k \in Automatic \cup Offered, e.of = k, ~RunTwice(k),
              NEW q \in DOMAIN requests, Speaks(q, k)
       PROVE  q = r
  <2>1. k # Turn
    BY KindsAreNotTurn
  <2>2. Speaks(r, k)
    BY <1>4, <1>17, <2>1 DEF Speaks, old, Understood
  <2>3. CASE k \in Automatic
    BY <1>17, <2>2, <2>3, ReplTurnAssumption DEF Speaks, Keyed
  <2>4. CASE k \notin Automatic
    BY <1>17, <2>2, <2>4 DEF Speaks, RunTwice
  <2> QED
    BY <2>3, <2>4
<1>18. Outcome'
  <2> SUFFICES ASSUME NEW k \in Automatic \cup Offered,
                      status'[k] \in {"completed", "failed"}, ~RunTwice(k),
                      NEW q \in DOMAIN requests, Speaks(q, k)
               PROVE  k \in requests'[q].read.ended
    BY <1>6, <1>9 DEF Outcome, Speaks
  <2>1. CASE e.of = k /\ e.name \in {"followup.completed", "followup.failed"}
    <3>1. q = r
      BY <1>17, <2>1
    <3>2. k \in next.ended
      BY <1>4, <2>1, KindsAreNotTurn DEF Understood
    <3> QED
      BY <1>5, <1>6, <3>1, <3>2
  <2>2. CASE ~(e.of = k /\ e.name \in {"followup.completed", "followup.failed"})
    <3>1. status'[k] = status[k]
      <4>1. CASE e.of # k
        BY <1>12, <4>1
      <4>2. CASE e.of = k
        BY <1>4, <1>12, <2>2, <4>2, KindsAreNotTurn DEF FollowUpNames, Understood
      <4> QED
        BY <4>1, <4>2
    <3>2. k \in requests[q].read.ended
      BY <3>1 DEF Outcome
    <3> QED
      BY <1>16, <3>2
  <2> QED
    BY <2>1, <2>2
<1>19. ASSUME NEW k \in Automatic \cup Offered, status[k] \in {"completed", "failed"},
              ~RunTwice(k)
       PROVE  status'[k] = status[k]
  <2>1. CASE e.of # k
    BY <1>12, <2>1
  <2>2. CASE e.of = k
    <3>1. e.of \notin old.read.ended /\ Speaks(r, k)
      BY <1>4, <2>2, KindsAreNotTurn DEF Speaks, old, Understood
    <3>2. k \in old.read.ended
      BY <1>19, <3>1 DEF Outcome, old
    <3> QED
      BY <2>2, <3>1, <3>2
  <2> QED
    BY <2>1, <2>2
<1> QED
  BY <1>10, <1>11, <1>13, <1>14, <1>15, <1>18, <1>19

-----------------------------------------------------------------------------
(* Requests begin and end *)

\* A request ends: the hook forgets its key, the turn may be shown as failed.
LEMMA OverKeeps ==
  ASSUME IInv, NEW r \in DOMAIN requests,
         requests' = [requests EXCEPT ![r].is = "over"],
         inFlight' = Finished(requests[r].key),
         phase' \in {phase, "error"}, UNCHANGED <<took, plan, status>>
  PROVE  IInv'
<1> USE DEF IInv
<1> DEFINE old == requests[r]
           new == [old EXCEPT !.is = "over"]
<1>1. /\ old \in Request /\ new \in Request
      /\ new.key = old.key /\ new.read = old.read /\ new.is = "over"
      /\ requests' = [requests EXCEPT ![r] = new]
  BY RequestsAreTyped DEF Request
<1>2. /\ inFlight' = [inFlight EXCEPT ![old.key] = Nobody]
      /\ old.key \in Keys
  BY <1>1 DEF Finished, Request
<1> HIDE DEF new, old
<1>3. /\ requests' \in Seq(Request) /\ Len(requests') = Len(requests)
      /\ DOMAIN requests' = DOMAIN requests
      /\ requests'[r] = new
      /\ \A q \in DOMAIN requests \ {r} : requests'[q] = requests[q]
      /\ \A q \in DOMAIN requests : requests'[q].key = requests[q].key
  BY <1>1, ReplaceOne DEF old
<1>4. \A q \in DOMAIN requests : requests'[q].read = requests[q].read
  BY <1>1, <1>3 DEF old
<1>5. Open' = Open \ {r}
  BY <1>1, <1>3 DEF Open
<1>6. \A k : RunTwice(k)' <=> RunTwice(k)
  BY <1>3 DEF RunTwice
<1>7. TypeOK'
  <2>1. /\ inFlight' \in [Keys -> 0..(MaxRuns + 1)]
        /\ \A k \in Keys : inFlight'[k] \in {Nobody, inFlight[k]}
    BY <1>2, ReplTurnAssumption DEF TypeOK, Nobody
  <2>2. \A k \in Keys : inFlight'[k] # Nobody =>
          inFlight'[k] \in DOMAIN requests' /\ requests'[inFlight'[k]].key = k
    BY <1>3, <2>1 DEF TypeOK
  <2> QED
    BY <1>3, <2>1, <2>2 DEF TypeOK
<1>8. TrackedIsOpen'
  <2> SUFFICES ASSUME NEW k \in Keys, inFlight'[k] # Nobody
               PROVE  inFlight'[k] \in Open'
    BY DEF TrackedIsOpen
  <2>1. k # old.key /\ inFlight'[k] = inFlight[k] /\ inFlight[k] # Nobody
    BY <1>2 DEF TypeOK
  <2>2. inFlight[k] \in Open /\ inFlight[k] # r
    BY <2>1 DEF TrackedIsOpen, TypeOK, old
  <2> QED
    BY <1>5, <2>1, <2>2
<1>9. Tracked'
  <2> SUFFICES ASSUME NEW q \in Open', ~RunTwice(requests[q].key)
               PROVE  inFlight'[requests[q].key] = q
    BY <1>3, <1>5, <1>6 DEF Tracked, Open
  <2>1. q \in DOMAIN requests /\ q # r /\ q \in Open
    BY <1>5 DEF Open
  <2>2. inFlight[requests[q].key] = q
    BY <2>1 DEF Tracked
  <2>3. requests[q].key # old.key
    BY <2>1 DEF RunTwice, old
  <2>4. requests[q].key \in Keys
    BY <2>1, RequestsAreTyped DEF Request
  <2> QED
    BY <1>2, <2>2, <2>3, <2>4 DEF TypeOK
<1>10. Keyed' /\ AllTidy' /\ Unstarted' /\ DoneIsRead'
  BY <1>3, <1>4 DEF Keyed, AllTidy, Unstarted, DoneIsRead
<1>11. DoneIsShown'
  BY DEF DoneIsShown, HasRunning, Running
<1>12. Outcome'
  BY <1>3, <1>4, <1>6 DEF Outcome, Speaks
<1> QED
  BY <1>7, <1>8, <1>9, <1>10, <1>11, <1>12

LEMMA RunFollowUpKeeps ==
  ASSUME IInv, NEW k \in Automatic \cup Offered, RunFollowUp(k)
  PROVE  IInv'
<1> USE DEF IInv
<1> DEFINE new == Opened(k, "selected")
           n == Len(requests) + 1
<1>1. /\ DOMAIN requests = 1..Len(requests) /\ Len(requests) \in Nat
      /\ requests \in Seq(Request)
  BY RequestsAreTyped DEF TypeOK
<1>2. k \in Offered /\ k \in Keys /\ k # Turn /\ k \notin Automatic
  BY ReplTurnAssumption DEF RunFollowUp, Buttons, Keys
<1>3. /\ new \in Request /\ new.key = k /\ new.is = "open"
      /\ new.read = Unread("selected")
  BY <1>2 DEF Opened, Unread, Request, Reading
<1>4. /\ requests' = Append(requests, new)
      /\ inFlight' = [inFlight EXCEPT ![k] = n]
      /\ status[k] = "none" /\ Len(requests) <= MaxRuns
      /\ UNCHANGED <<phase, took, plan, status>>
  BY DEF RunFollowUp, KeyOf
<1> HIDE DEF new
<1>5. /\ requests' \in Seq(Request) /\ Len(requests') = n
      /\ DOMAIN requests' = 1..n
      /\ requests'[n] = new
      /\ \A q \in DOMAIN requests : requests'[q] = requests[q]
  BY <1>1, <1>3, <1>4
<1>6. DOMAIN requests' = DOMAIN requests \cup {n} /\ n \notin DOMAIN requests
      /\ n # 0 /\ n # 1 /\ n \in 0..(MaxRuns + 1)
  BY <1>1, <1>4, <1>5, ReplTurnAssumption DEF Keyed
<1> HIDE DEF n
<1>7. Open' = Open \cup {n}
  BY <1>3, <1>5, <1>6 DEF Open
<1>8. \A j : RunTwice(j) => RunTwice(j)'
  BY <1>5, <1>6 DEF RunTwice
<1>9. inFlight' \in [Keys -> 0..(MaxRuns + 1)] /\ inFlight'[k] = n
      /\ \A j \in Keys \ {k} : inFlight'[j] = inFlight[j]
  BY <1>2, <1>4, <1>6 DEF TypeOK
<1>10. TypeOK'
  <2>1. Len(requests') <= MaxRuns + 1
    BY <1>1, <1>4, <1>5, ReplTurnAssumption DEF n
  <2>2. \A j \in Keys : inFlight'[j] # Nobody =>
          inFlight'[j] \in DOMAIN requests' /\ requests'[inFlight'[j]].key = j
    BY <1>3, <1>5, <1>6, <1>9 DEF TypeOK
  <2> QED
    BY <1>4, <1>5, <1>9, <2>1, <2>2 DEF TypeOK
<1>11. TrackedIsOpen'
  BY <1>7, <1>9 DEF TrackedIsOpen
<1>12. Tracked'
  <2> SUFFICES ASSUME NEW q \in Open', NEW j, j = requests'[q].key,
                      inFlight'[j] # q
               PROVE  RunTwice(j)'
    BY DEF Tracked, RunTwice
  <2>1. q # n /\ q \in Open /\ q \in DOMAIN requests
    BY <1>3, <1>5, <1>7, <1>9 DEF Open
  <2>2. requests[q].key = j /\ j \in Keys
    BY <1>5, <2>1, RequestsAreTyped DEF Request
  <2>3. CASE j = k
    BY <1>3, <1>5, <1>6, <2>1, <2>2, <2>3 DEF RunTwice
  <2>4. CASE j # k
    <3>1. inFlight[j] # q
      BY <1>9, <2>2, <2>4
    <3>2. RunTwice(j)
      BY <2>1, <2>2, <3>1 DEF Tracked
    <3> QED
      BY <1>8, <3>2
  <2> QED
    BY <2>3, <2>4
<1>13. Keyed' /\ AllTidy' /\ DoneIsRead' /\ DoneIsShown'
  <2>1. Tidy(new.read)
    BY <1>3 DEF Unread, Tidy
  <2> QED
    BY <1>2, <1>3, <1>4, <1>5, <1>6, <2>1
       DEF Keyed, AllTidy, DoneIsRead, DoneIsShown, HasRunning
<1>14. Unstarted'
  BY <1>3, <1>4, <1>5, <1>6 DEF Unstarted
<1>15. Outcome'
  <2> SUFFICES ASSUME NEW j \in Automatic \cup Offered,
                      status[j] \in {"completed", "failed"}, ~RunTwice(j)',
                      NEW q \in DOMAIN requests', Speaks(q, j)'
               PROVE  j \in requests'[q].read.ended
    BY <1>4 DEF Outcome
  <2>1. j # k
    BY <1>4
  <2>2. q # n
    BY <1>2, <1>3, <1>5, <2>1 DEF Speaks
  <2>3. q \in DOMAIN requests /\ Speaks(q, j) /\ ~RunTwice(j)
    BY <1>5, <1>6, <1>8, <2>2 DEF Speaks
  <2> QED
    BY <1>5, <2>3 DEF Outcome
<1> QED
  BY <1>10, <1>11, <1>12, <1>13, <1>14, <1>15

\* Everything a cancel changes.
LEMMA CancelKeeps ==
  ASSUME IInv, Cancel
  PROVE  /\ IInv'
         /\ \A r \in Open : \/ requests'[r].is = "aborted"
                            \/ RunTwice(requests[r].key)
<1> USE DEF IInv
<1> DEFINE after(r) == IF r \in Cancelled THEN [requests[r] EXCEPT !.is = "aborted"]
                       ELSE requests[r]
<1>1. /\ DOMAIN requests = 1..Len(requests) /\ Len(requests) \in Nat
      /\ \A r \in DOMAIN requests : requests[r] \in Request
  BY RequestsAreTyped
<1>2. /\ requests' = [r \in 1..Len(requests) |-> after(r)]
      /\ inFlight' = [k \in Keys |-> IF inFlight[k] \in Cancelled THEN Nobody
                                     ELSE inFlight[k]]
      /\ phase' = "error" /\ UNCHANGED <<took, plan, status>>
  BY <1>1 DEF Cancel
<1>3. \A r \in DOMAIN requests :
        /\ after(r) \in Request /\ after(r).key = requests[r].key
        /\ after(r).read = requests[r].read
        /\ r \in Cancelled => after(r).is = "aborted"
        /\ r \notin Cancelled => after(r) = requests[r]
  BY <1>1 DEF Request
<1> HIDE DEF after
<1>4. /\ requests' \in Seq(Request) /\ Len(requests') = Len(requests)
      /\ DOMAIN requests' = DOMAIN requests
      /\ \A r \in DOMAIN requests : requests'[r] = after(r)
  <2>1. requests' \in [1..Len(requests) -> Request]
    BY <1>1, <1>2, <1>3
  <2>2. requests' \in Seq(Request)
    BY <1>1, <2>1
  <2>3. Len(requests') = Len(requests)
    BY <1>1, <2>1, <2>2
  <2> QED
    BY <1>1, <1>2, <2>1, <2>2, <2>3
<1>5. inFlight' = [k \in Keys |-> Nobody]
  <2>1. \A k \in Keys : inFlight[k] # Nobody => inFlight[k] \in Cancelled
    BY DEF Cancelled
  <2> QED
    BY <1>2, <2>1
<1>6. \A k : RunTwice(k)' <=> RunTwice(k)
  BY <1>3, <1>4 DEF RunTwice
<1>7. Open' \subseteq Open /\ \A r \in Open' : r \notin Cancelled
  BY <1>3, <1>4 DEF Open
<1>8. \A r \in Open : r \in Cancelled \/ RunTwice(requests[r].key)
  <2>1. ASSUME NEW r \in Open, ~RunTwice(requests[r].key)
        PROVE  r \in Cancelled
    <3>1. r \in DOMAIN requests /\ r # Nobody
      BY <1>1 DEF Open, Nobody
    <3>2. requests[r].key \in Keys /\ inFlight[requests[r].key] = r
      BY <1>1, <2>1, <3>1 DEF Tracked, Request
    <3> QED
      BY <3>1, <3>2 DEF Cancelled
  <2> QED
    BY <2>1
<1>9. TypeOK'
  <2>1. Nobody \in 0..(MaxRuns + 1)
    BY ReplTurnAssumption DEF Nobody
  <2> QED
    BY <1>2, <1>4, <1>5, <2>1 DEF TypeOK
<1>10. TrackedIsOpen'
  BY <1>5 DEF TrackedIsOpen
<1>11. Tracked'
  BY <1>3, <1>4, <1>6, <1>7, <1>8 DEF Tracked, Open
<1>12. Keyed' /\ AllTidy' /\ Unstarted' /\ DoneIsRead' /\ DoneIsShown'
  BY <1>2, <1>3, <1>4 DEF Keyed, AllTidy, Unstarted, DoneIsRead, DoneIsShown, Running
<1>13. Outcome'
  BY <1>2, <1>3, <1>4, <1>6 DEF Outcome, Speaks
<1>14. \A r \in Open : \/ requests'[r].is = "aborted"
                       \/ RunTwice(requests[r].key)
  BY <1>3, <1>4, <1>8 DEF Open
<1> QED
  BY <1>9, <1>10, <1>11, <1>12, <1>13, <1>14

-----------------------------------------------------------------------------
(* Theorems *)

LEMMA InitIInv == Init => IInv
<1> SUFFICES ASSUME Init PROVE IInv
  OBVIOUS
<1> DEFINE new == Opened(Turn, "new")
<1>1. /\ new \in Request /\ new.key = Turn /\ new.is = "open" /\ Tidy(new.read)
  BY DEF Opened, Unread, Request, Reading, Keys, Tidy
<1>2. requests = <<new>> /\ Turn \in Keys
  BY DEF Init, Keys
<1> HIDE DEF new
<1>3. /\ requests \in Seq(Request) /\ Len(requests) = 1
      /\ DOMAIN requests = {1} /\ requests[1] = new
  BY <1>1, <1>2
<1>4. /\ inFlight \in [Keys -> 0..(MaxRuns + 1)] /\ inFlight[Turn] = 1
      /\ \A k \in Keys \ {Turn} : inFlight[k] = Nobody
  BY <1>2, ReplTurnAssumption DEF Init, Nobody
<1>5. TypeOK
  <2>1. status \in [Automatic \cup Offered -> {"none", "running", "completed", "failed"}]
    BY DEF Init
  <2>2. \A k \in Keys : inFlight[k] # Nobody =>
          inFlight[k] \in DOMAIN requests /\ requests[inFlight[k]].key = k
    BY <1>1, <1>3, <1>4
  <2>3. Len(requests) <= MaxRuns + 1
    BY <1>3, ReplTurnAssumption
  <2> QED
    BY <1>3, <1>4, <2>1, <2>2, <2>3 DEF Init, TypeOK
<1>6. TrackedIsOpen /\ Keyed /\ AllTidy /\ Tracked
  BY <1>1, <1>3, <1>4 DEF TrackedIsOpen, Keyed, AllTidy, Tracked, Open
<1>7. DoneIsRead /\ DoneIsShown /\ Outcome
  BY DEF Init, DoneIsRead, DoneIsShown, Outcome
<1>8. Unstarted
  BY <1>1, <1>3, KindsAreNotTurn DEF Unstarted
<1> QED
  BY <1>5, <1>6, <1>7, <1>8 DEF IInv

LEMMA StutterKeeps ==
  ASSUME IInv, UNCHANGED vars
  PROVE  IInv'
BY DEF IInv, vars, TypeOK, TrackedIsOpen, Keyed, AllTidy, Tracked, DoneIsRead,
       DoneIsShown, HasRunning, Unstarted, Outcome, Speaks, RunTwice, Open

LEMMA NextIInv == IInv /\ [Next]_vars => IInv'
<1> SUFFICES ASSUME IInv, [Next]_vars PROVE IInv'
  OBVIOUS
<1>1. ASSUME NEW r \in DOMAIN requests, Receive(r) PROVE IInv'
  BY <1>1, ReceiveKeeps
<1>2. ASSUME NEW r \in DOMAIN requests, Complete(r) \/ Break(r) \/ AbortSettles(r)
      PROVE  IInv'
  BY <1>2, OverKeeps DEF Complete, Break, AbortSettles
<1>3. ASSUME NEW k \in Automatic \cup Offered, RunFollowUp(k) PROVE IInv'
  BY <1>3, RunFollowUpKeeps
<1>4. CASE Cancel
  BY <1>4, CancelKeeps
<1>5. CASE UNCHANGED vars
  BY <1>5, StutterKeeps
<1> QED
  BY <1>1, <1>2, <1>3, <1>4, <1>5 DEF Next

LEMMA Invariance == Spec => []IInv
BY InitIInv, NextIInv, PTL DEF Spec

\* The hook and the turn keep their types; in particular a controller is kept
\* under the key of its own request.
THEOREM TurnTypeCorrect == Spec => []TypeOK
<1>1. IInv => TypeOK
  BY DEF IInv
<1> QED
  BY <1>1, Invariance, PTL

\* The hook never holds the controller of a request that is over or aborted.
THEOREM HookHoldsOpenRequests == Spec => []TrackedIsOpen
<1>1. IInv => TrackedIsOpen
  BY DEF IInv
<1> QED
  BY <1>1, Invariance, PTL

\* However the streams of a turn and of its follow-ups end, a turn that had its
\* done and has no follow-up running is not shown as running.
THEOREM SettledIsShown == Spec => []SettledTurnIsNotRunning
<1>1. IInv => SettledTurnIsNotRunning
  <2>1. DoneIsShown => SettledTurnIsNotRunning
    BY DEF DoneIsShown, HasRunning, SettledTurnIsNotRunning
  <2> QED
    BY <2>1 DEF IInv
<1> QED
  BY <1>1, Invariance, PTL

\* A cancel reaches every request of the turn but those of a follow-up that was
\* run twice.
THEOREM CancelReachesAll == Spec => CancelAbortsAll
<1>1. IInv /\ [Next]_vars =>
        [Cancel => \A r \in Open : \/ requests'[r].is = "aborted"
                                   \/ RunTwice(requests[r].key)]_vars
  BY CancelKeeps
<1> QED
  BY <1>1, Invariance, PTL DEF Spec, CancelAbortsAll

\* No stream takes back the outcome another event of it has told.
THEOREM OutcomesStay == Spec => OutcomeIsKept
<1>1. IInv /\ [Next]_vars =>
        [\A k \in DOMAIN status :
           status[k] \in {"completed", "failed"}
             => status'[k] = status[k] \/ RunTwice(k)]_vars
  <2> SUFFICES ASSUME IInv, Next
               PROVE  \A k \in DOMAIN status :
                        status[k] \in {"completed", "failed"}
                          => status'[k] = status[k] \/ RunTwice(k)
    OBVIOUS
  <2>1. DOMAIN status = Automatic \cup Offered
    BY DEF IInv, TypeOK
  <2>2. ASSUME NEW r \in DOMAIN requests, Receive(r)
        PROVE  \A k \in Automatic \cup Offered :
                 status[k] \in {"completed", "failed"}
                   => status'[k] = status[k] \/ RunTwice(k)
    BY <2>2, ReceiveKeeps
  <2>3. CASE \/ \E r \in DOMAIN requests : Complete(r) \/ Break(r) \/ AbortSettles(r)
             \/ \E k \in Automatic \cup Offered : RunFollowUp(k)
             \/ Cancel
    BY <2>3 DEF Complete, Break, AbortSettles, RunFollowUp, Cancel
  <2> QED
    BY <2>1, <2>2, <2>3 DEF Next
<1> QED
  BY <1>1, Invariance, PTL DEF Spec, OutcomeIsKept

\* A second run of a follow-up needs a first one of which nothing was read.
THEOREM SecondRunIsEarly == Spec => RunTwiceOnlyUnread
<1>1. IInv /\ [Next]_vars =>
        [\A k \in Offered : RunFollowUp(k) =>
           \A r \in DOMAIN requests : requests[r].key = k =>
             requests[r].read \in {Unread("selected"), Unread("failed")}]_vars
  BY DEF IInv, Unstarted, RunFollowUp
<1> QED
  BY <1>1, Invariance, PTL DEF Spec, RunTwiceOnlyUnread
=============================================================================

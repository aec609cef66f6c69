------------------------------ MODULE ReplTurn ------------------------------
(***************************************************************************)
(* A turn of the console: useReplRuntime() and the reducers of a turn.     *)
(*                                                                         *)
(* The turn is fed by its own request and by one for every follow-up the   *)
(* user runs from the plan.  The streams of these requests are events in   *)
(* the order of ReplWire, one stream in any order with the others; a       *)
(* stream may break.  The hook keeps the controllers of the requests in    *)
(* flight by a key, the turn for the first request and the follow-up for   *)
(* the others.  Slash commands, texts and steps are left out: "turn" is    *)
(* the phase of a turn that is being classified, answered or researched.   *)
(***************************************************************************)
EXTENDS ReplWire

CONSTANTS Automatic, \* the follow-ups the plan launches
          Offered,   \* the follow-ups it proposes
          MaxRuns    \* bound: how often the user runs one

ASSUME ReplTurnAssumption ==
  /\ Automatic \subseteq Kinds /\ Offered \subseteq Kinds \ Automatic /\ Turn \notin Kinds
  /\ MaxRuns \in Nat

VARIABLES
  phase,     \* turn.phase
  took,      \* turn.tookMs is set
  plan,      \* turn.followupPlan is set
  status,    \* the status of turn.followups[id], or none without an entry
  requests,  \* what was sent, the request of the turn first
  inFlight   \* the requests the hook has a controller of, by key

vars == <<phase, took, plan, status, requests, inFlight>>

Keys == Automatic \cup Offered \cup {Turn}
Nobody == 0

\* A request, how far its stream was read, and whether it is under way, was
\* aborted by the user or is over.
Request == [key : Keys, read : Reading, is : {"open", "aborted", "over"}]

Opened(key, from) == [key |-> key, read |-> Unread(from), is |-> "open"]

TypeOK ==
  /\ phase \in {"turn", "followup-running", "done", "error"}
  /\ took \in BOOLEAN /\ plan \in BOOLEAN
  /\ status \in [Automatic \cup Offered -> {"none", "running", "completed", "failed"}]
  /\ requests \in Seq(Request) /\ Len(requests) <= MaxRuns + 1
  /\ inFlight \in [Keys -> 0..(MaxRuns + 1)]
  /\ \A k \in Keys : inFlight[k] # Nobody =>
       inFlight[k] \in DOMAIN requests /\ requests[inFlight[k]].key = k

\* sendTurn().
Init ==
  /\ phase = "turn"
  /\ took = FALSE /\ plan = FALSE
  /\ status = [k \in Automatic \cup Offered |-> "none"]
  /\ requests = <<Opened(Turn, "new")>>
  /\ inFlight = [k \in Keys |-> IF k = Turn THEN 1 ELSE Nobody]

Running == {"turn", "followup-running"}
Open == {r \in DOMAIN requests : requests[r].is = "open"}

-----------------------------------------------------------------------------
(* The reducers *)

\* Mutant of HasRunning: the follow-up that has just ended counts as running.
HasRunningBefore(after) == \E k \in DOMAIN status : status[k] = "running"

\* hasRunningFollowUps().
HasRunning(after) == \E k \in DOMAIN after : after[k] = "running"

\* The entry of a follow-up after an event.
Status(e) ==
  CASE e.name \in {"followup.started", "followup.step"} ->
         [status EXCEPT ![e.of] = "running"]
    [] e.name = "followup.completed" -> [status EXCEPT ![e.of] = "completed"]
    [] e.name = "followup.failed" -> [status EXCEPT ![e.of] = "failed"]
    [] OTHER -> status

\* The phase of the turn after an event.
Phase(e) ==
  CASE e.name \in {"followup.plan", "followup.started", "followup.step"} ->
         "followup-running"
    [] e.name \in {"followup.completed", "followup.failed"} ->
         IF HasRunning(Status(e)) THEN "followup-running"
         ELSE IF took THEN "done" ELSE phase
    [] e.name = "classified" -> "turn"
    [] e.name = "done" -> "done"
    [] e.name = "error" -> "error"
    [] OTHER -> phase

-----------------------------------------------------------------------------
(* The requests *)

\* The events a stream may carry: those of the turn and of what it launches by
\* itself, or those of the follow-up that was selected.
Carries(key) ==
  LET of == IF key = Turn THEN Automatic ELSE {key}
  IN {Says(m[2]) : m \in IF key = Turn THEN TurnMoves ELSE {}} \cup {Says("error")}
       \cup {About(name, k) : k \in of,
                              name \in {"followup.started", "followup.step",
                                        "followup.finding", "followup.summary",
                                        "followup.completed", "followup.failed"}}

\* The next event of a stream is dispatched.  A turn has its briefing when its
\* follow-ups have their outcome.
Receive(r) ==
  \E e \in Carries(requests[r].key) :
    LET next == Reads(requests[r].read, e) IN
    /\ r \in Open /\ next.turn # "lost"
    /\ e.name = "briefing.complete" => Automatic \subseteq next.ended
    /\ requests' = [requests EXCEPT ![r].read = next]
    /\ phase' = Phase(e)
    /\ took' = (took \/ e.name = "done")
    /\ plan' = (plan \/ e.name = "followup.plan")
    /\ status' = Status(e)
    /\ UNCHANGED inFlight

\* finish(): the key is forgotten, whichever request it stands for.
Finished(key) == [inFlight EXCEPT ![key] = Nobody]

\* The stream is over: the turn is done or failed, the follow-up has its outcome.
Complete(r) ==
  LET read == requests[r].read IN
  /\ r \in Open
  /\ read.turn \in {"over", "failed"} \/ (read.turn = "selected" /\ read.ended # {})
  /\ requests' = [requests EXCEPT ![r].is = "over"]
  /\ inFlight' = Finished(requests[r].key)
  /\ UNCHANGED <<phase, took, plan, status>>

\* The request is refused or its stream breaks.
Break(r) ==
  /\ r \in Open
  /\ requests' = [requests EXCEPT ![r].is = "over"]
  /\ inFlight' = Finished(requests[r].key)
  /\ phase' = "error"
  /\ UNCHANGED <<took, plan, status>>

\* A request the user aborted rejects, and nothing is dispatched.
AbortSettles(r) ==
  /\ requests[r].is = "aborted"
  /\ requests' = [requests EXCEPT ![r].is = "over"]
  /\ inFlight' = Finished(requests[r].key)
  /\ UNCHANGED <<phase, took, plan, status>>

-----------------------------------------------------------------------------
(* The user *)

\* The follow-ups of a plan that have a button.
Buttons == Offered

\* followUpRequestKey(): a key of its own in the turn.
KeyOf(k) == k

\* runFollowUp(): the button of a follow-up that has no entry yet.
RunFollowUp(k) ==
  /\ k \in Buttons /\ phase \in {"done", "followup-running"} /\ status[k] = "none"
  /\ plan /\ Len(requests) <= MaxRuns
  /\ requests' = Append(requests, Opened(k, "selected"))
  /\ inFlight' = [inFlight EXCEPT ![KeyOf(k)] = Len(requests) + 1]
  /\ UNCHANGED <<phase, took, plan, status>>

\* Mutant of Cancelled: only the request of the turn is aborted.
CancelledTurn == {inFlight[Turn]} \ {Nobody}

\* The requests cancelTurn() aborts.
Cancelled == {inFlight[k] : k \in Keys} \ {Nobody}

Cancel ==
  /\ phase \in Running /\ Cancelled # {}
  /\ requests' = [r \in DOMAIN requests |->
                    IF r \in Cancelled THEN [requests[r] EXCEPT !.is = "aborted"]
                    ELSE requests[r]]
  /\ inFlight' = [k \in Keys |-> IF inFlight[k] \in Cancelled THEN Nobody
                                 ELSE inFlight[k]]
  /\ phase' = "error"
  /\ UNCHANGED <<took, plan, status>>

-----------------------------------------------------------------------------
Next ==
  \/ \E r \in DOMAIN requests : Receive(r) \/ Complete(r) \/ Break(r) \/ AbortSettles(r)
  \/ \E k \in Automatic \cup Offered : RunFollowUp(k)
  \/ Cancel

Spec == Init /\ [][Next]_vars

-----------------------------------------------------------------------------
(* Properties *)

\* What the hook has a controller of is under way.
TrackedIsOpen == \A k \in Keys : inFlight[k] # Nobody => inFlight[k] \in Open

\* Two requests run the follow-up.
RunTwice(k) ==
  \E q, r \in DOMAIN requests : q # r /\ requests[q].key = k /\ requests[r].key = k

\* A cancel aborts every request of the turn that is under way, unless it runs a
\* follow-up that was run twice: the button stays until the first event of the
\* first run, and the two runs share a key.
CancelAbortsAll ==
  [][Cancel => \A r \in Open : \/ requests'[r].is = "aborted"
                               \/ RunTwice(requests[r].key)]_vars

\* When nothing is under way, the turn has had its done and every follow-up that
\* was started has its outcome, the turn is not shown as running, in whatever
\* order the streams ended.
SettledTurnIsNotRunning ==
  (Open = {} /\ took /\ \A k \in DOMAIN status : status[k] # "running")
    => phase \notin Running

\* A follow-up that has its outcome keeps it, unless it was run twice.
OutcomeIsKept ==
  [][\A k \in DOMAIN status :
       status[k] \in {"completed", "failed"} => status'[k] = status[k] \/ RunTwice(k)]_vars

\* A follow-up is run a second time only when no event of it was read from the
\* first run.
RunTwiceOnlyUnread ==
  [][\A k \in Offered : RunFollowUp(k) =>
       \A r \in DOMAIN requests : requests[r].key = k =>
         requests[r].read \in {Unread("selected"), Unread("failed")}]_vars
=============================================================================

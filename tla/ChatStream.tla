----------------------------- MODULE ChatStream -----------------------------
(***************************************************************************)
(* The streams of the console's chat: ReplChatService.handleStream() with  *)
(* its follow-ups, pumped to the client by the controller.                 *)
(*                                                                         *)
(* A stream is a chain of generators in a single-threaded process: what it *)
(* does between two awaits is one step, and writes the events it yields    *)
(* meanwhile.  While it waits, the research cycle or swarm launch it pumps *)
(* emits steps, the client goes away, and other streams run.  Of what was  *)
(* written a stream keeps where a reader of it is.  Answers come or the    *)
(* call rejects; which model answers is left out, and so is what becomes   *)
(* of a call or swarm when its stream is closed.                           *)
(***************************************************************************)
EXTENDS ReplWire

CONSTANTS Streams,    \* requests
          Impatient,  \* the requests whose client may leave
          Queries,    \* what is asked, up to what its signature keeps
          Signals,    \* what a cycle may answer about its verification
          MaxSteps    \* bound: steps a pumped call emits

ASSUME ChatStreamAssumption ==
  Impatient \subseteq Streams /\ MaxSteps \in Nat /\ Turn \notin Kinds

VARIABLES
  chats,    \* the chat requests; the others run one follow-up a user selected
  at,       \* the await a stream is in
  item,     \* what it works for: the turn, or a follow-up
  query,    \* what a stream asks
  auto,     \* the follow-ups it launches by itself
  run,      \* the call it pumps
  swarm,    \* what became of the swarm it launched
  read,     \* where a reader of the events written is
  aborted,  \* the client went away
  used,     \* usedDeepResearchSignatures
  met       \* history: the pairs of streams that were planning at once

vars == <<chats, at, item, query, auto, run, swarm, read, aborted, used, met>>

\* The awaits: the classifier, the chat reply, the pump, the findings of a
\* cycle, the summariser, the lookups and preflights of the plan, the audit, the
\* rows of a swarm, its report, the pause between two polls, the briefing.
\* A selected follow-up begins with the request.
Places == {"begin", "classify", "reply", "pull", "findings", "summarise", "plan",
           "preflight", "audit", "poll", "report", "sleep", "briefing", "closed"}

\* The pumped call, the steps it emitted and those the stream took, and whether
\* the generator waits for a step.
Run == [call : {"none", "running", "ok", "failed"},
        steps : 0..MaxSteps, taken : 0..MaxSteps,
        asleep : BOOLEAN]

TypeOK ==
  /\ chats \in SUBSET Streams
  /\ at \in [Streams -> Places]
  /\ item \in [Streams -> Kinds \cup {Turn}]
  /\ query \in [Streams -> Queries]
  /\ auto \in [Streams -> Seq(Kinds)] /\ \A s \in Streams : Len(auto[s]) <= 2
  /\ run \in [Streams -> Run]
  /\ swarm \in [Streams -> {"none", "running", "done", "failed"}]
  /\ read \in [Streams -> Reading]
  /\ aborted \in [Streams -> BOOLEAN]
  /\ used \in SUBSET Queries
  /\ met \in SUBSET SUBSET Streams

NoRun == [call |-> "none", steps |-> 0, taken |-> 0, asleep |-> FALSE]
NewRun == [NoRun EXCEPT !.call = "running"]

Init ==
  /\ chats \in SUBSET Streams
  /\ at = [s \in Streams |-> IF s \in chats THEN "classify" ELSE "begin"]
  /\ item = [s \in Streams |-> Turn]
  /\ query \in [Streams -> Queries]
  /\ auto \in {f \in [Streams -> {<<>>} \cup {<<k>> : k \in Kinds}] :
                 \A s \in Streams : f[s] = <<>> <=> s \in chats}
  /\ run = [s \in Streams |-> NoRun]
  /\ swarm = [s \in Streams |-> "none"]
  /\ read = [s \in Streams |-> Unread(IF s \in chats THEN "new" ELSE "selected")]
  /\ aborted = [s \in Streams |-> FALSE]
  /\ used = {}
  /\ met = {}

-----------------------------------------------------------------------------
(* Writing *)

\* The controller writes the events yielded and asks for the next one, or finds
\* that the client is gone and ends the generators where they are.
Writes(s, events, then) ==
  IF aborted[s] /\ events # <<>>
  THEN at' = [at EXCEPT ![s] = "closed"] /\ UNCHANGED read
  ELSE at' = [at EXCEPT ![s] = then] /\ read' = [read EXCEPT ![s] = ReadsAll(@, events)]

\* The turn looks at the signal before it goes on: its return ends the stream.
Checked(s, events, then) ==
  IF aborted[s]
  THEN at' = [at EXCEPT ![s] = "closed"] /\ UNCHANGED read
  ELSE Writes(s, events, then)

\* Mutant of Left: the loop is left after the first follow-up.
LeftOne(s) ==
  IF read[s].ended # {} \/ read[s].of # Turn THEN {} ELSE DOMAIN auto[s]

\* The follow-ups that were not started, by their places in the list.
Left(s) == {i \in DOMAIN auto[s] : auto[s][i] \notin read[s].ended \cup {read[s].of}}

\* executeAutoLaunched(): once the events are written the next follow-up starts,
\* an audit with its call and the others with a call to pump.  When none is left
\* a turn asks for its briefing and a selected follow-up is over.  So it is when
\* the client has left and there is nothing to write: the follow-ups that are
\* left return at once, and nobody looks at the signal before the briefing.
GoesOn(s, events) ==
  LET k == auto[s][Least(Left(s))]
      started == About("followup.started", k)
  IN IF aborted[s] \/ Left(s) = {}
     THEN /\ Writes(s, events, IF s \in chats THEN "briefing" ELSE "closed")
          /\ UNCHANGED <<run, item>>
     ELSE /\ Writes(s, Append(events, started), IF k = Audit THEN "audit" ELSE "pull")
          /\ item' = [item EXCEPT ![s] = k]
          /\ run' = [run EXCEPT ![s] = IF k = Audit THEN NoRun ELSE NewRun]

\* A follow-up looks at the signal: its return ends the follow-up, not the stream.
Heeded(s, events, then) ==
  IF aborted[s] THEN GoesOn(s, events)
  ELSE Writes(s, events, then) /\ UNCHANGED <<run, item>>

\* What a follow-up yields behind a look at the signal.
Told(s, events) == IF aborted[s] THEN <<>> ELSE events

\* An await rejects: the controller writes the error and closes the stream.
Rejects(s) ==
  /\ at[s] \in {"classify", "reply", "findings", "summarise", "plan",
                "preflight", "audit", "poll", "report", "briefing"}
  /\ Checked(s, <<Says("error")>>, "closed")
  /\ UNCHANGED <<chats, item, query, auto, run, swarm, aborted, used, met>>

\* The client disconnects.
Leave(s) ==
  /\ s \in Impatient /\ at[s] # "closed" /\ ~aborted[s]
  /\ aborted' = [aborted EXCEPT ![s] = TRUE]
  /\ UNCHANGED <<chats, at, item, query, auto, run, swarm, read, used, met>>

-----------------------------------------------------------------------------
(* The turn up to its cycle *)

Route(s) ==
  /\ at[s] = "classify"
  /\ \/ /\ Checked(s, <<Says("classified")>>, "reply")
        /\ UNCHANGED run
     \/ /\ Checked(s, <<Says("classified"), Says("cycle.start")>>, "pull")
        /\ run' = IF aborted[s] THEN run ELSE [run EXCEPT ![s] = NewRun]
  /\ UNCHANGED <<chats, item, query, auto, swarm, aborted, used, met>>

Reply(s) ==
  /\ at[s] = "reply"
  /\ Checked(s, <<Says("chat.complete"), Says("done")>>, "closed")
  /\ UNCHANGED <<chats, item, query, auto, run, swarm, aborted, used, met>>

-----------------------------------------------------------------------------
(* CycleStreamPump.pump() *)

\* Mutant of Woken: nobody wakes the generator.
LeftAsleep(r) == r

\* wake().
Woken(r) == [r EXCEPT !.asleep = FALSE]

\* onStep().
Emit(s) ==
  /\ at[s] = "pull" /\ run[s].call = "running" /\ run[s].steps < MaxSteps
  /\ run' = [run EXCEPT ![s] = [Woken(run[s]) EXCEPT !.steps = @ + 1]]
  /\ UNCHANGED <<chats, at, item, query, auto, swarm, read, aborted, used, met>>

\* The pumped call resolves or rejects; the pump catches.  A swarm launch leaves
\* a swarm behind.
Settle(s, outcome) ==
  /\ at[s] = "pull" /\ run[s].call = "running"
  /\ run' = [run EXCEPT ![s] = [Woken(@) EXCEPT !.call = outcome]]
  /\ swarm' = [swarm EXCEPT ![s] =
                 IF outcome = "ok" /\ item[s] \in {Pc, Telemetry} THEN "running" ELSE @]
  /\ UNCHANGED <<chats, at, item, query, auto, read, aborted, used, met>>

\* Mutant of Pending: the queue is not looked at once the call has settled.
PendingUntilSettled(s) ==
  LET r == run[s] IN
  [i \in 1..(IF r.call = "running" THEN r.steps - r.taken ELSE 0) |->
     Event(IF item[s] = Turn THEN "step" ELSE "followup.step", item[s], r.taken + i)]

\* The steps in the queue of the pump.
Pending(s) ==
  LET r == run[s] IN
  [i \in 1..(r.steps - r.taken) |->
     Event(IF item[s] = Turn THEN "step" ELSE "followup.step", item[s], r.taken + i)]

\* The generator runs: it yields the steps in the queue, then waits while the
\* call is under way.
Pull(s) ==
  /\ at[s] = "pull" /\ run[s].call = "running" /\ ~run[s].asleep
  /\ Writes(s, Pending(s), "pull")
  /\ run' = [run EXCEPT ![s].taken = run[s].steps, ![s].asleep = TRUE]
  /\ UNCHANGED <<chats, item, query, auto, swarm, aborted, used, met>>

\* The generator yields what is left and returns.  A failed cycle ends the turn;
\* a follow-up only reports it.
Return(s) ==
  LET k == item[s] IN
  /\ at[s] = "pull" /\ run[s].call \in {"ok", "failed"} /\ ~run[s].asleep
  /\ CASE run[s].call = "failed" /\ k # Turn ->
            GoesOn(s, Append(Pending(s), About("followup.failed", k)))
       [] run[s].call = "failed" /\ k = Turn ->
            /\ Checked(s, Pending(s) \o <<Says("error"), Says("done")>>, "closed")
            /\ UNCHANGED <<run, item>>
       [] run[s].call = "ok" /\ k = Deep ->
            Writes(s, Pending(s), "findings") /\ UNCHANGED <<run, item>>
       [] run[s].call = "ok" /\ k = Turn ->
            Checked(s, Pending(s), "findings") /\ UNCHANGED <<run, item>>
       [] run[s].call = "ok" /\ k \in {Pc, Telemetry} ->
            Heeded(s, Pending(s), "poll")
  /\ UNCHANGED <<chats, query, auto, swarm, aborted, used, met>>

-----------------------------------------------------------------------------
(* The turn and a deep research after their cycle *)

\* Mutant of Found: the signal is not looked at when there is no finding.
FoundUnchecked(s, events) == Writes(s, events, "summarise") /\ UNCHANGED <<run, item>>

\* The findings are written, then the summariser is called.
Found(s, events) ==
  IF item[s] = Turn
  THEN Checked(s, events, "summarise") /\ UNCHANGED <<run, item>>
  ELSE Heeded(s, Told(s, events), "summarise")

Findings(s) ==
  LET k == item[s]
      finding == IF k = Turn THEN Says("finding") ELSE About("followup.finding", k)
  IN /\ at[s] = "findings"
     /\ \E events \in {<<>>, <<finding>>} : Found(s, events)
     /\ UNCHANGED <<chats, query, auto, swarm, aborted, used, met>>

Summarise(s) ==
  LET k == item[s] IN
  /\ at[s] = "summarise"
  /\ IF k = Turn
     THEN Checked(s, <<Says("summary.complete")>>, "plan") /\ UNCHANGED <<run, item>>
     ELSE GoesOn(s, <<About("followup.summary", k), About("followup.completed", k)>>)
  /\ UNCHANGED <<chats, query, auto, swarm, aborted, used, met>>

\* The edges and patterns are there: the candidates are ranked, and the ones
\* that can be launched are asked for one by one.
Candidate(s) ==
  /\ at[s] = "plan"
  /\ \E v \in Signals, canStart \in SUBSET (Kinds \ {Deep}) :
       \E q \in AutoLaunched(v, canStart, query[s] \in used) :
         auto' = [auto EXCEPT ![s] = [i \in DOMAIN q |-> q[i].kind]]
  /\ at' = [at EXCEPT ![s] = "preflight"]
  /\ met' = met \cup {{s, t} : t \in {u \in chats \ {s} : at[u] = "preflight"}}
  /\ UNCHANGED <<chats, item, query, run, swarm, read, aborted, used>>

\* Mutant of Recorded: the query is not remembered.
RecordedNowhere(s) == used

\* A query has its 30 days once.
Recorded(s) == used \cup IF Deep \in ToSet(auto[s]) THEN {query[s]} ELSE {}

Plan(s) ==
  /\ at[s] = "preflight"
  /\ used' = Recorded(s)
  /\ GoesOn(s, <<Says("followup.plan")>>)
  /\ UNCHANGED <<chats, query, auto, swarm, aborted, met>>

-----------------------------------------------------------------------------
(* Follow-ups *)

\* Mutant of Unavailable: the outcome is told before the reason.
UnavailableFirst(k) == <<About("followup.failed", k), About("followup.summary", k)>>

\* failUnavailable().
Unavailable(k) == <<About("followup.summary", k), About("followup.failed", k)>>

\* executeSelected(): what the user selected may be out of reach here.
Begin(s) ==
  LET k == auto[s][1] IN
  /\ at[s] = "begin"
  /\ \/ GoesOn(s, <<>>)
     \/ /\ k # Deep
        /\ Checked(s, <<About("followup.started", k)>> \o Unavailable(k), "closed")
        /\ UNCHANGED <<run, item>>
  /\ UNCHANGED <<chats, query, auto, swarm, aborted, used, met>>

\* executeTargetedSweep().
AuditDone(s) ==
  /\ at[s] = "audit"
  /\ GoesOn(s, Told(s, <<About("followup.summary", Audit),
                         About("followup.completed", Audit)>>))
  /\ UNCHANGED <<chats, query, auto, swarm, aborted, used, met>>

\* The swarm the stream launched ends.
SwarmEnds(s, outcome) ==
  /\ at[s] \in {"poll", "sleep"} /\ swarm[s] = "running"
  /\ swarm' = [swarm EXCEPT ![s] = outcome]
  /\ UNCHANGED <<chats, at, item, query, auto, run, read, aborted, used, met>>

\* awaitSwarmTerminal(): the row and the counts of the swarm are there, or the
\* row is gone.
Poll(s) ==
  LET k == item[s] IN
  /\ at[s] = "poll"
  /\ \/ GoesOn(s, Unavailable(k))
     \/ /\ Writes(s, <<About("followup.step", k)>>,
                   IF swarm[s] = "running" THEN "sleep" ELSE "report")
        /\ UNCHANGED <<run, item>>
  /\ UNCHANGED <<chats, query, auto, swarm, aborted, used, met>>

\* The pause ends by itself or because the client left.
Wake(s) ==
  /\ at[s] = "sleep"
  /\ Heeded(s, <<>>, "poll")
  /\ UNCHANGED <<chats, query, auto, swarm, aborted, used, met>>

\* The report of the swarm was found, there is none to look for, or it is gone.
Report(s) ==
  LET k == item[s]
      outcome == <<About(IF swarm[s] = "done" THEN "followup.completed"
                         ELSE "followup.failed", k)>>
      summary == <<About("followup.summary", k)>>
  IN /\ at[s] = "report"
     /\ \E told \in {<<About("followup.finding", k)>> \o summary, summary, <<>>} :
          GoesOn(s, told \o outcome)
     /\ UNCHANGED <<chats, query, auto, swarm, aborted, used, met>>

\* The briefing over the turn and the follow-ups that were collected.
Brief(s) ==
  /\ at[s] = "briefing"
  /\ Checked(s, <<Says("briefing.complete"), Says("done")>>, "closed")
  /\ UNCHANGED <<chats, item, query, auto, run, swarm, aborted, used, met>>

-----------------------------------------------------------------------------
Advance(s) ==
  \/ Rejects(s)
  \/ Route(s)
  \/ Reply(s)
  \/ Pull(s)
  \/ Return(s)
  \/ Findings(s)
  \/ Summarise(s)
  \/ Candidate(s)
  \/ Plan(s)
  \/ Begin(s)
  \/ AuditDone(s)
  \/ Poll(s)
  \/ Wake(s)
  \/ Report(s)
  \/ Brief(s)

SwarmOver(s) == \E outcome \in {"done", "failed"} : SwarmEnds(s, outcome)
Settles(s) == \E outcome \in {"ok", "failed"} : Settle(s, outcome)

Next == \E s \in Streams : Advance(s) \/ Leave(s) \/ Emit(s) \/ Settles(s) \/ SwarmOver(s)

Spec == Init /\ [][Next]_vars

\* The runtime resumes a generator whose await has settled.  That each await does
\* settle, the models' answers, the cycle and the launch included, is assumed: the
\* code sets these calls no deadline.  A swarm need not end.
FairSpec ==
  /\ Spec
  /\ \A s \in Streams : WF_vars(Advance(s)) /\ WF_vars(Settles(s))

-----------------------------------------------------------------------------
(* Properties *)

\* What a stream has written is a beginning of what the client counts on: the
\* steps of a call in the order they were emitted, the events of a follow-up
\* between its start and its one outcome, nothing but done after an error, and
\* nothing after done.
WireIsInOrder == \A s \in Streams : read[s].turn # "lost"

\* When a stream has gone on from a pumped call, every step the call emitted was
\* written, also those it emitted while the stream was writing another.
StepsAllDelivered ==
  \A s \in Streams :
    (/\ run[s].call # "none" /\ ~aborted[s] /\ item[s] # Audit
     /\ at[s] # "pull")
       => run[s].call # "running" /\ read[s].steps = run[s].steps

\* For a client that is there the briefing is asked for only when every follow-up
\* of the plan has its outcome, and a client reads a briefing and done only then.
\* A briefing asked for after the client left may find a follow-up still running.
BriefingIsComplete ==
  \A s \in chats :
    ((at[s] = "briefing" /\ ~aborted[s]) \/ read[s].turn \in {"briefed", "over"})
      => ToSet(auto[s]) = read[s].ended

\* Two turns that ask the same research 30 days only when they were planning at
\* the same time: the signature is looked up before the preflights and recorded
\* after them.
SecondResearchOnlyByRace ==
  \A s, t \in chats :
    (/\ s # t /\ query[s] = query[t]
     /\ Deep \in read[s].ended \cup {read[s].of}
     /\ Deep \in read[t].ended \cup {read[t].of}) => {s, t} \in met

\* Once the client is gone nothing more is written, and no research, launch,
\* audit, poll, summary or plan is begun that was not under way.  What a turn may
\* still ask for is its briefing, when the follow-up it was in returned without a
\* word: the turn does not look at the signal again before it.
AbortStopsWork ==
  [][\A s \in Streams : aborted[s] =>
       /\ read'[s] = read[s]
       /\ \/ at'[s] \in {at[s], "closed"}
          \/ <<at[s], at'[s]>> \in {<<"pull", "findings">>, <<"plan", "preflight">>}
          \/ /\ s \in chats /\ item[s] # Turn /\ at'[s] = "briefing"
             /\ at[s] \in {"pull", "findings", "audit", "sleep"}
       /\ run'[s].call = "running" => run[s].call = "running"]_vars

\* A stream ends, or it polls for ever a swarm that stays open, for a client that
\* stays: the poll has no deadline.  The client's leaving ends it, whatever the
\* swarm does, and a cycle that finished before the pump waited is not waited for.
StreamEnds ==
  \A s \in Streams :
    \/ <>(at[s] = "closed")
    \/ <>[](at[s] \in {"poll", "sleep"} /\ swarm[s] = "running" /\ ~aborted[s])
=============================================================================

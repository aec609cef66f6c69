---------------------------- MODULE SwarmFanout ----------------------------
(***************************************************************************)
(* One sim swarm from launch to aggregation.                               *)
(*                                                                         *)
(* launchSwarm() (packages/sweep/src/sim/swarm.service.ts) writes one      *)
(* pending sim_run row per fish and activates as many of them as           *)
(* fishConcurrency allows.  Each activated fish is one BullMQ job whose    *)
(* worker drains the fish, closes its row and calls onFishComplete(),      *)
(* which activates more fish and, when every fish is accounted for, claims *)
(* the Redis gate and enqueues the aggregate job.  Every await of this     *)
(* code is a place where another process may run, so every step between    *)
(* two awaits is an action here, and what was read before an await is kept *)
(* in a variable of the process that read it.                              *)
(*                                                                         *)
(* Process 0 is the call of launchSwarm(); process f is the job of fish f. *)
(***************************************************************************)
EXTENDS Naturals, FiniteSets

CONSTANTS Size,         \* number of perturbations, hence of fish
          Concurrency,  \* SwarmConfig.fishConcurrency
          MaxFaults,    \* bound: failed calls and worker crashes
          MaxStalls,    \* BullMQ maxStalledCount: how often a job is rescued
          MaxAttempts,  \* attempts of the swarm-aggregate queue
          CanAbort      \* whether an operator may abort the swarm

ASSUME SizeAssumption == Size \in Nat \ {0}
ASSUME ConcurrencyAssumption == Concurrency \in Nat \ {0}
ASSUME BoundsAssumption == /\ MaxFaults \in Nat
                           /\ MaxStalls \in Nat
                           /\ MaxAttempts \in Nat \ {0}
                           /\ CanAbort \in BOOLEAN

VARIABLES
  swarmStatus,  \* sim_swarm.status, "absent" before the row is inserted
  fish,         \* sim_run.status of every fish, "absent" before createFish
  jobs,         \* ids of the swarm-fish jobs BullMQ has accepted
  stalls,       \* how often BullMQ has rescued the job of a fish
  gate,         \* the Redis key of RedisSwarmAggregateGate exists
  agg,          \* state of the job swarm-<id>-aggregate
  attempts,     \* attempts of that job made so far
  pc,           \* where each process is in the code
  slots,        \* the claim limit computed from the counts a process read
  todo,         \* fish a process has claimed and not yet enqueued
  outcome,      \* the status a fish worker is about to write
  late,         \* timed-out fish whose abandoned turn is still executing
  asked,        \* fish whose turn waits for a "done" the API has checked
  orphans,      \* checked status writes whose caller is gone
  aborted,      \* the swarm has been aborted
  cut,          \* the fish that existed when it was
  faults        \* failures so far

procVars == <<pc, slots, todo>>
queueVars == <<jobs, stalls>>
aggVars == <<gate, agg, attempts>>
abortVars == <<aborted, cut>>
turnVars == <<late, asked, orphans>>
vars == <<swarmStatus, fish, queueVars, aggVars, procVars, outcome, turnVars,
          abortVars, faults>>

Fish == 1..Size
Launcher == 0
Procs == 0..Size

Closed == {"done", "failed", "timeout"}
SwarmStatus == {"absent", "running", "done", "failed"}
FishStatus == {"absent", "pending", "running"} \cup Closed
AggState == {"none", "waiting", "active", "done", "failed"}
PC == {"idle", "insert", "reset", "create", "load", "drain", "played",
       "close", "write", "count", "claim", "enqueue", "account", "gate",
       "publish", "release", "end"}

WithStatus(S) == {f \in Fish : fish[f] \in S}

\* Where activatePendingFish() returns to: the end of launchSwarm(), or the
\* second half of onFishComplete().
AfterActivation(p) == IF p = Launcher THEN "end" ELSE "account"

Goto(p, label) == pc' = [pc EXCEPT ![p] = label]

TypeOK ==
  /\ swarmStatus \in SwarmStatus
  /\ fish \in [Fish -> FishStatus]
  /\ jobs \in SUBSET Fish
  /\ stalls \in [Fish -> Nat]
  /\ gate \in BOOLEAN
  /\ agg \in AggState
  /\ attempts \in Nat
  /\ pc \in [Procs -> PC]
  /\ slots \in [Procs -> Nat]
  /\ todo \in [Procs -> SUBSET Fish]
  /\ outcome \in [Fish -> Closed]
  /\ late \in SUBSET Fish
  /\ asked \in SUBSET Fish
  /\ orphans \in SUBSET (Fish \X Closed)
  /\ aborted \in BOOLEAN
  /\ cut \in SUBSET Fish
  /\ faults \in Nat

\* A key of an earlier swarm with the same id may have survived in Redis.
Init ==
  /\ swarmStatus = "absent"
  /\ fish = [f \in Fish |-> "absent"]
  /\ jobs = {}
  /\ stalls = [f \in Fish |-> 0]
  /\ gate \in BOOLEAN
  /\ agg = "none"
  /\ attempts = 0
  /\ pc = [p \in Procs |-> IF p = Launcher THEN "insert" ELSE "idle"]
  /\ slots = [p \in Procs |-> 0]
  /\ todo = [p \in Procs |-> {}]
  /\ outcome = [f \in Fish |-> "done"]
  /\ late = {}
  /\ asked = {}
  /\ orphans = {}
  /\ aborted = FALSE
  /\ cut = {}
  /\ faults = 0

-----------------------------------------------------------------------------
(* launchSwarm() *)

InsertSwarm ==
  /\ pc[Launcher] = "insert"
  /\ swarmStatus' = "running"
  /\ Goto(Launcher, "reset")
  /\ UNCHANGED <<fish, queueVars, aggVars, slots, todo, outcome, turnVars,
                 abortVars, faults>>

\* Mutant of ResetGate: the stale key of an earlier swarm is left in Redis.
ResetGateSkipped ==
  /\ pc[Launcher] = "reset"
  /\ Goto(Launcher, "create")
  /\ UNCHANGED <<swarmStatus, fish, queueVars, aggVars, slots, todo, outcome,
                 turnVars, abortVars, faults>>

ResetGate ==
  /\ pc[Launcher] = "reset"
  /\ gate' = FALSE
  /\ Goto(Launcher, "create")
  /\ UNCHANGED <<swarmStatus, fish, queueVars, agg, attempts, slots, todo,
                 outcome, turnVars, abortVars, faults>>

CreateFish(f) ==
  /\ pc[Launcher] = "create"
  /\ fish[f] = "absent"
  /\ \A g \in Fish : g < f => fish[g] # "absent"
  /\ fish' = [fish EXCEPT ![f] = "pending"]
  /\ Goto(Launcher, IF f = Size THEN "count" ELSE "create")
  /\ UNCHANGED <<swarmStatus, queueVars, aggVars, slots, todo, outcome,
                 turnVars, abortVars, faults>>

-----------------------------------------------------------------------------
(* activatePendingFish(), called by launchSwarm() and by onFishComplete() *)

\* countFishByStatus(), and the two early returns decided from its result.
ActivateCount(p) ==
  LET pending == Cardinality(WithStatus({"pending"}))
      running == Cardinality(WithStatus({"running"}))
  IN  /\ pc[p] = "count"
      /\ IF pending >= 1 /\ running < Concurrency
         THEN /\ slots' = [slots EXCEPT ![p] =
                             IF Concurrency - running < pending
                             THEN Concurrency - running ELSE pending]
              /\ Goto(p, "claim")
         ELSE /\ slots' = slots
              /\ Goto(p, AfterActivation(p))
      /\ UNCHANGED <<swarmStatus, fish, queueVars, aggVars, todo, outcome,
                     turnVars, abortVars, faults>>

\* Mutant of FirstPending: failed fish are offered for another try.
FirstPendingOrFailed(n) ==
  {f \in WithStatus({"pending", "failed"}) :
     Cardinality({g \in WithStatus({"pending", "failed"}) : g < f}) < n}

\* The n pending fish with the lowest fish_index.
FirstPending(n) ==
  {f \in WithStatus({"pending"}) :
     Cardinality({g \in WithStatus({"pending"}) : g < f}) < n}

\* claimPendingFishForSwarm(): one UPDATE over rows picked FOR UPDATE.  It
\* trusts the limit computed from counts that may have changed since.
ActivateClaim(p) ==
  LET picked == FirstPending(slots[p])
  IN  /\ pc[p] = "claim"
      /\ fish' = [f \in Fish |-> IF f \in picked THEN "running" ELSE fish[f]]
      /\ todo' = [todo EXCEPT ![p] = picked]
      /\ Goto(p, IF picked = {} THEN AfterActivation(p) ELSE "enqueue")
      /\ UNCHANGED <<swarmStatus, queueVars, aggVars, slots, outcome,
                     turnVars, abortVars, faults>>

\* enqueueSwarmFish(); BullMQ ignores an id it already holds.
ActivateEnqueue(p, f) ==
  /\ pc[p] = "enqueue"
  /\ f \in todo[p]
  /\ jobs' = jobs \cup {f}
  /\ todo' = [todo EXCEPT ![p] = @ \ {f}]
  /\ Goto(p, IF todo[p] = {f} THEN AfterActivation(p) ELSE "enqueue")
  /\ UNCHANGED <<swarmStatus, fish, stalls, aggVars, slots, outcome, turnVars,
                 abortVars, faults>>

Activate(p) ==
  \/ ActivateCount(p)
  \/ ActivateClaim(p)
  \/ \E f \in Fish : ActivateEnqueue(p, f)

-----------------------------------------------------------------------------
(* processSwarmFishJob() *)

\* A swarm-fish worker takes the job.
StartJob(f) ==
  /\ f \in jobs
  /\ pc[f] = "idle"
  /\ Goto(f, "load")
  /\ UNCHANGED <<swarmStatus, fish, queueVars, aggVars, slots, todo, outcome,
                 turnVars, abortVars, faults>>

\* getRun(): a fish that is not running is skipped, but the swarm is notified.
LoadRun(f) ==
  /\ pc[f] = "load"
  /\ Goto(f, IF fish[f] = "running" THEN "drain" ELSE "count")
  /\ UNCHANGED <<swarmStatus, fish, queueVars, aggVars, slots, todo, outcome,
                 turnVars, abortVars, faults>>

\* isLegalRunTransition() of PATCH /api/sim/runs/:id/status, through which
\* the worker processes write a row.  No action here makes a row "paused": only
\* the pause of a standalone run does, whose routes are not modelled.
IsLegalRunTransition(current, next) ==
  \/ current = next
  \/ current = "pending" /\ next \in {"running", "failed"}
  \/ current = "running" /\ next \in Closed \cup {"paused"}
  \/ current = "paused" /\ next \in {"running", "failed"}

\* A sequential turn that plays accept or reject asks the API to close the
\* row.  The route checks the transition first and writes later; a refusal
\* makes the turn throw, which is DrainFish or LateTurnEnds.
TerminalTurn(f) ==
  /\ pc[f] = "drain" \/ f \in late
  /\ f \notin asked
  /\ IsLegalRunTransition(fish[f], "done")
  /\ asked' = asked \cup {f}
  /\ UNCHANGED <<swarmStatus, fish, queueVars, aggVars, procVars, outcome,
                 late, orphans, abortVars, faults>>

\* The route writes the row; the result returns to the drain loop, or to
\* nobody when the timer has won.
TurnWrites(f) ==
  /\ f \in asked
  /\ fish' = [fish EXCEPT ![f] = "done"]
  /\ asked' = asked \ {f}
  /\ late' = late \ {f}
  /\ Goto(f, IF pc[f] = "drain" THEN "played" ELSE pc[f])
  /\ UNCHANGED <<swarmStatus, queueVars, aggVars, slots, todo, outcome,
                 orphans, abortVars, faults>>

\* The drain ends: every turn was played, or a turn threw.
DrainFish(f) ==
  /\ pc[f] \in {"drain", "played"}
  /\ f \notin asked
  /\ \E s \in {"done", "failed"} :
       /\ s = "failed" => pc[f] = "drain"
       /\ outcome' = [outcome EXCEPT ![f] = s]
  /\ Goto(f, "close")
  /\ UNCHANGED <<swarmStatus, fish, queueVars, aggVars, slots, todo, turnVars,
                 abortVars, faults>>

\* The timer wins the race.  The turn that lost it is not cancelled: it runs
\* on until it next looks at the signal.
TimeoutFish(f) ==
  /\ pc[f] \in {"drain", "played"}
  /\ outcome' = [outcome EXCEPT ![f] = "timeout"]
  /\ late' = IF pc[f] = "drain" THEN late \cup {f} ELSE late
  /\ Goto(f, "close")
  /\ UNCHANGED <<swarmStatus, fish, queueVars, aggVars, slots, todo, asked,
                 orphans, abortVars, faults>>

\* The abandoned turn ends without a terminal action, or throws.
LateTurnEnds(f) ==
  /\ f \in late \ asked
  /\ late' = late \ {f}
  /\ UNCHANGED <<swarmStatus, fish, queueVars, aggVars, procVars, outcome,
                 asked, orphans, abortVars, faults>>

\* updateRunStatus() rejects: after "done" the catch block tries "failed", or
\* "timeout" if the timer has fired by then; inside the catch block nothing is
\* tried again, only the finally runs.
CloseRejected(f) ==
  /\ \E s \in {"failed", "timeout"} : outcome' = [outcome EXCEPT ![f] = s]
  /\ Goto(f, IF outcome[f] = "done" THEN "close" ELSE "count")

\* The route checks the transition the worker asks for.
CloseFish(f) ==
  /\ pc[f] = "close"
  /\ IF IsLegalRunTransition(fish[f], outcome[f])
     THEN Goto(f, "write") /\ UNCHANGED outcome
     ELSE CloseRejected(f)
  /\ UNCHANGED <<swarmStatus, fish, queueVars, aggVars, slots, todo, turnVars,
                 abortVars, faults>>

\* The route writes the row, whatever it holds by now.
WriteFish(f) ==
  /\ pc[f] = "write"
  /\ fish' = [fish EXCEPT ![f] = outcome[f]]
  /\ Goto(f, "count")
  /\ UNCHANGED <<swarmStatus, queueVars, aggVars, slots, todo, outcome,
                 turnVars, abortVars, faults>>

-----------------------------------------------------------------------------
(* onFishComplete(), after activatePendingFish() *)

\* Mutant of Accounted: running fish are counted too.
AccountedOrRunning ==
  Cardinality(WithStatus(Closed \cup {"running"})) >= Size

\* accounted = done + failed + timeout, against sim_swarm.size.
Accounted == Cardinality(WithStatus(Closed)) >= Size

AccountFish(f) ==
  /\ pc[f] = "account"
  /\ Goto(f, IF Accounted THEN "gate" ELSE "end")
  /\ UNCHANGED <<swarmStatus, fish, queueVars, aggVars, slots, todo, outcome,
                 turnVars, abortVars, faults>>

\* SET key NX of the aggregate gate.
ClaimGate(f) ==
  /\ pc[f] = "gate"
  /\ gate' = TRUE
  /\ Goto(f, IF gate THEN "end" ELSE "publish")
  /\ UNCHANGED <<swarmStatus, fish, queueVars, agg, attempts, slots, todo,
                 outcome, turnVars, abortVars, faults>>

AddAggregateJob == agg' = IF agg = "none" THEN "waiting" ELSE agg

PublishAggregate(f) ==
  /\ pc[f] = "publish"
  /\ AddAggregateJob
  /\ Goto(f, "end")
  /\ UNCHANGED <<swarmStatus, fish, queueVars, gate, attempts, slots, todo,
                 outcome, turnVars, abortVars, faults>>

ReleaseGate(f) ==
  /\ pc[f] = "release"
  /\ gate' = FALSE
  /\ Goto(f, "end")
  /\ UNCHANGED <<swarmStatus, fish, queueVars, agg, attempts, slots, todo,
                 outcome, turnVars, abortVars, faults>>

-----------------------------------------------------------------------------
(* The swarm-aggregate worker and the operator *)

StartAggregate ==
  /\ agg = "waiting"
  /\ agg' = "active"
  /\ attempts' = attempts + 1
  /\ UNCHANGED <<swarmStatus, fish, queueVars, gate, procVars, outcome,
                 turnVars, abortVars, faults>>

\* closeSwarm() with the status the outcome resolver computed.
CloseSwarm ==
  /\ agg = "active"
  /\ agg' = "done"
  /\ swarmStatus' \in {"done", "failed"}
  /\ UNCHANGED <<fish, queueVars, gate, attempts, procVars, outcome, turnVars,
                 abortVars, faults>>

\* Mutant of AbortSwarm: pending fish are forgotten by the cascade.
AbortSwarmRunningOnly ==
  /\ CanAbort
  /\ ~aborted
  /\ swarmStatus # "absent"
  /\ swarmStatus' = "failed"
  /\ fish' = [f \in Fish |-> IF fish[f] = "running" THEN "failed" ELSE fish[f]]
  /\ aborted' = TRUE
  /\ cut' = Fish \ WithStatus({"absent"})
  /\ UNCHANGED <<queueVars, aggVars, procVars, outcome, turnVars, faults>>

\* abortSwarm(): the swarm and its open fish fail in one transaction.
AbortSwarm ==
  /\ CanAbort
  /\ ~aborted
  /\ swarmStatus # "absent"
  /\ swarmStatus' = "failed"
  /\ fish' = [f \in Fish |-> IF fish[f] \in {"pending", "running"}
                             THEN "failed" ELSE fish[f]]
  /\ aborted' = TRUE
  /\ cut' = Fish \ WithStatus({"absent"})
  /\ UNCHANGED <<queueVars, aggVars, procVars, outcome, turnVars, faults>>

-----------------------------------------------------------------------------
(* Failures: a store, Redis or queue call rejects, or a worker dies *)

Fault ==
  /\ faults < MaxFaults
  /\ faults' = faults + 1

\* The exception leaves launchSwarm() or onFishComplete(); fish that were
\* claimed and not yet enqueued are forgotten.  At "create" it leaves fewer
\* rows than sim_swarm.size.
CallFails(p) ==
  /\ Fault
  /\ pc[p] \in {"insert", "reset", "create", "count", "claim", "enqueue",
                "account", "gate", "release"}
  /\ todo' = [todo EXCEPT ![p] = {}]
  /\ Goto(p, "end")
  /\ UNCHANGED <<swarmStatus, fish, queueVars, aggVars, slots, outcome,
                 turnVars, abortVars>>

\* getRun() rejects: the catch block closes the fish as failed.
LoadFails(f) ==
  /\ Fault
  /\ pc[f] = "load"
  /\ outcome' = [outcome EXCEPT ![f] = "failed"]
  /\ Goto(f, "close")
  /\ UNCHANGED <<swarmStatus, fish, queueVars, aggVars, slots, todo, turnVars,
                 abortVars>>

\* updateRunStatus() rejects without an answer of the route, which may have
\* passed the check and be about to write.
CloseFails(f) ==
  /\ Fault
  /\ pc[f] \in {"close", "write"}
  /\ \/ UNCHANGED orphans
     \/ pc[f] = "write" /\ orphans' = orphans \cup {<<f, outcome[f]>>}
  /\ CloseRejected(f)
  /\ UNCHANGED <<swarmStatus, fish, queueVars, aggVars, slots, todo, late,
                 asked, abortVars>>

\* The same in the terminal write of a turn, which throws.
TurnFails(f) ==
  /\ Fault
  /\ f \in asked
  /\ asked' = asked \ {f}
  /\ orphans' \in {orphans, orphans \cup {<<f, "done">>}}
  /\ late' = late \ {f}
  /\ IF pc[f] = "drain"
     THEN Goto(f, "close") /\ outcome' = [outcome EXCEPT ![f] = "failed"]
     ELSE UNCHANGED <<pc, outcome>>
  /\ UNCHANGED <<swarmStatus, fish, queueVars, aggVars, slots, todo,
                 abortVars>>

\* The route finishes a write nobody waits for.
OrphanWrites(f, s) ==
  /\ <<f, s>> \in orphans
  /\ fish' = [fish EXCEPT ![f] = s]
  /\ orphans' = orphans \ {<<f, s>>}
  /\ UNCHANGED <<swarmStatus, queueVars, aggVars, procVars, outcome, late,
                 asked, abortVars, faults>>

\* enqueueSwarmAggregate() rejects, before or after Redis accepted the job.
PublishFails(f) ==
  /\ Fault
  /\ pc[f] = "publish"
  /\ \/ AddAggregateJob
     \/ UNCHANGED agg
  /\ Goto(f, "release")
  /\ UNCHANGED <<swarmStatus, fish, queueVars, gate, attempts, slots, todo,
                 outcome, turnVars, abortVars>>

\* The worker process dies; the writes it asked for go on.  BullMQ finds the
\* job stalled and hands it out again from the start, or fails it after
\* MaxStalls rescues.
WorkerDies(f) ==
  /\ Fault
  /\ pc[f] \notin {"idle", "end"}
  /\ stalls' = [stalls EXCEPT ![f] = @ + 1]
  /\ Goto(f, IF stalls[f] < MaxStalls THEN "idle" ELSE "end")
  /\ todo' = [todo EXCEPT ![f] = {}]
  /\ late' = late \ {f}
  /\ asked' = asked \ {f}
  /\ orphans' = orphans \cup {w \in {f} \X Closed :
                                \/ f \in asked /\ w[2] = "done"
                                \/ pc[f] = "write" /\ w[2] = outcome[f]}
  /\ UNCHANGED <<swarmStatus, fish, jobs, aggVars, slots, outcome, abortVars>>

\* An attempt of the aggregate job throws.
AggregateFails ==
  /\ Fault
  /\ agg = "active"
  /\ agg' = IF attempts < MaxAttempts THEN "waiting" ELSE "failed"
  /\ UNCHANGED <<swarmStatus, fish, queueVars, gate, attempts, procVars,
                 outcome, turnVars, abortVars>>

-----------------------------------------------------------------------------
Launch == InsertSwarm \/ ResetGate \/ \E f \in Fish : CreateFish(f)

Worker(f) ==
  LoadRun(f) \/ DrainFish(f) \/ TimeoutFish(f) \/ CloseFish(f) \/ WriteFish(f)

OnFishComplete(f) ==
  AccountFish(f) \/ ClaimGate(f) \/ PublishAggregate(f) \/ ReleaseGate(f)

\* The turns of a fish, which nobody waits for once the timer has won.
Turn(f) == TerminalTurn(f) \/ TurnWrites(f) \/ LateTurnEnds(f)

Failure ==
  \/ \E p \in Procs : CallFails(p)
  \/ \E f \in Fish : \/ LoadFails(f) \/ CloseFails(f) \/ PublishFails(f)
                     \/ WorkerDies(f) \/ TurnFails(f)
                     \/ \E s \in Closed : OrphanWrites(f, s)
  \/ AggregateFails

Next ==
  \/ Launch
  \/ \E p \in Procs : Activate(p)
  \/ \E f \in Fish : StartJob(f) \/ Worker(f) \/ OnFishComplete(f) \/ Turn(f)
  \/ StartAggregate
  \/ CloseSwarm
  \/ AbortSwarm
  \/ Failure

Spec == Init /\ [][Next]_vars

\* Node runs every continuation, BullMQ hands every waiting job to a worker,
\* and the timer of the fish worker bounds the drain.
Fairness ==
  /\ WF_vars(Launch)
  /\ \A p \in Procs : WF_vars(Activate(p))
  /\ \A f \in Fish : /\ WF_vars(StartJob(f))
                     /\ WF_vars(Worker(f))
                     /\ WF_vars(OnFishComplete(f))
  /\ WF_vars(StartAggregate)
  /\ WF_vars(CloseSwarm)

FairSpec == Spec /\ Fairness

-----------------------------------------------------------------------------
(* Properties *)

\* The aggregate job exists only when every fish of the swarm is closed, and
\* no later write reopens one: what the resolver reads is complete.
\* (onFishComplete() against activatePendingFish(), abort and late turns.)
AggregateOnlyWhenAllClosed ==
  agg # "none" => \A f \in Fish : fish[f] \in Closed

\* At most one completion is between claiming the gate and publishing the
\* aggregate job or giving the gate back, and the key is set meanwhile.
GateHeldByOne ==
  \A f, g \in Fish :
    pc[f] \in {"publish", "release"} /\ pc[g] \in {"publish", "release"}
      => f = g /\ gate

\* As long as nothing fails, a fish whose row says running is on its way: a
\* process is about to enqueue it, or its job is waiting or has not yet
\* written the row.  (No row is claimed and then lost between the SQL claim
\* and the BullMQ job.)
NoFishForgotten ==
  faults = 0 =>
    \A f \in Fish : fish[f] = "running" =>
      \/ \E p \in Procs : pc[p] = "enqueue" /\ f \in todo[p]
      \/ f \in jobs /\ pc[f] \in {"idle", "load", "drain", "played", "close",
                              "write"}

\* Aborting is final for the fish that existed then: none of them is pending
\* or running again, whatever its worker, a retry or a late turn still does.
AbortIsFinal == \A f \in cut : fish[f] \in Closed

\* Without failures every launched swarm ends, whoever finishes last: each fish
\* was played and closed, whichever completion found the slot for it, since the
\* aggregate that ends the swarm waits for all of them.
SwarmCloses ==
  (swarmStatus = "running") ~> (swarmStatus \in {"done", "failed"})

\* The swarm keeps the promise of SwarmPromise, failures and aborts included.
Phase(f) == IF fish[f] \in {"absent", "pending"} THEN "waiting"
            ELSE IF fish[f] = "running" THEN "playing" ELSE "settled"

Promise == INSTANCE SwarmPromise
             WITH phase <- [f \in Fish |-> Phase(f)], reported <- agg # "none"

KeepsPromise == Promise!Spec
=============================================================================

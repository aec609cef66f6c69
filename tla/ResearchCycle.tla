---------------------------- MODULE ResearchCycle ----------------------------
(***************************************************************************)
(* One call of ThalamusService.runCycle(): plan, then iterations of        *)
(* CycleLoopRunner.run() (execute the DAG, weigh the findings, reflect,    *)
(* replan) until a stop condition, then the findings are stored and the    *)
(* row of the cycle is completed.                                          *)
(***************************************************************************)
EXTENDS DagExecutor, Sequences

CONSTANTS
  Plans,     \* what the planner may return, NoPlan apart
  MaxIters,  \* iteration budgets of the run
  MaxCost,   \* the cost at which the loop stops
  Gaps,      \* signatures of the gaps a reflexion may name
  NoGaps     \* the empty signature

ASSUME CycleAssumption ==
  /\ Plans \subseteq MapsTo(SUBSET Cortices)
  /\ IsFiniteSet(Cortices)
  /\ MaxIters \subseteq Nat
  /\ MaxCost \in Nat

ZeroStop == 2  \* THALAMUS_CONFIG.loop.consecutiveZeroStop
GapStop == 2   \* GAP_PLATEAU_STOP

VARIABLES
  pc,          \* the await the call is at
  row,         \* research_cycle.status; "orphan": running, its id never seen
  maxIter,
  iteration,
  cost,        \* totalCost, saturated at MaxCost
  total,       \* findings kept: allFindings.length
  zeroRuns,    \* consecutiveZeroRuns
  lastGaps,    \* lastGapSignature
  sameGaps,    \* consecutiveIdenticalGaps
  stopReason,
  stored,      \* findings persist() stored
  failed,      \* findings it did not
  found,       \* history: findings kept, per iteration
  gapsSeen,    \* history: the signature of every replan asked for
  abortedAt    \* history: the await the abort came at

loopVars == <<maxIter, iteration, cost, total, zeroRuns, lastGaps, sameGaps,
              stopReason, found, gapsSeen>>
vars == <<dagVars, aborted, pc, row, loopVars, stored, failed, abortedAt>>

Ended == {"returned", "threw", "gaveup"}
InLoop == {"execute", "reflect", "replan"}
Awaits == InLoop \cup {"plan", "create", "config", "persist", "read", "failing"}
BeforePersist == InLoop \cup {"idle", "plan", "create", "config"}
Reasons == {"completed", "consecutive-zero-runs", "cost-exhausted",
            "eagerness-satisfied", "reflexion_sufficient", "gap-plateau",
            "max-iterations"}

TypeOK ==
  /\ DagTypeOK
  /\ pc \in Awaits \cup Ended \cup {"idle"}
  /\ row \in {"none", "orphan", "running", "completed", "failed"}
  /\ maxIter \in Nat /\ iteration \in 0..maxIter
  /\ cost \in 0..MaxCost
  /\ total \in Nat /\ found \in Seq(Nat)
  /\ zeroRuns \in 0..ZeroStop
  /\ lastGaps \in Gaps \cup {NoGaps}
  /\ sameGaps \in 0..GapStop
  /\ stopReason \in Reasons
  /\ stored \in Nat /\ failed \in Nat
  /\ gapsSeen \in Seq(Gaps \cup {NoGaps})
  /\ abortedAt \in Awaits \cup Ended \cup {"idle", "no"}

Init ==
  /\ DagInit
  /\ pc = "idle" /\ row = "none"
  /\ maxIter = 0 /\ iteration = 0 /\ cost = 0
  /\ total = 0 /\ found = <<>> /\ zeroRuns = 0
  /\ lastGaps = NoGaps /\ sameGaps = 0
  /\ stopReason = "completed"
  /\ stored = 0 /\ failed = 0
  /\ gapsSeen = <<>> /\ abortedAt = "no"

-----------------------------------------------------------------------------
(* Before the loop *)

Await(from, to) == pc = from /\ pc' = to

RunCycle ==
  /\ Await("idle", IF aborted THEN "threw" ELSE "plan")
  /\ UNCHANGED <<dagVars, aborted, row, loopVars, stored, failed, abortedAt>>

\* resolvePlan() has answered.
PlanMade ==
  /\ \E p \in Plans \cup {NoPlan} :
       /\ plan' = p
       /\ Await("plan", IF aborted \/ p = NoPlan THEN "threw" ELSE "create")
  /\ UNCHANGED <<exec, at, outputs, upstream, aborted, row, loopVars, stored,
                 failed, abortedAt>>

PlanRejects ==
  /\ Await("plan", "threw")
  /\ UNCHANGED <<dagVars, aborted, row, loopVars, stored, failed, abortedAt>>

Created ==
  /\ Await("create", "config")
  /\ row' = "running"
  /\ UNCHANGED <<dagVars, aborted, loopVars, stored, failed, abortedAt>>

\* The insert fails, or is done and its answer lost.
CreateFails ==
  /\ Await("create", "threw")
  /\ row' \in {"none", "orphan"}
  /\ UNCHANGED <<dagVars, aborted, loopVars, stored, failed, abortedAt>>

-----------------------------------------------------------------------------
(* CycleLoopRunner.run() *)

\* Mutant of Leave: no throwIfAborted().
LeaveBlind(reason) == stopReason' = reason /\ pc' = "persist"

\* What follows the loop: throwIfAborted(), then persist().
Leave(reason) ==
  /\ stopReason' = reason
  /\ pc' = IF aborted THEN "failing" ELSE "persist"

\* The head of the loop, with the plan to run.
LoopHead(p, budget) ==
  IF iteration >= budget
  THEN /\ Leave("max-iterations")
       /\ UNCHANGED <<dagVars, iteration>>
  ELSE /\ UNCHANGED stopReason
       /\ IF aborted
          THEN pc' = "failing" /\ UNCHANGED <<dagVars, iteration>>
          ELSE pc' = "execute" /\ iteration' = iteration + 1 /\ Execute(p)

BudgetRead ==
  /\ pc = "config"
  /\ maxIter' \in MaxIters
  /\ LoopHead(plan, maxIter')
  /\ UNCHANGED <<aborted, row, cost, total, zeroRuns, lastGaps, sameGaps,
                 found, gapsSeen, stored, failed, abortedAt>>

BudgetFails ==
  /\ Await("config", "failing")
  /\ UNCHANGED <<dagVars, aborted, row, loopVars, stored, failed, abortedAt>>

\* execute() has thrown, or throwIfAborted() after it.
ExecutionThrew ==
  /\ exec = "threw" \/ (exec = "done" /\ aborted)
  /\ Await("execute", "failing")
  /\ Forget
  /\ UNCHANGED <<plan, aborted, row, loopVars, stored, failed, abortedAt>>

\* shouldStop(), the reflexion of an empty round and the end of the last
\* iteration: why the loop ends now, or "completed" if it goes on.  Eagerness
\* is a choice: its thresholds are the operator's.
Decision(zeros, spent, raw, eager) ==
  CASE zeros >= ZeroStop -> "consecutive-zero-runs"
    [] zeros < ZeroStop /\ spent >= MaxCost -> "cost-exhausted"
    [] zeros < ZeroStop /\ spent < MaxCost ->
         IF sameGaps >= GapStop THEN "gap-plateau"
         ELSE IF eager THEN "eagerness-satisfied"
         ELSE IF iteration >= maxIter THEN "max-iterations"
         ELSE IF raw = 0 THEN "reflexion_sufficient"
         ELSE "completed"

Bringing(o) == Cardinality({c \in DOMAIN outputs : outputs[c] = o})

\* Mutant of Zeros: the count is never reset.
ZerosForever(kept) == IF kept = 0 THEN zeroRuns + 1 ELSE zeroRuns

\* consecutiveZeroRuns after a round.
Zeros(kept) == IF kept = 0 THEN zeroRuns + 1 ELSE 0

\* totalCost after a round; a failed cortex reports no tokens.
Spent(c) == IF cost + c > MaxCost THEN MaxCost ELSE cost + c

\* From the end of execute() to the next await.
Evaluate ==
  /\ pc = "execute" /\ exec = "done" /\ ~aborted
  /\ Forget
  /\ \E c \in 0..Cardinality({d \in DOMAIN plan : at[d] # "rejected"}),
        eager \in BOOLEAN :
       LET kept == Bringing("kept")
           reason == Decision(Zeros(kept), Spent(c), kept + Bringing("low"), eager)
       IN  /\ cost' = Spent(c)
           /\ total' = total + kept
           /\ found' = Append(found, kept)
           /\ zeroRuns' = Zeros(kept)
           /\ IF reason # "completed" THEN Leave(reason)
              ELSE pc' = "reflect" /\ UNCHANGED stopReason
  /\ UNCHANGED <<plan, aborted, row, maxIter, iteration, lastGaps, sameGaps,
                 gapsSeen, stored, failed, abortedAt>>

\* reflexion.evaluate() has answered that the findings will do; so it answers
\* when its model fails.
Sufficient ==
  /\ pc = "reflect" /\ ~aborted
  /\ Leave("reflexion_sufficient")
  /\ UNCHANGED <<dagVars, aborted, row, maxIter, iteration, cost, total, found,
                 zeroRuns, lastGaps, sameGaps, gapsSeen, stored, failed, abortedAt>>

\* Mutant of SameGaps: set, never incremented.
SameGapsOnce(g) == IF g # NoGaps /\ g = lastGaps THEN 1 ELSE 0

\* consecutiveIdenticalGaps after a reflexion.
SameGaps(g) == IF g # NoGaps /\ g = lastGaps THEN sameGaps + 1 ELSE 0

\* It has asked for a replan.
Insufficient ==
  /\ pc = "reflect" /\ ~aborted
  /\ \E g \in Gaps \cup {NoGaps} :
       /\ gapsSeen' = Append(gapsSeen, g)
       /\ lastGaps' = g
       /\ sameGaps' = SameGaps(g)
       /\ IF SameGaps(g) >= GapStop THEN Leave("gap-plateau")
          ELSE pc' = "replan" /\ UNCHANGED stopReason
  /\ UNCHANGED <<dagVars, aborted, row, maxIter, iteration, cost, total, found,
                 zeroRuns, stored, failed, abortedAt>>

Replanned ==
  /\ pc = "replan" /\ ~aborted
  /\ \E p \in Plans \cup {NoPlan} : LoopHead(p, maxIter)
  /\ UNCHANGED <<aborted, row, maxIter, cost, total, found, zeroRuns, lastGaps,
                 sameGaps, gapsSeen, stored, failed, abortedAt>>

\* evaluate() and plan() swallow every error but those that look like aborts;
\* an answer that comes after an abort meets throwIfAborted().
AbortError ==
  /\ pc \in {"reflect", "replan"}
  /\ pc' = "failing"
  /\ UNCHANGED <<dagVars, aborted, row, loopVars, stored, failed, abortedAt>>

-----------------------------------------------------------------------------
(* After the loop *)

\* storeFinding() of the next finding; a failure is counted and swallowed.
StoreOne ==
  /\ pc = "persist" /\ stored + failed < total
  /\ \/ stored' = stored + 1 /\ UNCHANGED failed
     \/ failed' = failed + 1 /\ UNCHANGED stored
  /\ UNCHANGED <<dagVars, aborted, pc, row, loopVars, abortedAt>>

AllTried == stored + failed = total

Complete ==
  /\ AllTried
  /\ Await("persist", "read")
  /\ row' = "completed"
  /\ UNCHANGED <<dagVars, aborted, loopVars, stored, failed, abortedAt>>

\* The update fails, or is done and its answer lost.
CompleteFails ==
  /\ AllTried
  /\ Await("persist", "failing")
  /\ row' \in {"running", "completed"}
  /\ UNCHANGED <<dagVars, aborted, loopVars, stored, failed, abortedAt>>

Read ==
  /\ Await("read", "returned")
  /\ UNCHANGED <<dagVars, aborted, row, loopVars, stored, failed, abortedAt>>

ReadFails ==
  /\ Await("read", "failing")
  /\ UNCHANGED <<dagVars, aborted, row, loopVars, stored, failed, abortedAt>>

\* Mutant of FailRow: a row that is completed stays so.
FailRowUnlessCompleted ==
  /\ Await("failing", "threw")
  /\ row' = IF row = "running" THEN "failed" ELSE row
  /\ UNCHANGED <<dagVars, aborted, loopVars, stored, failed, abortedAt>>

\* The catch block.
FailRow ==
  /\ Await("failing", "threw")
  /\ row' = "failed"
  /\ UNCHANGED <<dagVars, aborted, loopVars, stored, failed, abortedAt>>

\* The error of the update takes the place of the one caught.
FailRowFails ==
  /\ Await("failing", "gaveup")
  /\ row' \in {row, "failed"}
  /\ UNCHANGED <<dagVars, aborted, loopVars, stored, failed, abortedAt>>

-----------------------------------------------------------------------------
(* Specification *)

cycleVars == <<pc, row, loopVars, stored, failed, abortedAt>>

\* A step of execute() that needs no answer of a cortex.
DagProgress ==
  /\ \/ \E c \in Cortices : ConfigRead(c) \/ ConfigFails(c) \/ TimesOut(c)
     \/ LevelEnds
  /\ UNCHANGED <<cycleVars, aborted>>

Answer == (\E c \in Cortices : CortexAnswers(c)) /\ UNCHANGED <<cycleVars, aborted>>

\* The caller aborts.
Abort ==
  /\ pc # "idle"
  /\ SignalAborts
  /\ abortedAt' = pc
  /\ UNCHANGED <<pc, row, loopVars, stored, failed>>

Progress ==
  \/ PlanMade \/ PlanRejects \/ Created \/ CreateFails
  \/ BudgetRead \/ BudgetFails
  \/ DagProgress \/ ExecutionThrew \/ Evaluate
  \/ Sufficient \/ Insufficient \/ Replanned \/ AbortError
  \/ StoreOne \/ Complete \/ CompleteFails \/ Read \/ ReadFails
  \/ FailRow \/ FailRowFails

Next == Progress \/ RunCycle \/ Answer \/ Abort

\* Every await but those of cortices settles: the database and the model
\* answer or fail, timers fire.
Spec == Init /\ [][Next]_vars /\ WF_vars(Progress)

-----------------------------------------------------------------------------
(* Properties *)

Last(s, n) == s[Len(s) - n + 1]

NoneInTwo == Len(found) >= 2 /\ Last(found, 1) = 0 /\ Last(found, 2) = 0

Plateau ==
  /\ Len(gapsSeen) >= 3
  /\ Last(gapsSeen, 1) # NoGaps
  /\ Last(gapsSeen, 1) = Last(gapsSeen, 2)
  /\ Last(gapsSeen, 2) = Last(gapsSeen, 3)

\* The reason the loop gives is true of its history (shouldStop, run()).
StopReasonHolds ==
  /\ stopReason = "consecutive-zero-runs" => NoneInTwo
  /\ stopReason = "cost-exhausted" => cost >= MaxCost
  /\ stopReason = "gap-plateau" => Plateau
  /\ stopReason = "max-iterations" => iteration = maxIter

\* And a loop that goes on has no such reason: a round after the first starts
\* below the cost limit, never after two empty rounds or a plateau (run()).
LoopStops ==
  pc \in InLoop =>
    /\ iteration > 1 \/ pc # "execute" => cost < MaxCost
    /\ ~NoneInTwo /\ ~Plateau

\* Once the signal is aborted nothing new is started: no node of the plan, no
\* round, no reflexion, no plan; only nodes that were reading their
\* configuration and calls after the loop go on (throwIfAborted).
QuietAfterAbort ==
  [][aborted =>
       /\ \A c \in Cortices : at[c] = "waiting" => at'[c] = "waiting"
       /\ iteration' = iteration
       /\ pc' \in {"reflect", "replan", "persist"} => pc' = pc]_vars

\* An abort that comes before the findings are being stored keeps them all out
\* and the row from "completed", whatever else happens (runCycle).
AbortIsHeeded ==
  abortedAt \in BeforePersist => row # "completed" /\ stored = 0

\* A completed row means that every finding kept was tried, and only a loop
\* that ended with a reason gets there (persist).
CompletedMeansAllTried ==
  row = "completed" => stored + failed = total /\ stopReason # "completed"

\* The caller's outcome and the row agree unless the update of the catch block
\* itself fails: a result means completed, an error never leaves a completed
\* row, nor a running one whose id the call has seen (the catch block).
RowTellsOutcome ==
  /\ pc = "returned" => row = "completed"
  /\ pc = "threw" => row \in {"none", "orphan", "failed"}

\* A call ends: neither a silent cortex nor any error holds it forever.
CycleEnds == pc = "plan" ~> pc \in Ended
=============================================================================

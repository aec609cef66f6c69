# Verification of the Thalamus / Sweep console

TLA+ models of the concurrent core of this repository, the TLC runs that check
them on small instances, and the theorems about them that TLAPS checks for
every value of their constants.  `PROJECT.json` says which definition models
which lines; this file says why the models look the way they do.

## 1. The system

A Fastify server (`apps/console-api`) and one or more BullMQ worker processes
(`apps/console-api/src/sim-workers.ts`) share one Postgres database and one
Redis.  The workers reach the tables of the simulation through the HTTP routes
of the server (`SimRuntimeStoreHttpAdapter` in `sim-workers.ts`).  Nothing else synchronises them: **every `await` is a place
where another process may run**, and the only atomic steps are one SQL
statement or transaction, one Redis command or Lua script, and the synchronous
code between two awaits.  The models follow that rule: one action per step
between two awaits, and what a process read before an await is a variable of
its own afterwards.

### Inventory

| Component | State | Operations | Talks to |
|---|---|---|---|
| Swarm service (`packages/sweep/src/sim/swarm.service.ts`) | rows `sim_swarm`, `sim_run` | `launchSwarm`, `activatePendingFish`, `onFishComplete`, `abort`, `status` | swarm-fish queue, aggregate gate, aggregate queue |
| Aggregate gate (`swarm-aggregate-gate.ts`) | one Redis key per swarm, 7 days | `claim`, `release`, `reset` | - |
| Fish worker (`jobs/workers/swarm-fish.worker.ts`) | its job | load, drain turns, time out, close, notify | turn runners, swarm service |
| Aggregate worker (`jobs/workers/swarm-aggregate.worker.ts`) | its job, 2 attempts | resolve the outcome, emit a suggestion, close the swarm | aggregator, sweep repository |
| Turn runners (`turn-runner-*.ts`) | turns, memories | one turn: ask the agents, persist, maybe end the run | LLMs |
| Orchestrator (`sim-orchestrator.service.ts`) and sim-turn worker | rows `sim_run`, `sim_agent`, `sim_turn`; sim-turn jobs | `startStandalone`, `createFish`, `scheduleNext`, `pause`, `resume`, `inject` | sim-turn queue |
| Sweep repository (`repositories/sweep.repository.ts`) | a Redis hash per suggestion, ranked indexes, feedback list | insert, list, `review`, `updateResolution`, resolution lock | - |
| Sweep resolution (`sweep-resolution.service.ts`) | the lock | `resolve`, `resolveLoaded` | repository, handlers, promotion |
| Handlers and promotion (`agent/ssa/sweep/*.ssa.ts`) | catalogue tables, audit, knowledge graph | one handler per action kind | Postgres, enrichment queue |
| Mission (`mission.service.ts`) | timer, cursor, counters in memory | `start`, `stop`, tick | planner, worker, fill writer |
| Autonomy (`autonomy.service.ts`, `spend-ledger.ts`) | timer, rotation, ledger in memory | `start`, `stop`, tick, `resetSpend` | cycle runner |
| Research cycle (`thalamus.service.ts`, `cycle-loop.service.ts`, `stop-criteria.service.ts`) | `research_cycle` row, loop variables | run, iterate, reflect, replan, stop | planner, executor, persister |
| Planner (`thalamus-planner.service.ts`) | the DAGs of the daemon jobs | `plan`, `getDaemonDag`, `finalizePlan`, `buildManualDag` | LLM, runtime configuration |
| DAG executor (`thalamus-executor.service.ts`, `dag-validation.ts`) | outputs of a run | validate, levels, execute with timeout | cortices |
| Finding store (`finding-store.service.ts`) | findings, edges, junction, counters | store, merge, link | embedder, Postgres |
| Chat streams (`repl-chat.service.ts`, `repl.controller.ts`, `agent/ssa/followup/*`, `cycle-stream-pump.service.ts`) | one stream per request, the queries that had their research | `handleStream`, `plan`, `executeAutoLaunched`, `executeSelected`, `pump` | research cycle, swarms, LLMs, the console |
| Console turn (`apps/console/src/features/repl/*`) | controllers by key, turn and follow-ups in React state | `sendTurn`, `runFollowUp`, `cancelTurn`, the reducers | chat streams |
| Temporal services, reflexion, views, runtime configuration, CLI, other UI | - | request handlers | the above |

### What is hard, and what makes each part correct

* *Swarms.*  Any number of completions run at once, each deciding from counts it
  read earlier.  Correct means: the aggregate is ordered once and only over a
  complete set of closed fish; no fish is played after it has been settled; no
  fish and no swarm is forgotten.
* *Resolution.*  Reviewers, retries and crashes meet at one Redis lock with a
  TTL.  Correct means: a token leaves the lock only through its holder or the
  TTL, nothing is applied before a review, what is terminal was promoted, no
  lock and no accepted suggestion is left behind.
* *Mission and autonomy.*  `start()`, `stop()` and the interval overlap the awaits of
  a tick.  Correct means: no task twice, every task counted once, one tick at a time,
  a bounded overspend, a stop that is nearly immediate and says why.
* *Research cycle.*  Parallel nodes race with timeouts and an abort; counters that are
  reset and compared at different places end the loop.  Correct means: a level waits for
  what it needs and one failure costs one output, the loop stops when it should and for
  the reason it gives, an abort stops everything that was not begun, and the row agrees
  with what the caller is told.
* *Planner.*  Three filters drop, add and rewire nodes.  Correct means: a plan that can be
  executed still can, a node that stays waits for exactly those of its dependencies that stay, and
  the operator's settings hold.
* *Ranked indexes.*  A listing repairs indexes that inserts, reviews and other listings write.
  Correct means: a listing alone shows every row that is pending throughout, a rebuild loses
  none for good, and what overlapping repairs drop comes back.
* *Finding store.*  Cycles store the same findings side by side, by hash and by meaning.
  Correct means: the counter of a cycle is the number of its links, edges are written once, a
  stored finding can be seen, and a duplicate is the work of a race.
* *Chat and console.*  Generators inside generators pump calls to a client that may leave.
  Correct means: the client reads events in the order it counts on and all of them, nothing but a
  briefing is begun for a client that is gone, a stream ends unless it polls a swarm that stays open; and
  what the console shows and can abort is what is under way.

The hazards are listed with their lines in `PROJECT.json`; a note there says what no property covers.  Six more belong to promises nobody
in the repository has made, and to code no module covers: `swarm.service.ts:110` (an abort or a
failure in the middle of creating the fish), `sim-orchestrator.service.ts:269` (pause written
over any status), `sweep-resolution.service.ts:205` (a resubmission dispatches again what had
landed), `sweep-suggestions.service.ts:55` (a crash between review and resolution),
`autonomy.service.ts:181` (a cycle that throws is booked without cost) and
`temporal-pattern-review.service.ts:47` (the target checked outside the transaction).

## 2. Modules

| Module | Models | Checked by | Proved in |
|---|---|---|---|
| `SwarmPromise` | what a swarm promises to the reader of its aggregate | refinement from `SwarmFanout` | `SwarmFanoutProofs` |
| `SwarmFanout` | launch, activation, fish workers, gate, aggregate job, abort, failures | `MCSwarm` | `SwarmFanoutProofs` |
| `Resolution` | review and resolution of one suggestion, lock, handlers' answers | `MCResolution` | `SweepProofs` |
| `Mission` | the fill mission: interval, start, stop, shutdown, task worker, fill writer | `MCMission` | `CounterProofs` |
| `Autonomy` | the autonomous loop: interval, start, stop, configuration, ledger and caps | `MCAutonomy` | `AutonomyProofs` |
| `Dag` | plans: validity, and the next level | through the next three | `ResearchProofs` |
| `DagExecutor` | one call of `execute()`: levels, nodes, timers, abort | composed in `ResearchCycle` | `ResearchProofs` |
| `ResearchCycle` | one call of `runCycle()`, over `DagExecutor` | `MCResearch` | `ResearchProofs` |
| `Planner` | the ways to a plan and the filters each passes | `MCPlanner` | `PlannerProofs` |
| `SweepIndex` | insert, review, expiry and `list()` with the repairs of its indexes | `MCSweepIndex` | `SweepProofs` |
| `FindingStore` | `storeFinding()` and the archive | `MCFindingStore` | `CounterProofs` |
| `FollowUpPolicy` | which follow-ups a cycle's answer asks for and which are launched | through `ChatStream` | `ChatStreamProofs` |
| `ReplWire` | the events between server and console, and the order a reader counts on | through the next two | `ChatStreamProofs`, `ReplTurnProofs` |
| `ChatStream` | the server's streams, with pump, plan and follow-ups | `MCChatStream` | `ChatStreamProofs` |
| `ReplTurn` | a turn of the console and its requests | `MCReplTurn` | `ReplTurnProofs` |

The two loops share no state with the swarms and with each other.  `ReplWire` is the contract
the two sides of the chat meet at: `ChatStream` is checked to write nothing but what it allows, and
`ReplTurn` reads any stream it allows.  `ResearchCycle` and
`DagExecutor` are composed step by step: the variables of the executor are those of the
cycle, and every action of the executor is one of the cycle with the rest unchanged.

### SwarmFanout

One swarm.  Process `0` is the call of `launchSwarm()`, process `f` the BullMQ job
of fish `f`; `pc` says at which await each one is.  `fish[f]` is the status column
of the run, `swarmStatus` that of the swarm, `gate` the Redis key, `agg` the job
`swarm-<id>-aggregate`.  The local variables that survive an await are `slots`
(the claim limit computed from `countFishByStatus()`), `todo` (claimed, not yet
enqueued) and `outcome` (the status about to be written).  A worker writes a row through
`PATCH /api/sim/runs/:id/status`, which reads it, refuses what `isLegalRunTransition()`
does not allow and writes after a further await (its table is complete, but no action here pauses a
fish, see section 6); `asked`, the place `write` and `orphans`
are the requests between their check and their write.

| Action | Code |
|---|---|
| `InsertSwarm`, `ResetGate`, `CreateFish` | `launchSwarm()` |
| `ActivateCount`, `ActivateClaim`, `ActivateEnqueue` | `activatePendingFish()`; the claim is one SQL statement and takes the lowest indexes |
| `StartJob`, `LoadRun` | the worker takes a job and reads the run; one that is not running is skipped, but the swarm is notified |
| `TerminalTurn`, `TurnWrites`, `DrainFish`, `TimeoutFish`, `LateTurnEnds` | the race between the drain and its timer; the losing turn is not cancelled |
| `CloseFish`, `WriteFish` | `updateRunStatus()` of the worker: the check of the status route, then its write |
| `OrphanWrites` | a checked write whose caller has died or lost its connection |
| `AccountFish`, `ClaimGate`, `PublishAggregate`, `ReleaseGate` | the second half of `onFishComplete()` |
| `StartAggregate`, `CloseSwarm` | the aggregate worker |
| `AbortSwarm` | the transaction of `abortSwarm()` |
| `CallFails`, `LoadFails`, `CloseFails`, `TurnFails`, `PublishFails`, `WorkerDies`, `AggregateFails` | a rejected call at each await, a dead worker whose job BullMQ hands out again |

`Init` lets the gate key of an earlier swarm survive (`resetGate` exists because of
it).  A turn's contents are left out: it plays on, throws, or ends the run.

`SwarmPromise` knows only fish that wait, play or are settled, and one report.
`Phase` maps the status columns to it; `KeepsPromise` says that every behaviour of
`SwarmFanout`, failures and aborts included, is one of `SwarmPromise`.

### Resolution

One suggestion and a set of requests.  `accepted` and `status` are the fields of the
row, `lock` the token in the Redis key.  `resolve()` returns the promise of
`resolveLoaded()` out of its `try` without awaiting it, so its `finally` runs beside
the dispatch; a call therefore has two threads, its `pc` and its membership in
`releasing`.  A handler is the set of answers its code can give (`Answers`): rows
written and reported, nothing to write, an error, an error after some rows were
written (a loop that throws midway), or a question.  Calls fail, and the lock expires under
its holder (one that needs more than the 30 s of `RESOLUTION_LOCK_TTL_MS`), at most `MaxTrouble`
times together.  `review()` resolves without selections, a resubmission may bring some (`Selections`).
`withdrawn` is history: an accepting verdict was overwritten by a rejection.

### Mission

`MissionService` keeps one object, `this.state`, and `start()` replaces it.  An object
is a *mission*: `state[m]` holds its flags, cursor and counters, `current` is the one
`this.state` refers to, and mission 0 is the idle object the service is built with.
A replaced mission may still own a live interval, and a tick that waits for the worker
does its bookkeeping on whatever mission is current by then; both facts are why the
objects have identities here.  `task[k]` is one task: the await the worker is at (the
code calls all of them `researching`), what has been written, and how often the task
was handed out (a history variable).

| Action | Code |
|---|---|
| `CallStart`, `StartReturns`, `StartFails` | `start()` before and after its two awaits (the list, the plan); the first tick runs synchronously |
| `IntervalFires` | the callback of `setInterval`: it ticks the *current* mission, whoever owns the interval |
| `Stop`, `Close` | `stop()`, and the `onClose` hook of the server, which runs when the requests in progress have been answered |
| `VotesAgree`, `NoValue` | `runTask()`: the two votes and the conversion of their value |
| `WriteSucceeds`, `FillApplied` | `applyFill()`: satellite, audit row, finding |
| `CallRejects` | a rejected await in `runTask()`, with or without its effect |

The planner is abstracted to the number of tasks it returns.  The `catch` of `tick()`
is left out: `runTask()` catches everything and does not reject.

### Autonomy

`running`, `timer`, `busy`, `interval`, `rotationIdx` and `reason` are fields of
`AutonomyService`; `at[t]` and `held[t]` are the await a call of `tick()` is at and the
configuration it read.  The ledger is its three sums (the last day, the rest of the
month, cycles of the last day), which stop growing at `MaxUsd`; `DayPasses` and
`MonthPasses` let any part of them age, which includes every order in which entries
of any size may leave a window.  `rotationIdx` counts modulo `Span`, a multiple of every
rotation's length, since the code only uses it modulo such a length.

| Action | Code |
|---|---|
| `IntervalFires`, `ConfigRead`, `ConfigFails`, `ActionEnds` | `tick()`, cut at its two awaits; the read of the configuration and what follows it up to the action is one step |
| `CallStart`, `StartReturns`, `StartFails`, `Stop`, `ResetSpend` | the requests |
| `ChangeConfig` | an operator changes `console.autonomy` through the runtime configuration |

Left out: the history of actions and what an action does.  `ActionEnds` covers an
action that throws: the service then books no cost, whatever the cycle has paid, so
`OverspendBounded` speaks of what the ledger knows.  `ConfigRead` reschedules a
changed interval even after `stop()`; the interval it leaves behind ticks and returns
at once, and the next `start()` clears it.

### Dag and DagExecutor

A plan is a function from its cortices to the sets they depend on; names are unique in a
plan that `validateDag()` accepts, and one that it refuses is here `NoPlan` or a plan that is not
`Valid`.  `Acyclic` says what the search of `visit()` decides, without its stack; `Ready`
is one round of the `while` of `topologicalLevels()`.  `at[c]` is the await of
`executeNode()` for cortex `c`, or how it settled: with findings worth keeping, with
findings of low confidence only, with none, or `rejected`.

| Action | Code |
|---|---|
| `Execute` | `execute()` up to its first await: abort, validation, first level |
| `ConfigRead`, `ConfigFails` | the read of the two configurations in `executeNode()`; the cortex is called even if the signal is aborted by then, and loses the race |
| `CortexAnswers`, `TimesOut`, `SignalAborts` | the race |
| `LevelEnds` | from `Promise.allSettled()` to the next one, or to the result |

A cortex that answers late changes nothing: the race is decided and its listener removed.

### ResearchCycle

`pc` is the await of `runCycle()` or of the loop in it.  The counters are those of
`CycleLoopRunner.run()`; the cost saturates at `MaxCost`, where it is only compared.
`found` and `gapsSeen` record what every round brought and every reflexion asked for, so that
`StopReasonHolds` and `LoopStops` can compare the counters with the history they stand for.

| Action | Code |
|---|---|
| `RunCycle`, `PlanMade`, `PlanRejects`, `Created`, `CreateFails` | `runCycle()` up to its `try` |
| `BudgetRead`, `BudgetFails` | the configurations, and the head of the loop |
| `ExecutionThrew`, `Evaluate` | what follows `execute()`: keep or discard, counters, `shouldStop()` |
| `Sufficient`, `Insufficient`, `Replanned`, `AbortError` | the reflexion and the new plan |
| `StoreOne`, `Complete`, `CompleteFails`, `Read`, `ReadFails` | `persist()` and the end of the `try` |
| `FailRow`, `FailRowFails` | the `catch` |
| `Abort` | the caller's signal, at any await |

Eagerness is a choice, since its thresholds are the operator's and its inputs real numbers.
A rejected update of the row may have been done: the connection is lost after the statement.
A failed cortex reports no tokens, so its cost is unknown to the loop, as in the code.

### Planner

A node is a cortex and its dependencies; names may be repeated or unknown, as a model or
a caller may send them.  `dag` is the array of the daemon job, which `GetDaemonDag` pushes
onto when nothing is disabled (`let kept = nodes`).  The finalization is synchronous, so each call
is one action; `Settings` change between calls.  `Picked` is `Array.prototype.filter` as a recursive function of the places that stay, `First` the set of names seen
so far.  The way from text to a DAG, the parameters of nodes and a call
that an abort ends (it changes nothing) are left out.

### SweepIndex

`row` is the hash of every suggestion, `all` and `pending` are the two indexes an older version
kept too, `ranked` the ones `list()` pages through.  `call[c]` is a call of `list()`: its await in
`pc`, and what it has read and not used yet.  A review is two steps, the read of the hash and the
pipeline.  `since`, `sure` and `rebuilt` are history.

| Action | Code |
|---|---|
| `Insert`, `Expire`, `ReviewRead`, `ReviewWrite` | `insertGeneric()`, the 90 days, `review()` |
| `Begin` | `list()` up to `ensureRankedIndexesForRead()` and what it decides |
| `Counts`, `Sample`, `Compare` | `ensurePendingRankedIndexForRead()`, `pendingRankedSampleMatchesSet()` |
| `Scan`, `Drop` | `deleteRankedScopeIndexes()` |
| `ReadIds`, `ReadRows`, `Index` | the refill of one index, or a batch of the rebuild of all three |
| `Page`, `Fetch` | the page of ids, the rows |

Left out: category and severity indexes (they follow the index of their scope command by command), the
scan of a listing with both filters, the feedback list, `getStats()`, and a crash in the middle of a
repair.  Every caller in the applications asks for `reviewed: false`.

### FindingStore

A finding is named by what its hash is made of, so the unique index on `dedup_hash` is the
function `row` itself; `Loose` are the findings without an anchor.  `about` are the entities a finding has
an edge to, its anchor among them, and `Near` looks for any of them, as the query does.  `links` and `count` are the junction and the counter of the cycle, `edges`
and `cross` count how often the two kinds of edges of a finding were written.  Two texts are near
when they make the same claim; `Nearest` takes any `Limit` of the near ones, as the vector search orders
them.  `touched` and `full` are history: who wrote a row since the lookup, and whether the search was full.

| Action | Code |
|---|---|
| `Store`, `EmbedFails`, `Lookup` | `storeFinding()` up to its transaction |
| `Merge`, `Upsert`, `RollsBack` | the transaction; `Upsert` with a lost answer is a commit its caller takes for a failure |
| `Relate`, `Link`, `RelateFails` | the cross-links of a new finding |
| `Archive` | `archiveFinding()`, `expireOld()` |

Left out: confidence, evidence and iteration, the callbacks, an approximate index that misses a near text, and
`emitFindingTransactional()`, the HTTP route, which links without counting.

### FollowUpPolicy, ReplWire, ChatStream

`FollowUpPolicy` is `plan()` without its awaits, scores in ten-thousandths included.  `ReplWire` is
a reader of the stream: `Reads` says where it is after an event, and `lost` is where no event may lead it.
In `ChatStream` every stream has the await it is in (`at`), what it works for (`item`), the
call it pumps (`run`) and where a reader of what it wrote is (`read`).  The code between two awaits
is one step in a single-threaded process; `Writes` is the loop of the controller, which looks at the
signal before each event.  `Checked` is the `if (aborted()) return` of the turn, which ends the stream;
`Heeded` and `Told` are those of a follow-up, which end only its own generator: with the rest of the
follow-ups ended in the same way the turn goes on to its briefing (`GoesOn`), since `handleStream()` does
not look at the signal again before it (repl-chat.service.ts:241-244).

| Action | Code |
|---|---|
| `Route`, `Reply` | `handleStream()` up to the cycle |
| `Emit`, `Settle`, `Pull`, `Return` | `CycleStreamPump.pump()`: `onStep`, the end of the call, the generator |
| `Findings`, `Summarise` | the findings and the summary, of a turn and of a deep research |
| `Candidate`, `Plan` | `plan()` before and after its preflights |
| `Begin`, `AuditDone`, `Poll`, `Wake`, `Report` | the follow-ups; a swarm is polled until it is over |
| `Brief`, `Rejects`, `Leave` | the briefing, an await that rejects, a client that disconnects |

Left out: which model answers, temporal hypotheses (they change the wording of a candidate that is scored),
what is proposed or dropped, steps after a call has settled, and what becomes of a call or a swarm whose stream is closed.

### ReplTurn

One turn of the console.  `requests` are the streams it is fed by, its own first; `inFlight` is the hook's
map of controllers, by key.  `Receive` takes any next event `ReplWire` allows on any open stream, so the
streams interleave in every way.

| Action | Code |
|---|---|
| `Receive` | `postChatStream()`, `postFollowUpStream()`, `turnReducer()` |
| `Complete`, `Break`, `AbortSettles` | the end of a request and its `catch` and `finally` |
| `RunFollowUp`, `Cancel` | the button of a proposed follow-up, `cancelTurn()` |

Left out: slash commands, texts, findings and steps.

## 3. Runs

Only the runs of the planner, which never rests, check for deadlock: a swarm, a request, a
loop or a cycle that has finished stops.
Bounds are constants of the modules (`MaxFaults`, `MaxStalls`, `MaxTrouble`,
`MaxMissions`, `MaxTasks`, `MaxCalls`, `MaxUsd`, `MaxStarts`, `MaxChanges`, `MaxStores`, `MaxSteps`,
`MaxRuns`) and appear in guards.

| Run | Bounds | What it shows |
|---|---|---|
| `swarm_faults` | 2 fish, 1 slot, 2 failures, 1 abort | `AggregateOnlyWhenAllClosed`; `AbortIsFinal`; the refinement `KeepsPromise` |
| `swarm_fair` | 3 fish, 2 slots, no abort, no failure | `SwarmCloses` under fairness |
| `resolution` | 3 requests, 1 of which may bring selections, 1 action, 1 early expiry or failure | `NothingBeforeReview`; `OnlyOwnerReleases`; `LockIsFreed` and `AcceptedIsResolved` under fairness |
| `mission` | 2 missions, 2 tasks, 2 overlapping starts | `NoTaskTwice`; `CountedOnce`; `MissionRunsItsTasks` under fairness |
| `autonomy` | 3 configurations, 2 starts, 1 change of them, costs up to 1, sums up to 2 | `OverspendBounded`; `AtMostOneLateAction`; `RotationIsFair` under fairness |
| `research` | 2 cortices (chain, pair, cycle), 0 or 4 rounds, costs up to 2, 1 signature of gaps | `UpstreamIsComplete`; `StopReasonHolds`; `LoopStops`; `AbortIsHeeded`; `RowTellsOutcome`; `QuietAfterAbort`; `CycleEnds` under fairness |
| `planner` | 4 cortices, a job of 2 nodes, 5 requests, 72 settings | `TypeOK`; `StaysExecutable`; `KeepsOrder`; `SettingsRespected` |
| `sweep_index` | 2 rows, one of an older version, 2 listings, 1 reviewer, a sample and batches of 1 | `LoneListingIsComplete`; `RebuiltIndexIsWhole`; `PendingComesBack` under fairness |
| `finding_store` | 2 cycles, 2 cortices, 1 entity, 2 types, 1 finding without an anchor, 2 claims, a search limited to 1, 3 findings | `CountIsLinks`; `DuplicatesOnlyByRace`; `FreshIsVisible` |
| `chat_stream` | 2 requests of either kind about one query, 1 client that may leave, 3 signals, 1 step per call | `TypeOK`; `WireIsInOrder`; `StepsAllDelivered`; `BriefingIsComplete`; `SecondResearchOnlyByRace`; `AbortStopsWork`; `StreamEnds` under fairness |
| `repl_turn` | 1 launched and 2 proposed follow-ups, 2 runs of them | `SettledTurnIsNotRunning`; `CancelAbortsAll` |

Each run keeps the properties only TLC can check (liveness, refinement with its fairness, the parts
out of the prover's reach) and the safety properties that are worth seeing broken by a change of the code.  The type invariants and
the safety properties named in section 5 but not in this table were checked in the same
instances and are now proved for every value of the constants (`GateHeldByOne`, `NoFishForgotten`, `HolderOwnsLock`, `TerminalWasPromoted`,
`OverlapBounded`, `OneTickAtATime`, `StopIsExplained`, `ExecutionIsWhole`, `CompletedMeansAllTried`, `WrittenOnce`, `TrackedIsOpen`,
`OutcomeIsKept`, `RunTwiceOnlyUnread`); repeating them in a run would add nothing to the proof.

Three fish with two slots are the fewest in which two completions race both for one
slot and for the gate while a third is still playing; with failures two fish and one
slot already have a launch and a completion that compete for the second fish, and two
completions at the gate.  Two requests are the fewest
in which one outlives its lock and meets that of another, three the fewest in which a suggestion
is accepted, rejected and accepted again while the first call still holds the lock: that acceptance is
left pending, which is why `AcceptedIsResolved` exempts a verdict that was withdrawn.  One failure reaches
every error path, one action every outcome but that of two handlers that disagree, which the theorems cover.  Two missions are the fewest in which a tick returns to another
mission than its own, two tasks the fewest a cursor separates.  The three
configurations are one whose caps an action reaches, one that never stops and has an
unknown action in its rotation, and one whose rotation is empty once cleaned; two
starts and a change are the fewest whose overspending adds up.  Two cortices have a chain,
a parallel level and a cycle; four rounds are the fewest in which a plateau (three equal
signatures) stops the loop before its budget does.  The job of the planner is pushed to at
most once per cortex, so its array has a bound that `TypeOK` states.  Two listings are the
fewest that delete under one another, a batch of one row lets a rebuild of two be interrupted
between its batches, and a sample of one is shorter than an index of two, which is the case the
code's twenty are too few for.  Two cortices are the fewest that name one claim by two hashes,
two types the fewest that crowd a limited search; a finding without an anchor may have an edge to the
entity of another, which is near by that edge alone.  Two turns about one query are the fewest that
race for its research; the three signals are no need to verify, a target named twice, and a research
beside an audit.  Two runs of follow-ups are the fewest in which one is run twice.
The theorems remove these bounds from the safety properties they prove.

### Where the documentation and the code disagree

`resolution_double` checks CHANGELOG.md:31, "concurrent resolution attempts do not double-dispatch
actions", and finds it violated: the lock is released while the dispatch runs (`return` without `await`).

Four more sentences do not hold in the models; no run is kept for them, since other
properties of the same runs speak of the lines.

| Sentence | What the code does |
|---|---|
| DONE.md:38 "fish concurrency is real ... claims pending fish up to `fishConcurrency`" | the limit comes from counts read before the claim; two completions that read the same counts exceed it (`swarm.service.ts:259`) |
| sim-run.controller.ts:94 "cannot set sim_run ... from ... to ..." | the check and the write are separate awaits: an abandoned turn that passed the check writes `done` over `timeout`, or the worker `timeout` over `done` |
| DONE.md:332 "Timers now cleared on Fastify shutdown" | two overlapping starts of a mission leave an interval nobody refers to (`mission.service.ts:57`) |
| thalamus-planner.service.ts:288 "Ensure `strategist` exists when `mandatoryStrategist` is true, with dependsOn set to all other nodes" | the strategist pushed for the first run stays in the job's array without dependencies; from the second run on it comes first |

The models also contain behaviours no run speaks of, since no sentence of the
repository excludes them with certainty: a gate released after a failed enqueue is
claimed again only if another completion is still to come; a fish whose closing write
fails stays open and keeps its swarm open; an overlapping resolution may store
`failed` over `success`; a handler that asks for a selection a second time, in a call
that brings selections, counts as a success.  `closeSwarm()` turns the `failed` of an
aborted swarm into `done` when the abort overtakes the aggregate job.  The interval given
to `start()` of the autonomous loop is replaced by the configured one in the first tick.  The
findings of earlier rounds are dropped when a later plan is invalid or a later call throws,
and a read that fails after the row was completed marks it failed.  `GAP_PLATEAU_STOP` is
described as two identical rounds and takes three equal signatures.  A forced cortex stays in a job's
array after it is no longer forced.  Two nodes that are ordered only through a third run in any order once that one
is dropped: the filters prune dependencies and do not rewire (thalamus-planner.service.ts:358-363, 391-394).
Forced cortices may be
clamped away, and a plan that depends on a strategist it does not have becomes a cycle
once one is injected; the DAGs of `weekly-fleet` and `content-generation` name a cortex twice
and are always refused.

Of the newer models: rows of an older version stay out of the `all` and `reviewed` indexes when a
new row is inserted before the first listing, or when a rebuild dies midway (`ranked` is no longer
empty); overlapping listings may answer a short page; beyond the sample of twenty a stale id can stand in for
a lost one (`LoneListingIsComplete` therefore asks for an index that was compared whole).  The route that emits a finding over HTTP
writes its edges on every hit, against the comment at research-finding.repository.ts:47-52.  A client that leaves while a follow-up
is under way has its turn ask for a briefing all the same, perhaps with that follow-up still running
(repl-chat.service.ts:243-244); the transport then refuses the aborted signal (llm-chat.ts:85).  A swarm
that stays open keeps the stream that polls it open as long as the client stays.  A rejected
call of a follow-up ends the whole stream of its turn, without briefing or `done`; a client
that leaves during the plan has burned the 30 days of its query.  A second click on *run* before the first event
of the follow-up takes over its key, and a cancel then misses the first run.  A turn whose own stream
breaks while a selected follow-up runs, or whose selected follow-up breaks after its start, may stay shown as
running (reducer.followups.ts:95) with nothing in flight, which is why
`SettledTurnIsNotRunning` asks that every started follow-up has its outcome.


## 4. Fairness

Weak fairness of the continuations of Node and of the hand-out of waiting jobs by
BullMQ, with one exception in `Autonomy`, and nothing more: no failure, abort, request or late turn has to happen.  In
`SwarmFanout` the drain ends because its timer bounds it, so `DrainFish \/ TimeoutFish`
is fair and the turns are not.  In `Resolution` `Resolve(c)` assumes that a handler
answers (each is a finite number of SQL statements); the TTL makes `LockExpires` fair.
In `Mission` intervals fire and every await of the worker ends (each has a timeout or
is one SQL statement).  In `Autonomy` the read of the configuration is strongly fair:
Redis may fail between two reads, again and again, but not each time for ever.  In
`ResearchCycle` every await but that of a cortex settles, with a result or an error; a silent
cortex is ended by its timer.  That the model behind reflexion and planning settles is an assumption:
its transport has no timeout of its own.  In `SweepIndex` a call of `list()` that has begun goes on, a review
that has read writes, and the console asks for the pending rows again and again (the sweep page and every mission do).  In
`ChatStream` that every await settles and a pumped call ends is an assumption as well: neither the chat nor its
transports set a deadline.  A swarm need not end, which is why `StreamEnds` has a second case.  `FindingStore` and `ReplTurn` have no liveness properties.

## 5. Proofs

Safety only, from the named assumptions on the constants (a positive number of fish,
slots and actions, bounds that are numbers, finite sets where the code has finite ones, `Nobody` no request).
Each component has one inductive invariant, lemmas for what its actions keep, and theorems that PTL
derives.

| Proof module | Theorems that state a property |
|---|---|
| `SwarmFanoutProofs` | `TypeOK`, `AggregateOnlyWhenAllClosed`, `GateHeldByOne`, `NoFishForgotten`, `AbortIsFinal`, `KeepsPromise` (refinement) |
| `SweepProofs` | of `Resolution`: `ResolutionTypeOK`, `HolderOwnsLock`, `NothingBeforeReview`, `TerminalWasPromoted`, `OnlyOwnerReleases`; of `SweepIndex`: `TypeOK`, `RebuiltIndexIsWhole`, `LoneListingIsComplete` |
| `CounterProofs` | of `FindingStore`: `TypeOK`, `CountIsLinks`, `WrittenOnce`, `FreshIsVisible`, `DuplicatesOnlyByRace`; of `Mission`: `MissionTypeOK`, `NoTaskTwice`, `OverlapBounded`, `CountedOnce` |
| `AutonomyProofs` | `TypeOK`, `OneTickAtATime`, `OverspendBounded`, `AtMostOneLateAction`, `StopIsExplained` |
| `ResearchProofs` | `TypeOK`, `UpstreamIsComplete`, `ExecutionIsWhole`, `StopReasonHolds`, `LoopStops`, `AbortIsHeeded`, `CompletedMeansAllTried`, `RowTellsOutcome`, `QuietAfterAbort` |
| `PlannerProofs` | `TypeOK`, `StaysExecutable`, `KeepsOrder`, `SettingsRespected` |
| `ChatStreamProofs` | `TypeOK`, `WireIsInOrder`, `StepsAllDelivered`, `BriefingIsComplete`, `SecondResearchOnlyByRace`, `AbortStopsWork` |
| `ReplTurnProofs` | `TypeOK`, `TrackedIsOpen`, `SettledTurnIsNotRunning`, `CancelAbortsAll`, `OutcomeIsKept`, `RunTwiceOnlyUnread` |

`CounterProofs` and `SweepProofs` each extend two components that share no state, which is why `Mission` and `Resolution`
name their definitions after themselves (`MissionInit`, `MissionSpec`, `ResolutionSpec`, ...).

`SwarmFanoutProofs`: `AggregateOnlyWhenAllClosed` alone is not inductive, since it
says nothing of a completion that has counted and not yet published.  `IInv` adds
that processes past the count imply closed fish (`PastGateClosed`), that claims of
two processes are disjoint (`ClaimsDisjoint`: the claim moves the row in the same
statement that picks it), that no job works before the rows exist (`NoRowsYet`,
`ActivatedRows`) and that a busy worker has a job (`WorkersHaveJobs`).
`SwarmKeepsPromise` maps every step to a step of `SwarmPromise` or a stutter.

`SweepProofs`, the resolution: `ResolutionInv` adds that a call with a pending release has left the
second check (`ReleaseAfterCheck`), that every call past the first check has seen a
review, and that a call about to store a terminal outcome has promoted it.
`OnlyOwnerReleases` follows from the actions alone.

`SweepProofs`, the indexes: an index that lacks a row is not wrong while somebody will put it there.
`IInv` says who: `Cover` holds of a rebuild that has the row in its hands or ahead of it, and `AllOwed`, `ReviewedOwed`
say that a row an index lacks, once a rebuild is due or done, is covered by one.  `JInv`, proved above it,
carries a lone listing from its beginning to its answer: nobody deletes behind it (`Alone`), and the rows it wants
are in the index or in its hands (`Good`).  That equal sizes and a sample that was the whole index mean equal sets (`Balanced`)
is an argument about cardinalities.

`CounterProofs`, the mission: `NoTaskTwice` needs `Unstarted` (the tasks from the cursor on have not
been handed out); `OverlapBounded` needs `TickCredit`, which counts a tick that may still
begin as if it were out: a new mission brings one, and a tick that returns to
another mission gives back no more than it took.  `CountedOnce` compares counters with tasks, and the tasks of
one mission may be counted by another.  Its counters are sets of units, one pair of a mission and a number below its
counter for each (`Counts`): a tick that returns adds one unit and ends one task, so the two sets
stay equally large without a sum over missions.  `Written` says that a task counted as filled has made its three writes.

`AutonomyProofs`: `OverspendBounded` is a count of credit as well; `IInv` says where
one must be left, before an action that would take it (`Ready`) and after a tick has
read a configuration that has been replaced since (`Stale`).  `Late` says that a tick
that may still begin an action after a stop is the first to do so; `Mutex` ties `busy`
to the tick under way.

`ResearchProofs`: `IInv` has two halves.  `DagInv` speaks of the executor alone: outputs
are final, and a node that has started depends only on nodes with outputs.
`LevelsNeverEmpty` stands beside it: `Acyclic`, the reference for the search of `visit()`, leaves
a next level as long as nodes remain.  `CycleInv` ties `pc` to `exec`, to the row, to
what is stored and to the place the abort came at.  `HistoryInv`, proved above them, says
what the counters stand for: zero runs and equal gaps at the end of the histories, and a reason
only where the loop has been left.  `QuietAfterAbort` follows from `IInv` and the actions.

`PlannerProofs`: every filter of the planner goes through `Picked`.  `PickedHolds` says once what it
returns: elements of its argument from the wanted places, each of them, once if the argument has them once.
`Refines` puts the filters together: a node of the result comes from a node of the plan and depends on
what that node depended on as far as it is still there, or it is a pushed cortex, and only a strategist just injected
depends on all the others.  A refined plan of unique names is acyclic if the plan was (`RefinedIsWhole`), which is
`StaysExecutable`: every non-empty set of its cortices has one that depends on none of the set, be it a node of the plan,
a pushed cortex, which depends on nothing, or, where nothing else is left, the strategist just injected.  `KeepsOrder` reads the same fact off each node, and `Obeys` collects the settings.  The invariant
itself is small: `Grown` says that what the job's array has gained are cortices of the registry, each once, so it has at most
one node per cortex more than the job.

`ChatStreamProofs`: `Sound` has one case per kind of place a stream can be in, and each says where a reader of its events
then is: that is why the next event is one that `ReplWire` allows.  A pump is between what the reader has and what
the call has emitted (`Pumping`); what ends it finds the queue empty (`Settled`).  In a follow-up the reader's set of outcomes is a
part of what the plan launched without the one it is at, so that the briefing has them all.  `Forsaken` is the
briefing of a turn whose client has left: its reader is wherever the follow-up that returned left it, and
never moves again.  `Remembered` and `Met` are the
argument about the research: a turn that holds the deep follow-up and is past its look-up has its query recorded, and any two turns of
one query that hold it were planning at once.  `AbortStopsWork` needs `IInv`: that
what a stream is at agrees with what its reader has.

`CounterProofs`, the finding store: `DuplicatesOnlyByRace` needs `FoundKnown`, what a lookup has seen and others have written since; `WrittenOnce` needs
`OneLinker`, only the call whose upsert inserted the row cross-links it, and `NoEdgeYet`, edges come with the row.  `CountIsLinks` is a
count of the set of links of each cycle, over finitely many.

`ReplTurnProofs`: `IInv` ties the map of controllers to the requests (`Keyed`, `Tracked`) and what is shown to how far
each stream was read (`DoneIsRead`, `DoneIsShown`, `Unstarted`, `Outcome`).  The lemmas `ReadsCases` and `Received` say once what
one event of `ReplWire` does, so that no proof opens the grammar again.

Induction over data: the induction theorems of the library take an operator, which no installed prover can
instantiate.  `Picked` of `Planner` and `ReadsAll` of `ReplWire` are recursive functions, which the provers do know, and facts about them
for every length are proved by a least counterexample: the set of places where the fact fails, if it is not empty, has a least
element (`LeastNat`, from the well-foundedness of the natural numbers), and the step before it refutes it.

Every invariant and every action property of a passing run is proved.  Only model-checked are the liveness properties
(`SwarmCloses`, `LockIsFreed`, `AcceptedIsResolved`, `MissionRunsItsTasks`, `RotationIsFair`, `CycleEnds`, `PendingComesBack`,
`StreamEnds`: fairness and `ENABLED` are out of the prover's reach) and the sentence that `resolution_double` finds violated.

## 6. Not modelled, and the plan

Left out inside the modelled parts: contents of turns, perturbations, memories and
suggestions; wording of errors; what the outcome resolver computes; a crash of the
launching process (nothing continues a half-launched swarm and nothing promises to).

Order of the next modules:

1. `SwarmAggregate`: attempts of the aggregate job and the suggestions they emit.
2. `SimTurns`: the orchestrator, the sim-turn queue, pause and resume of a standalone
   run (no deployed process consumes that queue), and a swarm's fish that is paused
   through the routes of standalone runs (`pause` and `resume` write over any status).
3. The category and severity indexes with the filtered scan, beside `SweepIndex`.
4. More proofs: that `ResearchCycle` and `ChatStream` implement abstract specifications of what they promise, as
   `SwarmFanout` does, and that `FindingStore` implements what `StoreOne` takes for granted.

Composition: `ResearchCycle` over `FindingStore`, in place of `StoreOne`; `ChatStream` over `ResearchCycle`, in
place of `Emit` and `Settle`.

Not planned: LLM transports, prompts and parsing, numerical scoring in `packages/temporal`,
read-only views, CLI, the other views of the UI, seeds and migrations: pure I/O, floating point or data.

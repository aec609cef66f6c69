------------------------------- MODULE Mission -------------------------------
(***************************************************************************)
(* The fill mission of the console: MissionService and the task worker and *)
(* fill writer it drives.                                                  *)
(*                                                                         *)
(* start() reads the suggestions and plans tasks (two awaits), then        *)
(* replaces this.state by a new object with an interval of its own.  A     *)
(* tick hands the next task to the worker and, when the worker returns,    *)
(* does its bookkeeping on whatever object this.state is by then.  stop()  *)
(* and start() may run while a task is out.  An object of this.state is a  *)
(* mission; 0 is the object the service is built with.                     *)
(***************************************************************************)
EXTENDS Naturals, FiniteSets

CONSTANTS MaxMissions,  \* bound: missions that begin
          MaxTasks,     \* bound: tasks of one mission
          MaxCalls      \* bound: calls of start() that overlap

ASSUME BoundsAssumption == /\ MaxMissions \in Nat
                           /\ MaxTasks \in Nat
                           /\ MaxCalls \in Nat

VARIABLES
  current,   \* the mission this.state refers to
  state,     \* the object of every mission so far
  task,      \* its tasks: status, what was written, how often handed out
  starting,  \* calls of start() that wait for the list or the plan
  stopped,   \* missions the operator or the shutdown has stopped
  closed     \* the server has been shut down

missionVars == <<current, state, task, starting, stopped, closed>>

Missions == 0..MaxMissions
Keys == (1..MaxMissions) \X (1..MaxTasks)

\* The worker is at an await in the first four; the code calls them all
\* "researching".
Researching == {"vote", "update", "audit", "emit"}
Outcomes == {"filled", "unobtainable", "error"}
Writes == {"update", "audit", "emit"}

State == [running : BOOLEAN, timer : BOOLEAN, busy : BOOLEAN,
          cursor : 0..MaxTasks, tasks : 0..MaxTasks, completed : Nat,
          count : [Outcomes -> Nat]]
Task == [status : {"pending"} \cup Researching \cup Outcomes,
         written : SUBSET Writes, runs : Nat]

MissionTypeOK ==
  /\ current \in Missions
  /\ state \in [Missions -> State]
  /\ \A m \in Missions : state[m].cursor <= state[m].tasks
  /\ task \in [Keys -> Task]
  /\ starting \in Nat
  /\ stopped \in SUBSET Missions
  /\ closed \in BOOLEAN

Idle == [running |-> FALSE, timer |-> FALSE, busy |-> FALSE, cursor |-> 0,
         tasks |-> 0, completed |-> 0, count |-> [o \in Outcomes |-> 0]]

MissionInit ==
  /\ current = 0
  /\ state = [m \in Missions |-> Idle]
  /\ task = [k \in Keys |-> [status |-> "pending", written |-> {}, runs |-> 0]]
  /\ starting = 0
  /\ stopped = {}
  /\ closed = FALSE

\* The intervals that still fire.
Live == {m \in Missions : state[m].timer}

\* The tasks the worker has not returned yet.
InFlight == {k \in Keys : task[k].status \in Researching}

-----------------------------------------------------------------------------
(* tick(), up to its await *)

Halted(s) == [s EXCEPT !.running = FALSE, !.timer = FALSE]

\* tick() gets as far as the worker.
TickRuns(s) == ~s.busy /\ s.running /\ s.cursor < s.tasks

\* Mutant of Ticked: the cursor stays where it is.
TickedWithoutAdvance(s) ==
  IF TickRuns(s) THEN [s EXCEPT !.busy = TRUE] ELSE s

\* What tick() does to this.state before it waits for the worker.
Ticked(s) ==
  IF TickRuns(s) THEN [s EXCEPT !.busy = TRUE, !.cursor = @ + 1]
  ELSE IF ~s.busy /\ s.running THEN Halted(s)
  ELSE s

\* Mission m, whose object is s, is current and its tick() is called.
Tick(m, s) ==
  /\ state' = [state EXCEPT ![m] = Ticked(s)]
  /\ task' = IF TickRuns(s)
             THEN [task EXCEPT ![<<m, s.cursor + 1>>].status = "vote",
                               ![<<m, s.cursor + 1>>].runs = @ + 1]
             ELSE task

\* The interval of mission m fires; its callback ticks the current mission.
IntervalFires(m) ==
  /\ m \in Live
  /\ Tick(current, state[current])
  /\ UNCHANGED <<current, starting, stopped, closed>>

-----------------------------------------------------------------------------
(* start() and stop() *)

CallStart ==
  /\ ~closed
  /\ ~state[current].running
  /\ starting < MaxCalls
  /\ starting' = starting + 1
  /\ UNCHANGED <<current, state, task, stopped, closed>>

\* The list and the plan are there: a new object, its interval, a first tick.
StartReturns(n) ==
  /\ starting > 0
  /\ current < MaxMissions
  /\ starting' = starting - 1
  /\ current' = current + 1
  /\ Tick(current + 1, [Idle EXCEPT !.running = TRUE, !.timer = TRUE,
                                    !.tasks = n])
  /\ UNCHANGED <<stopped, closed>>

\* The list or the plan rejects.
StartFails ==
  /\ starting > 0
  /\ starting' = starting - 1
  /\ UNCHANGED <<current, state, task, stopped, closed>>

Stop ==
  /\ state' = [state EXCEPT ![current] = Halted(@)]
  /\ stopped' = stopped \cup {current}
  /\ UNCHANGED <<current, task, starting, closed>>

\* The onClose hook runs once the requests in progress have been answered.
Close ==
  /\ ~closed
  /\ starting = 0
  /\ closed' = TRUE
  /\ state' = [state EXCEPT ![current] = Halted(@)]
  /\ stopped' = stopped \cup {current}
  /\ UNCHANGED <<current, task, starting>>

-----------------------------------------------------------------------------
(* runTask() and the rest of tick() *)

\* Mutant of Counted: busy is cleared only when the task did not fail.
CountedBusyOnError(s, outcome) ==
  LET t == [s EXCEPT !.busy = @ /\ outcome = "error", !.completed = @ + 1,
                     !.count[outcome] = @ + 1]
  IN  IF t.cursor >= t.tasks THEN Halted(t) ELSE t

\* Mutant of Counted: a task counts when it is not an error.
CountedUnlessError(s, outcome) ==
  LET t == [s EXCEPT !.busy = FALSE,
                     !.completed = IF outcome = "error" THEN @ ELSE @ + 1,
                     !.count[outcome] = @ + 1]
  IN  IF t.cursor >= t.tasks THEN Halted(t) ELSE t

\* The counters, busy and the end of the mission after runTask() has returned.
Counted(s, outcome) ==
  LET t == [s EXCEPT !.busy = FALSE, !.completed = @ + 1,
                     !.count[outcome] = @ + 1]
  IN  IF t.cursor >= t.tasks THEN Halted(t) ELSE t

\* runTask(k) returns; the tick that called it goes on with this.state.
TaskEnds(k, outcome, written) ==
  /\ task' = [task EXCEPT ![k].status = outcome, ![k].written = written]
  /\ state' = [state EXCEPT ![current] = Counted(@, outcome)]
  /\ UNCHANGED <<current, starting, stopped, closed>>

\* The two votes agree on a value that fits the column.
VotesAgree(k) ==
  /\ task[k].status = "vote"
  /\ task' = [task EXCEPT ![k].status = "update"]
  /\ UNCHANGED <<current, state, starting, stopped, closed>>

\* A vote fails, the votes disagree, or the value does not fit the column.
NoValue(k) ==
  /\ task[k].status = "vote"
  /\ TaskEnds(k, "unobtainable", task[k].written)

\* The satellite, then the audit row, then the finding.
FillNext(w) == IF w = "update" THEN "audit" ELSE "emit"

WriteSucceeds(k) ==
  LET w == task[k].status IN
  /\ w \in {"update", "audit"}
  /\ task' = [task EXCEPT ![k].status = FillNext(w),
                          ![k].written = @ \cup {w}]
  /\ UNCHANGED <<current, state, starting, stopped, closed>>

\* The last write: the fill is reported as applied.
FillApplied(k) ==
  /\ task[k].status = "emit"
  /\ TaskEnds(k, "filled", task[k].written \cup {"emit"})

\* A call rejects, whether or not its write has landed.
CallRejects(k) ==
  LET w == task[k].status IN
  /\ w \in Researching
  /\ \E landed \in SUBSET ({w} \cap Writes) :
       TaskEnds(k, "error", task[k].written \cup landed)

RunTask(k) == VotesAgree(k) \/ NoValue(k) \/ WriteSucceeds(k)
                \/ FillApplied(k) \/ CallRejects(k)

MissionNext ==
  \/ \E m \in Missions : IntervalFires(m)
  \/ CallStart
  \/ \E n \in 0..MaxTasks : StartReturns(n)
  \/ StartFails
  \/ Stop
  \/ Close
  \/ \E k \in Keys : RunTask(k)

MissionSpec == MissionInit /\ [][MissionNext]_missionVars

\* Intervals fire, and the calls of the worker end: no request has to come.
FairSpec ==
  /\ MissionSpec
  /\ \A m \in Missions : WF_missionVars(IntervalFires(m))
  /\ \A k \in Keys : WF_missionVars(RunTask(k))

-----------------------------------------------------------------------------
(* Properties *)

\* A task is handed to the worker at most once, although a mission may be
\* stopped and replaced under a running tick whose end clears the busy flag of
\* its successor (cursor++ stands before the await).
NoTaskTwice == \A k \in Keys : task[k].runs <= 1

\* busy belongs to the object, so ticks of two missions may overlap; but each
\* mission adds at most one, and the first mission never has two tasks out.
OverlapBounded == Cardinality(InFlight) <= current

\* The tasks that ended this way, and a unit for each that the counters count.
Ended(O) == {k \in Keys : task[k].status \in O}
Units(counter) == UNION {{m} \X (1..counter[m]) : m \in Missions}

\* Whatever object a returning tick does its bookkeeping on, each task ends in
\* exactly one counter of one mission; filled counts complete writes.
CountedOnce ==
  /\ \A o \in Outcomes :
       Cardinality(Units([m \in Missions |-> state[m].count[o]]))
         = Cardinality(Ended({o}))
  /\ Cardinality(Units([m \in Missions |-> state[m].completed]))
       = Cardinality(Ended(Outcomes))
  /\ \A k \in Ended({"filled"}) : task[k].written = Writes

\* A mission that is neither stopped nor replaced runs all of its tasks to an
\* outcome and then stops by itself.
MissionRunsItsTasks ==
  \A m \in Missions :
    (current = m /\ state[m].running) ~>
      \/ current # m
      \/ m \in stopped
      \/ /\ ~state[m].running
         /\ \A k \in Keys : k[1] = m /\ k[2] <= state[m].tasks =>
                              task[k].status \in Outcomes
=============================================================================

------------------------------ MODULE Autonomy ------------------------------
(***************************************************************************)
(* The autonomous loop of the console: AutonomyService and its             *)
(* SpendLedger.                                                            *)
(*                                                                         *)
(* An interval ticks; a tick reads the configuration (an await), runs one  *)
(* action of the rotation (an await), books what it cost and stops the     *)
(* loop when a cap is reached.  start(), which awaits the configuration    *)
(* too, stop(), resetSpend(), a change of the configuration and the        *)
(* passing of time come between.                                           *)
(***************************************************************************)
EXTENDS Integers, Sequences, FiniteSets

CONSTANTS Ticks,        \* identities of calls of tick()
          Configs,      \* values of the console.autonomy configuration
          NoConfig,     \* a tick that has not read it yet
          Intervals,    \* clamped lengths of the interval
          Span,         \* a multiple of the length of every rotation
          MaxCost,      \* the most that one action costs
          MaxUsd,       \* bound: totals of the ledger stop growing here
          MaxCalls,     \* bound: calls of start() that overlap
          MaxStarts,    \* bound: calls of start() that take effect
          MaxChanges    \* bound: changes of the configuration

Actions == {"thalamus", "sweep-nullscan", "fish-swarm"}

ASSUME ConfigsAssumption ==
  /\ Configs # {}
  /\ \A c \in Configs : /\ c.interval \in Intervals
                        /\ c.daily \in Nat
                        /\ c.monthly \in Nat
                        /\ c.cycles \in Nat
                        /\ c.stop \in BOOLEAN
  /\ NoConfig \notin Configs
ASSUME NumbersAssumption ==
  /\ Span \in Nat \ {0}
  /\ MaxCost \in Nat /\ MaxUsd \in Nat
  /\ MaxCalls \in Nat /\ MaxStarts \in Nat /\ MaxChanges \in Nat

VARIABLES
  running, timer, busy,  \* of this.state; timer: an interval is live
  interval,              \* this.state.intervalMs
  rotationIdx,           \* modulo Span
  reason,                \* stoppedReason
  at,                    \* per tick: the await it is at
  held,                  \* per tick: the configuration it has read
  ledger,                \* spent in the last day, before that in the month,
                         \* and cycles of the last day
  cfg,                   \* the stored configuration
  starting,              \* calls of start() that wait for the configuration
  starts, changes,       \* how often start() took effect, cfg changed
  over,                  \* actions begun although a cap was reached
  late                   \* actions begun while stopped, since the last start

loopVars == <<running, timer, reason>>
tickVars == <<busy, at, held>>
ghostVars == <<starts, changes, over, late>>
vars == <<loopVars, tickVars, interval, rotationIdx, ledger, cfg, starting,
          ghostVars>>

Caps == {"daily_budget_exhausted", "monthly_budget_exhausted",
         "max_thalamus_cycles_per_day"}
Ledger == [day : Nat, older : Nat, cycles : Nat]

TypeOK ==
  /\ running \in BOOLEAN /\ timer \in BOOLEAN /\ busy \in BOOLEAN
  /\ interval \in Intervals
  /\ rotationIdx \in 0..(Span - 1)
  /\ reason \in Caps \cup {"none", "stopped_by_operator"}
  /\ at \in [Ticks -> {"idle", "config"} \cup Actions]
  /\ held \in [Ticks -> Configs \cup {NoConfig}]
  /\ \A t \in Ticks : at[t] \in Actions <=> held[t] # NoConfig
  /\ ledger \in Ledger
  /\ cfg \in Configs
  /\ starting \in Nat
  /\ starts \in Nat /\ changes \in Nat /\ over \in Nat /\ late \in Nat

Init ==
  /\ running = FALSE /\ timer = FALSE /\ busy = FALSE
  /\ interval \in Intervals
  /\ rotationIdx = 0
  /\ reason = "none"
  /\ at = [t \in Ticks |-> "idle"]
  /\ held = [t \in Ticks |-> NoConfig]
  /\ ledger = [day |-> 0, older |-> 0, cycles |-> 0]
  /\ cfg \in Configs
  /\ starting = 0
  /\ starts = 0 /\ changes = 0 /\ over = 0 /\ late = 0

-----------------------------------------------------------------------------
(* The ledger and the caps *)

AtMost(n, bound) == IF n > bound THEN bound ELSE n

Booked(usd, n) ==
  [ledger EXCEPT !.day = AtMost(@ + usd, MaxUsd),
                 !.cycles = AtMost(@ + n, MaxUsd)]

\* A cap that is 0 is off.
CapsReached(c, l) ==
  {r \in Caps :
     \/ /\ r = "daily_budget_exhausted"
        /\ c.daily > 0 /\ l.day >= c.daily
     \/ /\ r = "monthly_budget_exhausted"
        /\ c.monthly > 0 /\ l.day + l.older >= c.monthly
     \/ /\ r = "max_thalamus_cycles_per_day"
        /\ c.cycles > 0 /\ l.cycles >= c.cycles}

\* The loop has to stop.
Exhausted(c, l) == c.stop /\ CapsReached(c, l) # {}

\* The order in which evaluateCaps() looks at the caps.
StopReason(c, l) ==
  LET reached == CapsReached(c, l)
  IN  IF "daily_budget_exhausted" \in reached THEN "daily_budget_exhausted"
      ELSE IF "monthly_budget_exhausted" \in reached
        THEN "monthly_budget_exhausted" ELSE "max_thalamus_cycles_per_day"

\* normalizeRotation(): unknown actions are dropped, an empty rotation is
\* replaced by the fallback.
Rotation(c) ==
  LET known == SelectSeq(c.rotation, LAMBDA a : a \in Actions)
  IN  IF known = <<>> THEN <<"thalamus">> ELSE known

ASSUME SpanAssumption == \A c \in Configs : Span % Len(Rotation(c)) = 0

NextInRotation == Rotation(cfg)[(rotationIdx % Len(Rotation(cfg))) + 1]

-----------------------------------------------------------------------------
(* tick() *)

\* Mutant of TickRuns: a tick does not look at running.
TickRunsWhenStopped(r) == ~busy

\* A tick gets past its first line; r is this.state.running.
TickRuns(r) == ~busy /\ r

\* tick() up to its first await.
Tick(r) ==
  \/ /\ TickRuns(r)
     /\ busy' = TRUE
     /\ \E t \in Ticks : /\ at[t] = "idle"
                         /\ at' = [at EXCEPT ![t] = "config"]
     /\ held' = held
  \/ /\ ~TickRuns(r)
     /\ UNCHANGED tickVars

IntervalFires ==
  /\ timer
  /\ Tick(running)
  /\ UNCHANGED <<loopVars, interval, rotationIdx, ledger, cfg, starting,
                 ghostVars>>

\* Mutant of ConfigRead: the rotation does not advance.
ConfigReadOnly(t, a) ==
  /\ at[t] = "config"
  /\ a = NextInRotation
  /\ at' = [at EXCEPT ![t] = a]
  /\ held' = [held EXCEPT ![t] = cfg]
  /\ interval' = cfg.interval
  /\ timer' = (timer \/ cfg.interval # interval)
  /\ over' = IF Exhausted(cfg, ledger) THEN over + 1 ELSE over
  /\ late' = IF running THEN late ELSE late + 1
  /\ UNCHANGED <<running, reason, busy, rotationIdx, ledger, cfg, starting,
                 starts, changes>>

\* The configuration is there: a changed interval is rescheduled, whether or
\* not the loop still runs, and the next action of the rotation begins.
ConfigRead(t, a) ==
  /\ at[t] = "config"
  /\ a = NextInRotation
  /\ at' = [at EXCEPT ![t] = a]
  /\ held' = [held EXCEPT ![t] = cfg]
  /\ interval' = cfg.interval
  /\ timer' = (timer \/ cfg.interval # interval)
  /\ rotationIdx' = (rotationIdx + 1) % Span
  /\ over' = IF Exhausted(cfg, ledger) THEN over + 1 ELSE over
  /\ late' = IF running THEN late ELSE late + 1
  /\ UNCHANGED <<running, reason, busy, ledger, cfg, starting,
                 starts, changes>>

\* The end of every tick, its finally block.
TickEnds(t) ==
  /\ busy' = FALSE
  /\ at' = [at EXCEPT ![t] = "idle"]
  /\ held' = [held EXCEPT ![t] = NoConfig]

\* The configuration cannot be read: the tick ends without an action.
ConfigFails(t) ==
  /\ at[t] = "config"
  /\ TickEnds(t)
  /\ UNCHANGED <<loopVars, interval, rotationIdx, ledger, cfg, starting,
                 ghostVars>>

\* stop(): the first reason since the last start is kept.
Halt(r) ==
  /\ running' = FALSE
  /\ timer' = FALSE
  /\ reason' = IF reason = "none" THEN r ELSE reason

\* Mutant of ActionEnds: the caps are compared with the ledger as it was.
ActionEndsUnbooked(t, usd) ==
  /\ at[t] \in Actions
  /\ usd > 0 => at[t] = "thalamus"
  /\ ledger' = Booked(usd, IF at[t] = "thalamus" THEN 1 ELSE 0)
  /\ IF Exhausted(held[t], ledger)
     THEN Halt(StopReason(held[t], ledger))
     ELSE UNCHANGED loopVars
  /\ TickEnds(t)
  /\ UNCHANGED <<interval, rotationIdx, cfg, starting, ghostVars>>

\* The action answers or throws.  A thrown action costs nothing in the ledger,
\* but its cycle counts; only a cycle of Thalamus has a cost.  The caps are
\* those of the configuration that the tick has read.
ActionEnds(t, usd) ==
  /\ at[t] \in Actions
  /\ usd > 0 => at[t] = "thalamus"
  /\ ledger' = Booked(usd, IF at[t] = "thalamus" THEN 1 ELSE 0)
  /\ IF Exhausted(held[t], ledger')
     THEN Halt(StopReason(held[t], ledger'))
     ELSE UNCHANGED loopVars
  /\ TickEnds(t)
  /\ UNCHANGED <<interval, rotationIdx, cfg, starting, ghostVars>>

-----------------------------------------------------------------------------
(* Requests, settings and time *)

CallStart ==
  /\ ~running
  /\ starting < MaxCalls
  /\ starting' = starting + 1
  /\ UNCHANGED <<loopVars, tickVars, interval, rotationIdx, ledger, cfg,
                 ghostVars>>

\* start() after its await: nothing looks at running again.  The length asked
\* for is o, or that of the configuration if o is 0.
StartReturns(o) ==
  /\ starting > 0
  /\ starts < MaxStarts
  /\ starting' = starting - 1
  /\ running' = TRUE
  /\ timer' = TRUE
  /\ reason' = "none"
  /\ interval' = IF o = 0 THEN cfg.interval ELSE o
  /\ starts' = starts + 1
  /\ late' = 0
  /\ Tick(TRUE)
  /\ UNCHANGED <<rotationIdx, ledger, cfg, changes, over>>

StartFails ==
  /\ starting > 0
  /\ starting' = starting - 1
  /\ UNCHANGED <<loopVars, tickVars, interval, rotationIdx, ledger, cfg,
                 ghostVars>>

Stop ==
  /\ Halt("stopped_by_operator")
  /\ UNCHANGED <<tickVars, interval, rotationIdx, ledger, cfg, starting,
                 ghostVars>>

SetLedger(l) ==
  /\ ledger' = l
  /\ UNCHANGED <<loopVars, tickVars, interval, rotationIdx, cfg, starting,
                 ghostVars>>

ResetSpend == SetLedger([day |-> 0, older |-> 0, cycles |-> 0])

\* Entries become older than a day.
DayPasses ==
  \E usd \in 0..ledger.day, n \in 0..ledger.cycles :
    SetLedger([day |-> ledger.day - usd,
               older |-> AtMost(ledger.older + usd, MaxUsd),
               cycles |-> ledger.cycles - n])

\* Entries become older than a month.
MonthPasses ==
  \E usd \in 0..ledger.older : SetLedger([ledger EXCEPT !.older = @ - usd])

ChangeConfig(c) ==
  /\ c # cfg
  /\ changes < MaxChanges
  /\ cfg' = c
  /\ changes' = changes + 1
  /\ UNCHANGED <<loopVars, tickVars, interval, rotationIdx, ledger, starting,
                 starts, over, late>>

Next ==
  \/ IntervalFires
  \/ \E t \in Ticks, a \in Actions : ConfigRead(t, a)
  \/ \E t \in Ticks : ConfigFails(t)
  \/ \E t \in Ticks, usd \in 0..MaxCost : ActionEnds(t, usd)
  \/ CallStart
  \/ \E o \in Intervals \cup {0} : StartReturns(o)
  \/ StartFails
  \/ Stop
  \/ ResetSpend
  \/ DayPasses
  \/ MonthPasses
  \/ \E c \in Configs : ChangeConfig(c)

Spec == Init /\ [][Next]_vars

\* The interval fires, the configuration can be read again and again until it
\* answers, and an action ends.
FairSpec ==
  /\ Spec
  /\ WF_vars(IntervalFires)
  /\ \A t \in Ticks :
       /\ SF_vars(\E a \in Actions : ConfigRead(t, a))
       /\ WF_vars(\E usd \in 0..MaxCost : ActionEnds(t, usd))

-----------------------------------------------------------------------------
(* Properties *)

Working == {t \in Ticks : at[t] # "idle"}

\* However start(), stop() and the intervals interleave, two ticks are never
\* under way together: busy belongs to the service and outlives a restart.
OneTickAtATime == Cardinality(Working) <= 1

\* Caps are looked at only after an action, so an exhausted budget can be
\* overspent: by one action for each start() and each change of the settings,
\* and by no more, although start() calls overlap and a tick checks the caps of
\* the configuration it has read before.
OverspendBounded == over <= starts + changes

\* stop() lets at most the one tick that waits for its configuration begin an
\* action, until the next start().
AtMostOneLateAction == late <= 1

\* A loop that has been started and does not run shows why it stopped, and one
\* that runs shows nothing.
StopIsExplained == starts > 0 => (running <=> reason = "none")

\* While the loop runs and its configuration stands, each action of the
\* rotation begins again and again, in spite of ticks that fail to read it.
RotationIsFair ==
  \A c \in Configs : \A a \in Actions :
    (\E i \in DOMAIN Rotation(c) : Rotation(c)[i] = a) =>
      (<>[](running /\ cfg = c) => []<>(\E t \in Ticks : at[t] = a))
=============================================================================

----------------------------- MODULE DagExecutor -----------------------------
(***************************************************************************)
(* One call of ThalamusDAGExecutor.execute(): the cortices of a plan run   *)
(* level by level, those of a level in parallel, each against a timeout    *)
(* and against the caller's abort.                                         *)
(***************************************************************************)
EXTENDS Dag, Naturals, FiniteSets, Functions

CONSTANTS Cortices  \* names that plans use

VARIABLES
  plan,      \* what each cortex of the plan depends on
  exec,      \* the call: "idle", "running", "done", "threw"
  at,        \* per cortex: the await of its executeNode(), or how it settled
  outputs,   \* the map of outputs, written when a level has ended
  upstream,  \* per cortex: the outputs it was given as context
  aborted    \* the caller's signal

dagVars == <<plan, exec, at, outputs, upstream>>

\* What a cortex brings: findings worth keeping, findings of low confidence
\* only, none.
Outputs == {"kept", "low", "none"}
Settled == Outputs \cup {"rejected"}

\* Maps whose keys are cortices and whose values are in S.
MapsTo(S) == UNION {[D -> S] : D \in SUBSET Cortices}

NoPlan == [c \in {} |-> {}]
NoMap == [c \in {} |-> "none"]

DagTypeOK ==
  /\ plan \in MapsTo(SUBSET Cortices)
  /\ exec \in {"idle", "running", "done", "threw"}
  /\ at \in [Cortices -> {"waiting", "config", "cortex"} \cup Settled]
  /\ outputs \in MapsTo(Outputs)
  /\ upstream \in [Cortices -> MapsTo(Outputs)]
  /\ aborted \in BOOLEAN

DagInit ==
  /\ plan = NoPlan
  /\ exec = "idle"
  /\ at = [c \in Cortices |-> "waiting"]
  /\ outputs = NoMap
  /\ upstream = [c \in Cortices |-> NoMap]
  /\ aborted = FALSE

\* The locals of a call are gone once its caller has read the result.
Forget ==
  /\ exec' = "idle"
  /\ at' = [c \in Cortices |-> "waiting"]
  /\ outputs' = NoMap
  /\ upstream' = [c \in Cortices |-> NoMap]

-----------------------------------------------------------------------------
(* Nodes *)

\* executeNode() up to its first await, for the nodes of a level.
LevelBegins(p, out) ==
  LET level == Ready(p, DOMAIN out) IN
  /\ at' = [c \in Cortices |-> IF c \in level THEN "config" ELSE at[c]]
  /\ upstream' = [c \in Cortices |->
                    IF c \in level THEN Restrict(out, p[c] \cap DOMAIN out)
                    ELSE upstream[c]]

Goes(c, from, to) ==
  /\ at[c] = from
  /\ at' = [at EXCEPT ![c] = to]
  /\ UNCHANGED <<plan, exec, outputs, upstream>>

\* The cortex is called; the race against a signal already aborted is lost.
ConfigRead(c) == Goes(c, "config", IF aborted THEN "rejected" ELSE "cortex")

ConfigFails(c) == Goes(c, "config", "rejected")

CortexAnswers(c) == \E o \in Outputs : Goes(c, "cortex", o)

\* Mutant of TimesOut: no timer.
NeverTimesOut(c) == FALSE /\ Goes(c, "cortex", "rejected")

\* The cortex fails or its timer fires; an answer after that finds the race
\* decided.
TimesOut(c) == Goes(c, "cortex", "rejected")

\* onAbort() of every node in the race.
SignalAborts ==
  /\ ~aborted
  /\ aborted' = TRUE
  /\ at' = [c \in Cortices |-> IF at[c] = "cortex" THEN "rejected" ELSE at[c]]
  /\ UNCHANGED <<plan, exec, outputs, upstream>>

-----------------------------------------------------------------------------
(* execute() *)

\* execute(p) up to its first await.
Execute(p) ==
  /\ plan' = p
  /\ UNCHANGED outputs
  /\ IF ~aborted /\ Valid(p)
     THEN exec' = "running" /\ LevelBegins(p, outputs)
     ELSE exec' = "threw" /\ UNCHANGED <<at, upstream>>

\* What the map of outputs holds for a node: a failure brings none.
Brought(answer) == IF answer = "rejected" THEN "none" ELSE answer

Gathered == [c \in {d \in DOMAIN plan : at[d] \in Settled} |-> Brought(at[c])]

LevelSettled ==
  /\ exec = "running"
  /\ \A c \in Cortices : at[c] \notin {"config", "cortex"}
  /\ UNCHANGED plan

\* Outputs of the level, then the next level or the end.
Continue ==
  /\ outputs' = Gathered
  /\ IF DOMAIN Gathered = DOMAIN plan
     THEN exec' = "done" /\ UNCHANGED <<at, upstream>>
     ELSE LevelBegins(plan, Gathered) /\ UNCHANGED exec

\* Mutant of LevelEnds: the signal is not looked at between two levels.
LevelEndsBlind == LevelSettled /\ Continue

\* From Promise.allSettled() to the next one.
LevelEnds ==
  /\ LevelSettled
  /\ IF aborted
     THEN exec' = "threw" /\ UNCHANGED <<at, outputs, upstream>>
     ELSE Continue

-----------------------------------------------------------------------------
(* Properties *)

\* Every node that has started was given the outputs of exactly what it
\* depends on, each one final: no level starts before what it needs
\* (topologicalLevels, executeNode).
UpstreamIsComplete ==
  \A c \in DOMAIN plan : at[c] # "waiting" =>
    /\ plan[c] \subseteq DOMAIN outputs
    /\ upstream[c] = [d \in plan[c] |-> Brought(at[d])]

\* A call that ends has run every node of its plan, and one failed, slow or
\* misconfigured cortex never makes it throw: only an abort or an invalid plan
\* does (the loop over allSettled results).
ExecutionIsWhole ==
  /\ exec = "done" =>
       /\ DOMAIN outputs = DOMAIN plan
       /\ \A c \in DOMAIN plan : at[c] \in Settled /\ outputs[c] = Brought(at[c])
  /\ exec = "threw" => aborted \/ ~Valid(plan)
=============================================================================

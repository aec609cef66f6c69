--------------------------- MODULE ResearchProofs ----------------------------
(***************************************************************************)
(* Theorems of DagExecutor and ResearchCycle, for any cortices, any plans  *)
(* and any budgets.                                                        *)
(***************************************************************************)
EXTENDS ResearchCycle, FiniteSetTheorems, TLAPS

(***************************************************************************)
(* The invariant of execute(): a node that has started belongs to a plan   *)
(* being run and finds all it depends on among the outputs, and an output  *)
(* is final, since its node has settled.                                   *)
(***************************************************************************)

StartedIsPlanned ==
  \A c \in Cortices : at[c] # "waiting" =>
    /\ exec # "idle" /\ c \in DOMAIN plan
    /\ plan[c] \subseteq DOMAIN outputs

OutputsAreFinal ==
  /\ DOMAIN outputs \subseteq DOMAIN plan
  /\ \A c \in DOMAIN outputs : at[c] \in Settled /\ outputs[c] = Brought(at[c])
  /\ exec = "idle" => outputs = NoMap

DagInv ==
  /\ DagTypeOK
  /\ StartedIsPlanned
  /\ OutputsAreFinal
  /\ UpstreamIsComplete
  /\ ExecutionIsWhole

-----------------------------------------------------------------------------
(* Maps and plans *)

LEMMA MapType ==
  ASSUME NEW S, NEW D \in SUBSET Cortices, NEW f \in [D -> S]
  PROVE  f \in MapsTo(S)
  BY DEF MapsTo

LEMMA MapDomain ==
  ASSUME NEW S, NEW f \in MapsTo(S)
  PROVE  DOMAIN f \subseteq Cortices /\ f \in [DOMAIN f -> S]
<1>1. PICK D \in SUBSET Cortices : f \in [D -> S]
  BY DEF MapsTo
<1>2. QED
  BY <1>1

LEMMA EmptyMaps == NoMap \in MapsTo(Outputs) /\ NoPlan \in MapsTo(SUBSET Cortices)
<1>1. NoMap \in [{} -> Outputs] /\ NoPlan \in [{} -> SUBSET Cortices]
  BY DEF NoMap, NoPlan
<1>2. QED
  BY <1>1, MapType

LEMMA BroughtType == \A a \in Settled : Brought(a) \in Outputs
  BY DEF Settled, Brought, Outputs

\* A valid plan is never stuck: while nodes remain, one of them has all it
\* depends on, so topologicalLevels() never builds an empty level.
THEOREM LevelsNeverEmpty ==
  ASSUME NEW p \in MapsTo(SUBSET Cortices), Valid(p),
         NEW done \in SUBSET DOMAIN p, done # DOMAIN p
  PROVE  Ready(p, done) # {}
<1>1. PICK c \in DOMAIN p \ done : p[c] \cap (DOMAIN p \ done) = {}
  BY DEF Valid, Acyclic
<1>2. p[c] \subseteq done
  BY <1>1 DEF Valid
<1>3. QED
  BY <1>1, <1>2 DEF Ready

-----------------------------------------------------------------------------
(* Steps of execute() *)

LEMMA DagInitInv == DagInit => DagInv
<1> SUFFICES ASSUME DagInit PROVE DagInv
  OBVIOUS
<1>1. DagTypeOK
  BY EmptyMaps DEF DagInit, DagTypeOK
<1>2. StartedIsPlanned /\ OutputsAreFinal /\ UpstreamIsComplete
  BY MapDomain, EmptyMaps DEF DagInit, StartedIsPlanned, OutputsAreFinal, UpstreamIsComplete, NoMap, NoPlan
<1>3. ExecutionIsWhole
  BY DEF DagInit, ExecutionIsWhole
<1>4. QED
  BY <1>1, <1>2, <1>3 DEF DagInv

\* A node that settles, or is called.
LEMMA GoesKeepsDagInv ==
  ASSUME DagInv, NEW c \in Cortices, NEW from \in {"config", "cortex"}, NEW to \in Settled \cup {"cortex"},
         Goes(c, from, to), UNCHANGED aborted
  PROVE  DagInv'
<1> USE DEF Goes
<1>1. DagTypeOK'
  BY DEF DagInv, DagTypeOK
<1>2. at[c] \notin Settled
  BY DEF Settled, Outputs
<1>3. \A d \in Cortices : d # c => at'[d] = at[d]
  BY DEF DagInv, DagTypeOK
<1>4. DOMAIN plan \subseteq Cortices
  BY MapDomain DEF DagInv, DagTypeOK
<1>5. StartedIsPlanned'
  BY <1>3 DEF DagInv, StartedIsPlanned
<1>6. c \notin DOMAIN outputs
  BY <1>2 DEF DagInv, OutputsAreFinal
<1>7. OutputsAreFinal'
  BY <1>3, <1>4, <1>6 DEF DagInv, OutputsAreFinal
<1>8. UpstreamIsComplete'
  <2>1. SUFFICES ASSUME NEW d \in DOMAIN plan, at'[d] # "waiting"
                 PROVE  /\ plan[d] \subseteq DOMAIN outputs
                        /\ upstream[d] = [e \in plan[d] |-> Brought(at'[e])]
    BY DEF UpstreamIsComplete
  <2>2. at[d] # "waiting"
    BY <2>1, <1>3, <1>4
  <2>3. /\ plan[d] \subseteq DOMAIN outputs
        /\ upstream[d] = [e \in plan[d] |-> Brought(at[e])]
    BY <2>2 DEF DagInv, UpstreamIsComplete
  <2>4. \A e \in plan[d] : at'[e] = at[e]
    BY <2>3, <1>3, <1>4, <1>6 DEF DagInv, OutputsAreFinal
  <2>5. QED
    BY <2>3, <2>4
<1>9. ExecutionIsWhole'
  <2>1. c \in DOMAIN plan
    BY DEF DagInv, StartedIsPlanned
  <2>2. exec # "done"
    BY <1>2, <2>1 DEF DagInv, ExecutionIsWhole
  <2>3. QED
    BY <2>2 DEF DagInv, ExecutionIsWhole
<1>10. QED
  BY <1>1, <1>5, <1>7, <1>8, <1>9 DEF DagInv

LEMMA AbortKeepsDagInv == DagInv /\ SignalAborts => DagInv'
<1> SUFFICES ASSUME DagInv, SignalAborts PROVE DagInv'
  OBVIOUS
<1> USE DEF SignalAborts
<1>1. DOMAIN plan \subseteq Cortices
  BY MapDomain DEF DagInv, DagTypeOK
<1>2. \A c \in Cortices : at[c] # "cortex" => at'[c] = at[c]
  OBVIOUS
<1>3. \A c \in Cortices : at[c] \in Settled => at'[c] = at[c]
  BY DEF Settled, Outputs
<1>4. DagTypeOK'
  BY DEF DagInv, DagTypeOK, Settled
<1>5. StartedIsPlanned'
  BY DEF DagInv, StartedIsPlanned
<1>6. OutputsAreFinal'
  BY <1>1, <1>3 DEF DagInv, OutputsAreFinal
<1>7. UpstreamIsComplete'
  <2>1. SUFFICES ASSUME NEW d \in DOMAIN plan, at'[d] # "waiting"
                 PROVE  /\ plan[d] \subseteq DOMAIN outputs
                        /\ upstream[d] = [e \in plan[d] |-> Brought(at'[e])]
    BY DEF UpstreamIsComplete
  <2>2. at[d] # "waiting"
    BY <2>1, <1>1
  <2>3. /\ plan[d] \subseteq DOMAIN outputs
        /\ upstream[d] = [e \in plan[d] |-> Brought(at[e])]
    BY <2>2 DEF DagInv, UpstreamIsComplete
  <2>4. \A e \in plan[d] : at'[e] = at[e]
    BY <2>3, <1>1, <1>3 DEF DagInv, OutputsAreFinal
  <2>5. QED
    BY <2>3, <2>4
<1>8. ExecutionIsWhole'
  BY <1>1, <1>3 DEF DagInv, ExecutionIsWhole
<1>9. QED
  BY <1>4, <1>5, <1>6, <1>7, <1>8 DEF DagInv

\* The nodes of a level are all in the plan, and what each depends on is done.
LEMMA LevelReady ==
  ASSUME NEW p, NEW done, NEW c \in Ready(p, done)
  PROVE  c \in DOMAIN p /\ c \notin done /\ p[c] \subseteq done
  BY DEF Ready

LEMMA ExecuteKeepsDagInv ==
  ASSUME DagInv, exec = "idle", NEW p \in MapsTo(SUBSET Cortices),
         Execute(p), UNCHANGED aborted
  PROVE  DagInv'
<1>1. /\ outputs = NoMap /\ outputs' = NoMap /\ plan' = p
      /\ DOMAIN p \subseteq Cortices
      /\ \A c \in Cortices : at[c] = "waiting"
  BY MapDomain DEF DagInv, OutputsAreFinal, StartedIsPlanned, Execute
<1>2. DOMAIN NoMap = {}
  BY DEF NoMap
<1>3. CASE ~(~aborted /\ Valid(p))
  <2>1. exec' = "threw" /\ UNCHANGED <<at, upstream>>
    BY <1>3 DEF Execute
  <2>2. DagTypeOK'
    BY <1>1, <2>1 DEF DagInv, DagTypeOK
  <2>3. StartedIsPlanned' /\ OutputsAreFinal' /\ UpstreamIsComplete'
    BY <1>1, <1>2, <2>1 DEF StartedIsPlanned, OutputsAreFinal, UpstreamIsComplete
  <2>4. ExecutionIsWhole'
    BY <1>1, <1>3, <2>1 DEF ExecutionIsWhole, Valid, Acyclic
  <2>5. QED
    BY <2>2, <2>3, <2>4 DEF DagInv
<1>4. CASE ~aborted /\ Valid(p)
  <2> DEFINE level == Ready(p, {})
  <2>1. /\ exec' = "running"
        /\ at' = [c \in Cortices |-> IF c \in level THEN "config" ELSE at[c]]
        /\ upstream' = [c \in Cortices |->
             IF c \in level THEN Restrict(NoMap, p[c] \cap {}) ELSE upstream[c]]
    BY <1>1, <1>2, <1>4 DEF Execute, LevelBegins
  <2>2. \A c \in level : c \in DOMAIN p /\ p[c] = {}
    BY LevelReady
  <2>3. \A c : Restrict(NoMap, p[c] \cap {}) = NoMap
    BY DEF Restrict, NoMap
  <2>4. DagTypeOK'
    <3>1. at' \in [Cortices -> {"waiting", "config", "cortex"} \cup Settled]
      BY <2>1 DEF DagInv, DagTypeOK
    <3>2. upstream' \in [Cortices -> MapsTo(Outputs)]
      BY <2>1, <2>3, EmptyMaps DEF DagInv, DagTypeOK
    <3>3. QED
      BY <1>1, <2>1, <3>1, <3>2 DEF DagInv, DagTypeOK
  <2>5. StartedIsPlanned' /\ OutputsAreFinal'
    BY <1>1, <1>2, <2>1, <2>2 DEF StartedIsPlanned, OutputsAreFinal
  <2>6. UpstreamIsComplete'
    <3>1. SUFFICES ASSUME NEW c \in DOMAIN p, at'[c] # "waiting"
                   PROVE  /\ p[c] \subseteq DOMAIN outputs'
                          /\ upstream'[c] = [e \in p[c] |-> Brought(at'[e])]
      BY <1>1 DEF UpstreamIsComplete
    <3>2. c \in level /\ c \in Cortices
      BY <1>1, <2>1, <3>1
    <3>3. upstream'[c] = NoMap /\ p[c] = {}
      BY <2>1, <2>2, <2>3, <3>2
    <3>4. QED
      BY <3>3 DEF NoMap
  <2>7. ExecutionIsWhole'
    BY <2>1 DEF ExecutionIsWhole
  <2>8. QED
    BY <2>4, <2>5, <2>6, <2>7 DEF DagInv
<1>5. QED
  BY <1>3, <1>4

LEMMA ForgetKeepsDagInv ==
  ASSUME DagInv, Forget, UNCHANGED <<plan, aborted>>
  PROVE  DagInv'
<1>1. DagTypeOK'
  BY EmptyMaps DEF DagInv, DagTypeOK, Forget
<1>2. DOMAIN plan \subseteq Cortices /\ DOMAIN NoMap = {}
  BY MapDomain DEF DagInv, DagTypeOK, NoMap
<1>3. StartedIsPlanned' /\ OutputsAreFinal' /\ UpstreamIsComplete' /\ ExecutionIsWhole'
  BY <1>2 DEF Forget, StartedIsPlanned, OutputsAreFinal, UpstreamIsComplete, ExecutionIsWhole
<1>4. QED
  BY <1>1, <1>3 DEF DagInv

\* What the map of outputs is when a level has ended: the outputs it had, and
\* one for each node of the level.
LEMMA GatheredExtends ==
  ASSUME DagInv
  PROVE  /\ Gathered \in MapsTo(Outputs)
         /\ DOMAIN outputs \subseteq DOMAIN Gathered
         /\ DOMAIN Gathered \subseteq DOMAIN plan
         /\ \A c \in DOMAIN Gathered :
              at[c] \in Settled /\ Gathered[c] = Brought(at[c])
<1> DEFINE D == {d \in DOMAIN plan : at[d] \in Settled}
<1>1. D \in SUBSET Cortices
  BY MapDomain DEF DagInv, DagTypeOK
<1>2. Gathered \in [D -> Outputs]
  BY BroughtType DEF Gathered
<1>3. Gathered \in MapsTo(Outputs)
  BY <1>1, <1>2, MapType
<1>4. DOMAIN Gathered = D
  BY DEF Gathered
<1>5. \A c \in D : Gathered[c] = Brought(at[c])
  BY DEF Gathered
<1>6. QED
  BY <1>3, <1>4, <1>5 DEF DagInv, OutputsAreFinal

LEMMA LevelEndsKeepsDagInv ==
  ASSUME DagInv, LevelEnds, UNCHANGED aborted
  PROVE  DagInv'
<1>1. /\ exec = "running" /\ plan' = plan
      /\ \A c \in Cortices : at[c] \notin {"config", "cortex"}
      /\ DOMAIN plan \subseteq Cortices
  BY MapDomain DEF LevelEnds, LevelSettled, DagInv, DagTypeOK
<1>2. CASE aborted
  <2>1. exec' = "threw" /\ UNCHANGED <<at, outputs, upstream>>
    BY <1>2 DEF LevelEnds
  <2>2. DagTypeOK'
    BY <1>1, <2>1 DEF DagInv, DagTypeOK
  <2>3. StartedIsPlanned' /\ OutputsAreFinal' /\ UpstreamIsComplete'
    BY <1>1, <2>1 DEF DagInv, StartedIsPlanned, OutputsAreFinal, UpstreamIsComplete
  <2>4. ExecutionIsWhole'
    BY <1>2, <2>1 DEF ExecutionIsWhole
  <2>5. QED
    BY <2>2, <2>3, <2>4 DEF DagInv
<1>3. CASE ~aborted /\ DOMAIN Gathered = DOMAIN plan
  <2>1. exec' = "done" /\ outputs' = Gathered /\ UNCHANGED <<at, upstream>>
    BY <1>3 DEF LevelEnds, Continue
  <2>2. DagTypeOK'
    BY <1>1, <2>1, GatheredExtends DEF DagInv, DagTypeOK
  <2>3. StartedIsPlanned' /\ OutputsAreFinal'
    BY <1>1, <2>1, GatheredExtends DEF DagInv, StartedIsPlanned, OutputsAreFinal
  <2>4. UpstreamIsComplete'
    BY <1>1, <2>1, GatheredExtends DEF DagInv, UpstreamIsComplete
  <2>5. ExecutionIsWhole'
    BY <1>1, <1>3, <2>1, GatheredExtends DEF ExecutionIsWhole
  <2>6. QED
    BY <2>2, <2>3, <2>4, <2>5 DEF DagInv
<1>4. CASE ~aborted /\ DOMAIN Gathered # DOMAIN plan
  <2> DEFINE level == Ready(plan, DOMAIN Gathered)
             given(c) == Restrict(Gathered, plan[c] \cap DOMAIN Gathered)
  <2>1. /\ exec' = "running" /\ outputs' = Gathered
        /\ at' = [c \in Cortices |-> IF c \in level THEN "config" ELSE at[c]]
        /\ upstream' = [c \in Cortices |->
                          IF c \in level THEN given(c) ELSE upstream[c]]
    BY <1>1, <1>4 DEF LevelEnds, Continue, LevelBegins
  <2>2. \A c \in level : /\ c \in DOMAIN plan /\ c \notin DOMAIN Gathered
                         /\ plan[c] \subseteq DOMAIN Gathered
    BY LevelReady
  <2>3. \A c \in DOMAIN Gathered : at'[c] = at[c]
    BY <1>1, <2>1, <2>2, GatheredExtends
  <2>4. \A c \in level : given(c) = [e \in plan[c] |-> Gathered[e]]
    BY <2>2 DEF Restrict
  <2>5. \A c \in level : given(c) \in MapsTo(Outputs)
    <3>1. TAKE c \in level
    <3>2. plan[c] \in SUBSET Cortices
      BY <1>1, <2>2, GatheredExtends
    <3>3. \A e \in plan[c] : Gathered[e] \in Outputs
      BY <2>2, GatheredExtends, BroughtType
    <3>4. given(c) \in [plan[c] -> Outputs]
      BY <2>4, <3>3
    <3>5. QED
      BY <3>2, <3>4, MapType
  <2>6. DagTypeOK'
    <3>1. at' \in [Cortices -> {"waiting", "config", "cortex"} \cup Settled]
      BY <2>1 DEF DagInv, DagTypeOK
    <3>2. upstream' \in [Cortices -> MapsTo(Outputs)]
      BY <2>1, <2>5 DEF DagInv, DagTypeOK
    <3>3. QED
      BY <1>1, <2>1, <3>1, <3>2, GatheredExtends DEF DagInv, DagTypeOK
  <2>7. StartedIsPlanned'
    BY <1>1, <2>1, <2>2, GatheredExtends DEF DagInv, StartedIsPlanned
  <2>8. OutputsAreFinal'
    BY <1>1, <2>1, <2>3, GatheredExtends DEF OutputsAreFinal
  <2>9. UpstreamIsComplete'
    <3>1. SUFFICES ASSUME NEW c \in DOMAIN plan, at'[c] # "waiting"
                   PROVE  /\ plan[c] \subseteq DOMAIN Gathered
                          /\ upstream'[c] = [e \in plan[c] |-> Brought(at'[e])]
      BY <1>1, <2>1 DEF UpstreamIsComplete
    <3>2. c \in Cortices
      BY <1>1
    <3>3. CASE c \in level
      <4>1. upstream'[c] = [e \in plan[c] |-> Gathered[e]]
        BY <2>1, <2>4, <3>2, <3>3
      <4>2. \A e \in plan[c] : Gathered[e] = Brought(at'[e])
        BY <2>2, <2>3, <3>3, GatheredExtends
      <4>3. QED
        BY <2>2, <3>3, <4>1, <4>2
    <3>4. CASE c \notin level
      <4>1. at[c] # "waiting" /\ upstream'[c] = upstream[c]
        BY <2>1, <3>1, <3>2, <3>4
      <4>2. /\ plan[c] \subseteq DOMAIN outputs
            /\ upstream[c] = [e \in plan[c] |-> Brought(at[e])]
        BY <4>1 DEF DagInv, UpstreamIsComplete
      <4>3. \A e \in plan[c] : at'[e] = at[e]
        BY <2>3, <4>2, GatheredExtends
      <4>4. QED
        BY <4>1, <4>2, <4>3, GatheredExtends
    <3>5. QED
      BY <3>3, <3>4
  <2>10. ExecutionIsWhole'
    BY <2>1 DEF ExecutionIsWhole
  <2>11. QED
    BY <2>6, <2>7, <2>8, <2>9, <2>10 DEF DagInv
<1>5. QED
  BY <1>2, <1>3, <1>4

-----------------------------------------------------------------------------
(***************************************************************************)
(* The invariant of runCycle(): what each await says of the row, of the    *)
(* counters and of the abort.                                              *)
(***************************************************************************)

CycleTypeOK ==
  /\ pc \in Awaits \cup Ended \cup {"idle"}
  /\ row \in {"none", "orphan", "running", "completed", "failed"}
  /\ maxIter \in Nat /\ iteration \in 0..maxIter
  /\ cost \in 0..MaxCost
  /\ total \in Nat /\ found \in Seq(Nat)
  /\ zeroRuns \in 0..ZeroStop
  /\ lastGaps \in Gaps \cup {NoGaps}
  /\ sameGaps \in 0..GapStop
  /\ stopReason \in Reasons
  /\ stored \in Nat /\ failed \in Nat
  /\ gapsSeen \in Seq(Gaps \cup {NoGaps})
  /\ abortedAt \in Awaits \cup Ended \cup {"idle", "no"}

CountersOfPlace ==
  /\ pc # "execute" => exec = "idle"
  /\ pc \in {"idle", "plan", "create", "config"} => iteration = 0 /\ sameGaps = 0
  /\ pc \in InLoop \cup {"idle", "plan", "create", "config"} =>
       zeroRuns < ZeroStop /\ sameGaps < GapStop

RowOfPlace ==
  /\ pc \in {"idle", "plan", "create"} => row = "none"
  /\ pc \in InLoop \cup {"config", "persist"} => row = "running"
  /\ pc = "read" => row = "completed"
  /\ RowTellsOutcome

StoredOfPlace ==
  /\ pc \in BeforePersist => stored = 0 /\ failed = 0
  /\ pc = "persist" => stopReason # "completed"
  /\ CompletedMeansAllTried

AbortOfPlace ==
  /\ ~aborted => abortedAt = "no"
  /\ abortedAt \in BeforePersist =>
       pc \in BeforePersist \cup {"failing", "threw", "gaveup"}
  /\ AbortIsHeeded

CycleInv ==
  /\ CycleTypeOK
  /\ CountersOfPlace
  /\ RowOfPlace
  /\ StoredOfPlace
  /\ AbortOfPlace

IInv == DagInv /\ CycleInv

LEMMA TypesSplit == TypeOK <=> DagTypeOK /\ CycleTypeOK
  BY DEF TypeOK, CycleTypeOK

-----------------------------------------------------------------------------
(* Every step keeps the invariant of execute() *)

LEMMA LoopHeadKeepsDagInv ==
  ASSUME DagInv, exec = "idle", NEW p \in MapsTo(SUBSET Cortices), NEW budget,
         LoopHead(p, budget), UNCHANGED aborted
  PROVE  DagInv'
<1>1. CASE Execute(p)
  BY <1>1, ExecuteKeepsDagInv
<1>2. CASE UNCHANGED dagVars
  BY <1>2 DEF dagVars, DagInv, DagTypeOK, StartedIsPlanned, OutputsAreFinal,
     UpstreamIsComplete, ExecutionIsWhole, Valid, Acyclic
<1>3. QED
  BY <1>1, <1>2 DEF LoopHead

LEMMA PlansAreMaps == Plans \cup {NoPlan} \subseteq MapsTo(SUBSET Cortices)
  BY EmptyMaps, CycleAssumption

LEMMA DagStepKeepsDagInv ==
  ASSUME DagInv, DagProgress \/ Answer
  PROVE  DagInv'
<1>1. UNCHANGED aborted
  BY DEF DagProgress, Answer
<1>2. ASSUME NEW c \in Cortices,
             ConfigRead(c) \/ ConfigFails(c) \/ TimesOut(c) \/ CortexAnswers(c)
      PROVE  DagInv'
  <2>1. PICK from \in {"config", "cortex"}, to \in Settled \cup {"cortex"} :
          Goes(c, from, to)
    BY <1>2 DEF ConfigRead, ConfigFails, TimesOut, CortexAnswers, Settled
  <2>2. QED
    BY <1>1, <2>1, GoesKeepsDagInv
<1>3. QED
  BY <1>1, <1>2, LevelEndsKeepsDagInv DEF DagProgress, Answer

LEMMA StepKeepsDagInv == DagInv /\ CycleInv /\ [Next]_vars => DagInv'
<1> SUFFICES ASSUME DagInv, CycleInv, [Next]_vars PROVE DagInv'
  OBVIOUS
<1>1. ASSUME UNCHANGED <<dagVars, aborted>> PROVE DagInv'
  BY <1>1 DEF dagVars, DagInv, DagTypeOK, StartedIsPlanned, OutputsAreFinal,
     UpstreamIsComplete, ExecutionIsWhole, Valid, Acyclic
<1>2. CASE PlanMade
  <2>1. /\ plan' \in MapsTo(SUBSET Cortices)
        /\ exec = "idle" /\ UNCHANGED <<exec, at, outputs, upstream, aborted>>
    BY <1>2, PlansAreMaps DEF PlanMade, Await, CycleInv, CountersOfPlace
  <2>2. DagTypeOK'
    BY <2>1 DEF DagInv, DagTypeOK
  <2>3. DOMAIN plan' \subseteq Cortices /\ outputs = NoMap /\ DOMAIN NoMap = {}
    BY <2>1, MapDomain DEF DagInv, OutputsAreFinal, NoMap
  <2>4. \A c \in Cortices : at[c] = "waiting"
    BY <2>1 DEF DagInv, StartedIsPlanned
  <2>5. StartedIsPlanned' /\ OutputsAreFinal' /\ UpstreamIsComplete' /\ ExecutionIsWhole'
    BY <2>1, <2>3, <2>4 DEF StartedIsPlanned, OutputsAreFinal, UpstreamIsComplete, ExecutionIsWhole
  <2>6. QED
    BY <2>2, <2>5 DEF DagInv
<1>3. CASE BudgetRead
  <2>1. plan \in MapsTo(SUBSET Cortices) /\ exec = "idle"
    BY <1>3 DEF BudgetRead, DagInv, DagTypeOK, CycleInv, CountersOfPlace
  <2>2. LoopHead(plan, maxIter') /\ UNCHANGED aborted
    BY <1>3 DEF BudgetRead
  <2>3. QED
    BY <2>1, <2>2, LoopHeadKeepsDagInv
<1>4. CASE Replanned
  <2>1. exec = "idle" /\ UNCHANGED aborted
    BY <1>4 DEF Replanned, CycleInv, CountersOfPlace
  <2>2. PICK p \in MapsTo(SUBSET Cortices) : LoopHead(p, maxIter)
    BY <1>4, PlansAreMaps DEF Replanned
  <2>3. QED
    BY <2>1, <2>2, LoopHeadKeepsDagInv
<1>5. CASE DagProgress \/ Answer
  BY <1>5, DagStepKeepsDagInv
<1>6. CASE ExecutionThrew \/ Evaluate
  BY <1>6, ForgetKeepsDagInv DEF ExecutionThrew, Evaluate
<1>7. CASE Abort
  BY <1>7, AbortKeepsDagInv DEF Abort
<1>8. CASE PlanRejects \/ Created \/ CreateFails \/ BudgetFails \/ Sufficient
           \/ Insufficient \/ AbortError \/ RunCycle
  BY <1>1, <1>8 DEF PlanRejects, Created, CreateFails, BudgetFails, Sufficient,
     Insufficient, AbortError, RunCycle
<1>9. CASE StoreOne \/ Complete \/ CompleteFails \/ Read \/ ReadFails
           \/ FailRow \/ FailRowFails
  BY <1>1, <1>9 DEF StoreOne, Complete, CompleteFails, Read, ReadFails, FailRow,
     FailRowFails
<1>10. CASE UNCHANGED vars
  BY <1>1, <1>10 DEF vars
<1>11. QED
  BY <1>2, <1>3, <1>4, <1>5, <1>6, <1>7, <1>8, <1>9, <1>10 DEF Next, Progress

-----------------------------------------------------------------------------
(* Every step keeps the invariant of runCycle() *)

LEMMA InitIInv == Init => IInv
<1> SUFFICES ASSUME Init PROVE IInv
  OBVIOUS
<1>1. DagInv
  BY DagInitInv DEF Init
<1>2. CycleTypeOK
  BY CycleAssumption DEF Init, CycleTypeOK, Awaits, Ended, Reasons, ZeroStop, GapStop
<1>3. CountersOfPlace /\ RowOfPlace /\ StoredOfPlace /\ AbortOfPlace
  BY DEF Init, DagInit, CountersOfPlace, RowOfPlace, StoredOfPlace, AbortOfPlace,
     RowTellsOutcome, CompletedMeansAllTried, AbortIsHeeded, ZeroStop, GapStop,
     InLoop, BeforePersist
<1>4. QED
  BY <1>1, <1>2, <1>3 DEF IInv, CycleInv

\* The calls made before the loop.
LEMMA StartKeepsCycleInv ==
  ASSUME CycleInv,
         RunCycle \/ PlanMade \/ PlanRejects \/ Created \/ CreateFails \/ BudgetFails
  PROVE  CycleInv'
<1> USE DEF CycleInv, RunCycle, PlanMade, PlanRejects, Created, CreateFails,
            BudgetFails, Await, loopVars, dagVars
<1>1. CycleTypeOK'
  BY DEF CycleTypeOK, Awaits, Ended
<1>2. CountersOfPlace'
  BY DEF CountersOfPlace, InLoop
<1>3. RowOfPlace'
  BY DEF RowOfPlace, InLoop, RowTellsOutcome
<1>4. StoredOfPlace'
  BY DEF StoredOfPlace, BeforePersist, CompletedMeansAllTried, InLoop, RowOfPlace
<1>5. AbortOfPlace'
  BY DEF AbortOfPlace, AbortIsHeeded, BeforePersist, InLoop, RowOfPlace
<1>6. QED
  BY <1>1, <1>2, <1>3, <1>4, <1>5

\* The calls made after it.
LEMMA EndKeepsCycleInv ==
  ASSUME CycleInv,
         StoreOne \/ Complete \/ CompleteFails \/ Read \/ ReadFails
           \/ FailRow \/ FailRowFails
  PROVE  CycleInv'
<1> USE DEF CycleInv, StoreOne, Complete, CompleteFails, Read, ReadFails, FailRow,
            FailRowFails, Await, AllTried, loopVars, dagVars
<1>1. CycleTypeOK'
  BY DEF CycleTypeOK, Awaits, Ended
<1>2. CountersOfPlace'
  BY DEF CountersOfPlace, InLoop
<1>3. RowOfPlace'
  BY DEF RowOfPlace, InLoop, RowTellsOutcome
<1>4. StoredOfPlace'
  BY DEF StoredOfPlace, BeforePersist, CompletedMeansAllTried, InLoop, RowOfPlace
<1>5. AbortOfPlace'
  BY DEF AbortOfPlace, AbortIsHeeded, BeforePersist, InLoop, RowOfPlace
<1>6. QED
  BY <1>1, <1>2, <1>3, <1>4, <1>5

\* Steps of the nodes, an abort, and the calls of the loop that fail.
LEMMA AsideKeepsCycleInv ==
  ASSUME DagInv, CycleInv,
         DagProgress \/ Answer \/ Abort \/ ExecutionThrew \/ AbortError
           \/ UNCHANGED vars
  PROVE  CycleInv'
<1> USE DEF CycleInv, DagProgress, Answer, Abort, SignalAborts, ExecutionThrew,
            AbortError, Await, cycleVars, loopVars, dagVars, vars
<1>1. CycleTypeOK'
  BY DEF CycleTypeOK, Awaits, Ended
<1>2. CountersOfPlace'
  <2>1. CASE DagProgress \/ Answer
    <3>1. exec # "idle"
      BY <2>1 DEF ConfigRead, ConfigFails, TimesOut, CortexAnswers, Goes, LevelEnds,
         LevelSettled, DagInv, StartedIsPlanned
    <3>2. QED
      BY <2>1, <3>1 DEF CountersOfPlace
  <2>2. CASE Abort \/ ExecutionThrew \/ AbortError \/ UNCHANGED vars
    BY <2>2 DEF CountersOfPlace, InLoop, Forget
  <2>3. QED
    BY <2>1, <2>2
<1>3. RowOfPlace'
  BY DEF RowOfPlace, InLoop, RowTellsOutcome
<1>4. StoredOfPlace'
  BY DEF StoredOfPlace, BeforePersist, CompletedMeansAllTried, InLoop
<1>5. AbortOfPlace'
  BY DEF AbortOfPlace, AbortIsHeeded, BeforePersist, InLoop, RowOfPlace, StoredOfPlace
<1>6. QED
  BY <1>1, <1>2, <1>3, <1>4, <1>5

\* The head of the loop, from the budget or from a new plan.
LEMMA LoopHeadKeepsCycleInv ==
  ASSUME DagInv, CycleInv, BudgetRead \/ Replanned
  PROVE  CycleInv'
<1>1. PICK p : LoopHead(p, maxIter')
  BY DEF BudgetRead, Replanned
<1>2. /\ pc \in {"config", "replan"} /\ exec = "idle" /\ row = "running"
      /\ UNCHANGED <<aborted, row, cost, total, zeroRuns, lastGaps, sameGaps, found,
                     gapsSeen, stored, failed, abortedAt>>
      /\ maxIter' \in Nat /\ iteration \in 0..maxIter'
      /\ stored = 0 /\ failed = 0
  <2>1. CASE BudgetRead
    <3>1. maxIter' \in Nat /\ iteration = 0
      BY <2>1, CycleAssumption DEF BudgetRead, CycleInv, CountersOfPlace
    <3>2. QED
      BY <2>1, <3>1 DEF BudgetRead, CycleInv, CountersOfPlace, RowOfPlace,
         StoredOfPlace, BeforePersist, InLoop
  <2>2. CASE Replanned
    BY <2>2 DEF Replanned, CycleInv, CycleTypeOK, CountersOfPlace, RowOfPlace,
       StoredOfPlace, BeforePersist, InLoop
  <2>3. QED
    BY <2>1, <2>2
<1>3. \/ /\ pc' = "execute" /\ ~aborted
         /\ iteration < maxIter' /\ iteration' = iteration + 1
         /\ UNCHANGED stopReason
      \/ /\ pc' = IF aborted THEN "failing" ELSE "persist"
         /\ stopReason' = "max-iterations" /\ UNCHANGED <<dagVars, iteration>>
      \/ /\ pc' = "failing" /\ UNCHANGED <<dagVars, iteration, stopReason>>
  BY <1>1, <1>2 DEF LoopHead, Leave
<1>4. CycleTypeOK'
  BY <1>2, <1>3 DEF CycleInv, CycleTypeOK, Awaits, InLoop, Reasons
<1>5. CountersOfPlace'
  BY <1>2, <1>3 DEF CycleInv, CountersOfPlace, InLoop, dagVars
<1>6. RowOfPlace'
  BY <1>2, <1>3 DEF RowOfPlace, InLoop, RowTellsOutcome
<1>7. StoredOfPlace'
  BY <1>2, <1>3 DEF StoredOfPlace, BeforePersist, CompletedMeansAllTried
<1>8. AbortOfPlace'
  BY <1>2, <1>3 DEF CycleInv, AbortOfPlace, AbortIsHeeded, BeforePersist, InLoop
<1>9. QED
  BY <1>4, <1>5, <1>6, <1>7, <1>8 DEF CycleInv

\* A count of outputs is a number.
LEMMA BringingType == DagInv => \A o : Bringing(o) \in Nat
<1> SUFFICES ASSUME DagInv, NEW o PROVE Bringing(o) \in Nat
  OBVIOUS
<1>1. {c \in DOMAIN outputs : outputs[c] = o} \subseteq Cortices
  BY MapDomain DEF DagInv, DagTypeOK
<1>2. QED
  BY <1>1, CycleAssumption, FS_Subset, FS_CardinalityType DEF Bringing

LEMMA ReflectionKeepsCycleInv ==
  ASSUME CycleInv, Sufficient \/ Insufficient
  PROVE  CycleInv'
<1> USE DEF CycleInv, Sufficient, Insufficient, Leave
<1>1. CycleTypeOK'
  <2>1. CASE Sufficient
    BY <2>1 DEF CycleTypeOK, Awaits, InLoop, Reasons
  <2>2. CASE Insufficient
    <3>1. PICK g \in Gaps \cup {NoGaps} :
            gapsSeen' = Append(gapsSeen, g) /\ lastGaps' = g /\ sameGaps' = SameGaps(g)
      BY <2>2
    <3>2. gapsSeen' \in Seq(Gaps \cup {NoGaps}) /\ lastGaps' \in Gaps \cup {NoGaps}
      BY <3>1 DEF CycleTypeOK
    <3>3. sameGaps' \in 0..GapStop
      BY <2>2, <3>1 DEF CycleTypeOK, CountersOfPlace, InLoop, SameGaps, GapStop
    <3>4. pc' \in Awaits /\ stopReason' \in Reasons
      BY <2>2 DEF CycleTypeOK, Awaits, InLoop, Reasons
    <3>5. QED
      BY <2>2, <3>2, <3>3, <3>4 DEF CycleTypeOK
  <2>3. QED
    BY <2>1, <2>2
<1>2. CountersOfPlace'
  BY DEF CycleTypeOK, CountersOfPlace, InLoop, dagVars, SameGaps, ZeroStop, GapStop
<1>3. RowOfPlace'
  BY DEF RowOfPlace, InLoop, RowTellsOutcome
<1>4. StoredOfPlace'
  BY DEF StoredOfPlace, BeforePersist, CompletedMeansAllTried, InLoop, RowOfPlace
<1>5. AbortOfPlace'
  BY DEF AbortOfPlace, AbortIsHeeded, BeforePersist, InLoop
<1>6. QED
  BY <1>1, <1>2, <1>3, <1>4, <1>5

\* What a round changes, in numbers.
LEMMA EvaluateCounts ==
  ASSUME DagInv, CycleInv, Evaluate
  PROVE  \E kept \in Nat, reason \in Reasons :
           /\ found' = Append(found, kept) /\ total' = total + kept
           /\ zeroRuns' = Zeros(kept) /\ zeroRuns' \in 0..ZeroStop
           /\ cost' \in 0..MaxCost
           /\ reason = "consecutive-zero-runs" => zeroRuns' >= ZeroStop
           /\ reason = "cost-exhausted" => cost' >= MaxCost
           /\ reason = "max-iterations" => iteration >= maxIter
           /\ reason = "gap-plateau" => sameGaps >= GapStop
           /\ IF reason # "completed" THEN Leave(reason)
              ELSE /\ pc' = "reflect" /\ UNCHANGED stopReason
                   /\ zeroRuns' < ZeroStop /\ cost' < MaxCost
<1>1. PICK c \in 0..Cardinality({d \in DOMAIN plan : at[d] # "rejected"}),
           eager \in BOOLEAN :
        LET kept == Bringing("kept")
            reason == Decision(Zeros(kept), Spent(c), kept + Bringing("low"), eager)
        IN  /\ cost' = Spent(c) /\ total' = total + kept
            /\ found' = Append(found, kept) /\ zeroRuns' = Zeros(kept)
            /\ IF reason # "completed" THEN Leave(reason)
               ELSE pc' = "reflect" /\ UNCHANGED stopReason
  BY DEF Evaluate
<1> DEFINE kept == Bringing("kept")
           reason == Decision(Zeros(kept), Spent(c), kept + Bringing("low"), eager)
<1>2. kept \in Nat
  BY BringingType
<1>3. c \in Nat
  <2>1. {d \in DOMAIN plan : at[d] # "rejected"} \subseteq Cortices
    BY MapDomain DEF DagInv, DagTypeOK
  <2>2. Cardinality({d \in DOMAIN plan : at[d] # "rejected"}) \in Nat
    BY <2>1, CycleAssumption, FS_Subset, FS_CardinalityType
  <2>3. QED
    BY <2>2
<1>4. Spent(c) \in 0..MaxCost
  BY <1>3, CycleAssumption DEF Spent, CycleInv, CycleTypeOK
<1>5. Zeros(kept) \in 0..ZeroStop
  BY DEF Zeros, Evaluate, CycleInv, CycleTypeOK, CountersOfPlace, InLoop, ZeroStop
<1>6. /\ reason \in Reasons
      /\ reason = "consecutive-zero-runs" => Zeros(kept) >= ZeroStop
      /\ reason = "cost-exhausted" => Spent(c) >= MaxCost
      /\ reason = "max-iterations" => iteration >= maxIter
      /\ reason = "gap-plateau" => sameGaps >= GapStop
      /\ reason = "completed" => Zeros(kept) < ZeroStop /\ Spent(c) < MaxCost
  <2> DEFINE z == Zeros(kept)
             s == Spent(c)
             r == kept + Bringing("low")
  <2> HIDE DEF z, s, r
  <2>1. z \in Nat /\ s \in Nat
    BY <1>4, <1>5, CycleAssumption DEF z, s, ZeroStop
  <2>2. /\ Decision(z, s, r, eager) \in Reasons
        /\ Decision(z, s, r, eager) = "consecutive-zero-runs" => z >= ZeroStop
        /\ Decision(z, s, r, eager) = "cost-exhausted" => s >= MaxCost
        /\ Decision(z, s, r, eager) = "max-iterations" => iteration >= maxIter
        /\ Decision(z, s, r, eager) = "gap-plateau" => sameGaps >= GapStop
        /\ Decision(z, s, r, eager) = "completed" => z < ZeroStop /\ s < MaxCost
    BY <2>1, CycleAssumption DEF Decision, Reasons, ZeroStop
  <2>3. QED
    BY <2>2 DEF z, s, r
<1>7. QED
  BY <1>1, <1>2, <1>4, <1>5, <1>6

LEMMA EvaluateKeepsCycleInv ==
  ASSUME DagInv, CycleInv, Evaluate
  PROVE  CycleInv'
<1>1. PICK kept \in Nat, reason \in Reasons :
        /\ found' = Append(found, kept) /\ total' = total + kept
        /\ zeroRuns' \in 0..ZeroStop /\ cost' \in 0..MaxCost
        /\ IF reason # "completed" THEN Leave(reason)
           ELSE /\ pc' = "reflect" /\ UNCHANGED stopReason /\ zeroRuns' < ZeroStop
  BY EvaluateCounts
<1>2. /\ pc = "execute" /\ ~aborted /\ exec' = "idle"
      /\ UNCHANGED <<aborted, row, maxIter, iteration, lastGaps, sameGaps, gapsSeen,
                     stored, failed, abortedAt>>
  BY DEF Evaluate, Forget
<1>3. \/ pc' = "reflect" /\ UNCHANGED stopReason /\ zeroRuns' < ZeroStop
      \/ pc' = "persist" /\ stopReason' \in Reasons \ {"completed"}
  BY <1>1, <1>2 DEF Leave
<1>4. CycleTypeOK'
  BY <1>1, <1>2, <1>3 DEF CycleInv, CycleTypeOK, Awaits, InLoop
<1>5. CountersOfPlace'
  BY <1>2, <1>3 DEF CycleInv, CountersOfPlace, InLoop
<1>6. RowOfPlace'
  BY <1>2, <1>3 DEF CycleInv, RowOfPlace, InLoop, RowTellsOutcome
<1>7. StoredOfPlace'
  BY <1>2, <1>3 DEF CycleInv, StoredOfPlace, RowOfPlace, BeforePersist,
     CompletedMeansAllTried, InLoop
<1>8. AbortOfPlace'
  BY <1>2, <1>3 DEF CycleInv, AbortOfPlace, AbortIsHeeded, BeforePersist, InLoop
<1>9. QED
  BY <1>4, <1>5, <1>6, <1>7, <1>8 DEF CycleInv

LEMMA StepKeepsIInv == IInv /\ [Next]_vars => IInv'
<1> SUFFICES ASSUME IInv, [Next]_vars PROVE IInv'
  OBVIOUS
<1>1. DagInv'
  BY StepKeepsDagInv DEF IInv
<1>2. CycleInv'
  BY StartKeepsCycleInv, EndKeepsCycleInv, AsideKeepsCycleInv, LoopHeadKeepsCycleInv,
     ReflectionKeepsCycleInv, EvaluateKeepsCycleInv DEF IInv, Next, Progress
<1>3. QED
  BY <1>1, <1>2 DEF IInv

LEMMA Invariance == Spec => []IInv
  BY InitIInv, StepKeepsIInv, PTL DEF Spec

-----------------------------------------------------------------------------
(***************************************************************************)
(* What the counters of the loop say of its history.                       *)
(***************************************************************************)

GapTwice ==
  /\ Len(gapsSeen) >= 2
  /\ Last(gapsSeen, 1) # NoGaps
  /\ Last(gapsSeen, 1) = Last(gapsSeen, 2)

ZerosTellFound ==
  /\ zeroRuns >= 1 <=> Len(found) >= 1 /\ Last(found, 1) = 0
  /\ zeroRuns >= 2 <=> NoneInTwo

GapsTellSeen ==
  /\ lastGaps = IF Len(gapsSeen) >= 1 THEN Last(gapsSeen, 1) ELSE NoGaps
  /\ sameGaps >= 1 <=> GapTwice
  /\ sameGaps >= 2 <=> Plateau

ReasonOfPlace ==
  /\ pc \in BeforePersist => stopReason = "completed"
  /\ pc \in InLoop => (iteration > 1 \/ pc # "execute" => cost < MaxCost)
  /\ StopReasonHolds

HistoryInv == ZerosTellFound /\ GapsTellSeen /\ ReasonOfPlace

LEMMA LastOfAppend ==
  ASSUME NEW S, NEW s \in Seq(S), NEW e \in S
  PROVE  /\ Append(s, e) \in Seq(S)
         /\ Len(Append(s, e)) = Len(s) + 1
         /\ Last(Append(s, e), 1) = e
         /\ \A n \in 1..Len(s) : Last(Append(s, e), n + 1) = Last(s, n)
  BY DEF Last

LEMMA InitHistory == Init => HistoryInv
  BY DEF Init, HistoryInv, ZerosTellFound, GapsTellSeen, ReasonOfPlace, NoneInTwo,
     GapTwice, Plateau, StopReasonHolds, BeforePersist, InLoop

LEMMA ZerosAfterRound ==
  ASSUME CycleInv, ZerosTellFound, NEW kept \in Nat,
         found' = Append(found, kept), zeroRuns' = Zeros(kept)
  PROVE  ZerosTellFound'
<1>1. found \in Seq(Nat) /\ zeroRuns \in Nat
  BY DEF CycleInv, CycleTypeOK, ZeroStop
<1>2. /\ Len(found') = Len(found) + 1 /\ Len(found) \in Nat
      /\ Last(found', 1) = kept
      /\ Len(found) >= 1 => Last(found', 2) = Last(found, 1)
  BY <1>1, LastOfAppend
<1>3. QED
  BY <1>1, <1>2 DEF ZerosTellFound, NoneInTwo, Zeros

LEMMA GapsAfterReflexion ==
  ASSUME CycleInv, GapsTellSeen, NEW g \in Gaps \cup {NoGaps},
         gapsSeen' = Append(gapsSeen, g), lastGaps' = g, sameGaps' = SameGaps(g)
  PROVE  GapsTellSeen'
<1>1. gapsSeen \in Seq(Gaps \cup {NoGaps}) /\ sameGaps \in Nat
  BY DEF CycleInv, CycleTypeOK, GapStop
<1>2. /\ Len(gapsSeen') = Len(gapsSeen) + 1 /\ Len(gapsSeen) \in Nat
      /\ Last(gapsSeen', 1) = g
      /\ Len(gapsSeen) >= 1 => Last(gapsSeen', 2) = Last(gapsSeen, 1)
      /\ Len(gapsSeen) >= 2 => Last(gapsSeen', 3) = Last(gapsSeen, 2)
  BY <1>1, LastOfAppend
<1>3. sameGaps' >= 1 <=> g # NoGaps /\ g = lastGaps
  BY <1>1 DEF SameGaps
<1>4. sameGaps' >= 2 <=> g # NoGaps /\ g = lastGaps /\ GapTwice
  BY <1>1 DEF SameGaps, GapsTellSeen
<1>5. GapTwice' <=> g # NoGaps /\ g = lastGaps
  BY <1>2 DEF GapTwice, GapsTellSeen
<1>6. Plateau' <=> g # NoGaps /\ g = lastGaps /\ GapTwice
  BY <1>2 DEF GapTwice, GapsTellSeen, Plateau
<1>7. lastGaps' = IF Len(gapsSeen') >= 1 THEN Last(gapsSeen', 1) ELSE NoGaps
  BY <1>2
<1>8. QED
  BY <1>3, <1>4, <1>5, <1>6, <1>7 DEF GapsTellSeen

LEMMA StepKeepsHistory == IInv /\ HistoryInv /\ [Next]_vars => HistoryInv'
<1> SUFFICES ASSUME IInv, HistoryInv, [Next]_vars PROVE HistoryInv'
  OBVIOUS
<1> USE DEF HistoryInv
<1>1. CycleTypeOK /\ maxIter \in Nat /\ iteration \in 0..maxIter
  BY DEF IInv, CycleInv, CycleTypeOK
<1>2. CASE /\ UNCHANGED loopVars
           /\ \/ pc' \notin BeforePersist
              \/ pc' = pc
              \/ pc \in BeforePersist /\ pc' \notin InLoop
  BY <1>2 DEF loopVars, ZerosTellFound, GapsTellSeen, ReasonOfPlace, NoneInTwo,
     GapTwice, Plateau, StopReasonHolds, BeforePersist, InLoop
<1>3. CASE \/ RunCycle \/ PlanMade \/ PlanRejects \/ Created \/ CreateFails
           \/ BudgetFails \/ DagProgress \/ Answer \/ Abort \/ ExecutionThrew
           \/ AbortError \/ UNCHANGED vars
  BY <1>2, <1>3 DEF RunCycle, PlanMade, PlanRejects, Created, CreateFails,
     BudgetFails, DagProgress, Answer, Abort, ExecutionThrew, AbortError, Await,
     cycleVars, vars, BeforePersist, InLoop
<1>4. CASE StoreOne \/ Complete \/ CompleteFails \/ Read \/ ReadFails
           \/ FailRow \/ FailRowFails
  BY <1>2, <1>4 DEF StoreOne, Complete, CompleteFails, Read, ReadFails, FailRow,
     FailRowFails, Await, BeforePersist, InLoop
<1>5. CASE BudgetRead \/ Replanned
  <2>1. UNCHANGED <<cost, zeroRuns, lastGaps, sameGaps, found, gapsSeen>>
    BY <1>5 DEF BudgetRead, Replanned
  <2>2. /\ ZerosTellFound' /\ GapsTellSeen'
    BY <2>1 DEF ZerosTellFound, GapsTellSeen, NoneInTwo, GapTwice, Plateau
  <2>3. PICK p : LoopHead(p, maxIter')
    BY <1>5 DEF BudgetRead, Replanned
  <2>4. stopReason = "completed"
    BY <1>5 DEF BudgetRead, Replanned, ReasonOfPlace, BeforePersist, InLoop
  <2>5. \/ pc = "config" /\ iteration = 0 /\ maxIter' \in Nat
        \/ pc = "replan" /\ cost < MaxCost /\ maxIter' = maxIter
    BY <1>5, CycleAssumption DEF BudgetRead, Replanned, ReasonOfPlace, InLoop,
       IInv, CycleInv, CountersOfPlace
  <2>6. CASE iteration >= maxIter'
    <3>1. /\ stopReason' = "max-iterations" /\ UNCHANGED iteration
          /\ pc' \notin BeforePersist
      BY <2>3, <2>6 DEF LoopHead, Leave, BeforePersist, InLoop
    <3>2. iteration = maxIter'
      BY <1>1, <2>5, <2>6
    <3>3. QED
      BY <2>2, <3>1, <3>2 DEF ReasonOfPlace, StopReasonHolds, BeforePersist
  <2>7. CASE ~(iteration >= maxIter')
    <3>1. /\ UNCHANGED stopReason
          /\ \/ pc' = "failing"
             \/ pc' = "execute" /\ iteration' = iteration + 1
      BY <2>3, <2>7 DEF LoopHead
    <3>2. QED
      BY <1>1, <2>1, <2>2, <2>4, <2>5, <3>1 DEF ReasonOfPlace, StopReasonHolds,
         BeforePersist, InLoop
  <2>8. QED
    BY <2>6, <2>7
<1>6. CASE Evaluate
  <2>1. PICK kept \in Nat, reason \in Reasons :
          /\ found' = Append(found, kept) /\ zeroRuns' = Zeros(kept)
          /\ reason = "consecutive-zero-runs" => zeroRuns' >= ZeroStop
          /\ reason = "cost-exhausted" => cost' >= MaxCost
          /\ reason = "max-iterations" => iteration >= maxIter
          /\ reason = "gap-plateau" => sameGaps >= GapStop
          /\ IF reason # "completed" THEN Leave(reason)
             ELSE pc' = "reflect" /\ UNCHANGED stopReason /\ cost' < MaxCost
    BY <1>6, EvaluateCounts DEF IInv
  <2>2. /\ UNCHANGED <<maxIter, iteration, lastGaps, sameGaps, gapsSeen>>
        /\ ~aborted /\ pc = "execute"
    BY <1>6 DEF Evaluate
  <2>3. ZerosTellFound'
    BY <2>1, ZerosAfterRound DEF IInv
  <2>4. GapsTellSeen' /\ (Plateau' <=> Plateau)
    BY <2>2 DEF GapsTellSeen, GapTwice, Plateau
  <2>5. stopReason = "completed"
    BY <2>2 DEF ReasonOfPlace, BeforePersist, InLoop
  <2>6. CASE reason = "completed"
    BY <2>1, <2>3, <2>4, <2>5, <2>6 DEF ReasonOfPlace, StopReasonHolds
  <2>7. CASE reason # "completed"
    <3>1. stopReason' = reason /\ pc' = "persist"
      BY <2>1, <2>2, <2>7 DEF Leave
    <3>2. StopReasonHolds'
      BY <1>1, <2>1, <2>2, <2>3, <2>4, <3>1 DEF StopReasonHolds, ZerosTellFound,
         GapsTellSeen, ZeroStop, GapStop
    <3>3. QED
      BY <2>3, <2>4, <3>1, <3>2 DEF ReasonOfPlace, BeforePersist, InLoop
  <2>8. QED
    BY <2>6, <2>7
<1>7. CASE Sufficient
  <2>1. /\ UNCHANGED <<cost, iteration, maxIter, zeroRuns, lastGaps, sameGaps, found, gapsSeen>>
        /\ stopReason' = "reflexion_sufficient" /\ pc' = "persist"
    BY <1>7 DEF Sufficient, Leave
  <2>2. QED
    BY <2>1 DEF ZerosTellFound, GapsTellSeen, NoneInTwo, GapTwice, Plateau,
       ReasonOfPlace, StopReasonHolds, BeforePersist, InLoop
<1>8. CASE Insufficient
  <2>1. PICK g \in Gaps \cup {NoGaps} :
          /\ gapsSeen' = Append(gapsSeen, g) /\ lastGaps' = g /\ sameGaps' = SameGaps(g)
          /\ IF SameGaps(g) >= GapStop THEN Leave("gap-plateau")
             ELSE pc' = "replan" /\ UNCHANGED stopReason
    BY <1>8 DEF Insufficient
  <2>2. /\ UNCHANGED <<cost, iteration, maxIter, zeroRuns, found>>
        /\ ~aborted /\ pc = "reflect"
    BY <1>8 DEF Insufficient
  <2>3. GapsTellSeen'
    BY <2>1, GapsAfterReflexion DEF IInv
  <2>4. ZerosTellFound' /\ (NoneInTwo' <=> NoneInTwo)
    BY <2>2 DEF ZerosTellFound, NoneInTwo
  <2>5. stopReason = "completed" /\ cost < MaxCost
    BY <2>2 DEF ReasonOfPlace, BeforePersist, InLoop
  <2>6. CASE SameGaps(g) >= GapStop
    <3>1. stopReason' = "gap-plateau" /\ pc' = "persist" /\ Plateau'
      BY <2>1, <2>2, <2>3, <2>6 DEF Leave, GapsTellSeen, GapStop
    <3>2. QED
      BY <2>3, <2>4, <3>1 DEF ReasonOfPlace, StopReasonHolds, BeforePersist, InLoop
  <2>7. CASE ~(SameGaps(g) >= GapStop)
    BY <2>1, <2>2, <2>3, <2>4, <2>5, <2>7 DEF ReasonOfPlace, StopReasonHolds
  <2>8. QED
    BY <2>6, <2>7
<1>9. QED
  BY <1>3, <1>4, <1>5, <1>6, <1>7, <1>8 DEF Next, Progress

LEMMA HistoryInvariance == Spec => []HistoryInv
  BY InitHistory, StepKeepsHistory, Invariance, PTL DEF Spec

-----------------------------------------------------------------------------
(* Theorems *)

\* The state keeps its types (TypeOK).
THEOREM TypeCorrect == Spec => []TypeOK
<1>1. IInv => TypeOK
  BY TypesSplit DEF IInv, DagInv, CycleInv
<1>2. QED
  BY <1>1, Invariance, PTL

\* No node starts before all it depends on is final, in any plan
\* (topologicalLevels, executeNode).
THEOREM UpstreamComplete == Spec => []UpstreamIsComplete
<1>1. IInv => UpstreamIsComplete
  BY DEF IInv, DagInv
<1>2. QED
  BY <1>1, Invariance, PTL

\* An execution that ends has run every node, and only an abort or an invalid
\* plan makes it throw (execute).
THEOREM ExecutionWhole == Spec => []ExecutionIsWhole
<1>1. IInv => ExecutionIsWhole
  BY DEF IInv, DagInv
<1>2. QED
  BY <1>1, Invariance, PTL

\* The loop ends for the reason it gives (shouldStop, run()).
THEOREM ReasonTrue == Spec => []StopReasonHolds
<1>1. HistoryInv => StopReasonHolds
  BY DEF HistoryInv, ReasonOfPlace
<1>2. QED
  BY <1>1, HistoryInvariance, PTL

\* And it does not go on past one (run()).
THEOREM LoopEndsInTime == Spec => []LoopStops
<1>1. IInv /\ HistoryInv => LoopStops
  BY DEF IInv, CycleInv, CycleTypeOK, CountersOfPlace, HistoryInv, ZerosTellFound,
     GapsTellSeen, ReasonOfPlace, LoopStops, ZeroStop, GapStop
<1>2. QED
  BY <1>1, Invariance, HistoryInvariance, PTL

\* An abort before the findings are stored keeps them out (runCycle).
THEOREM AbortHeeded == Spec => []AbortIsHeeded
<1>1. IInv => AbortIsHeeded
  BY DEF IInv, CycleInv, AbortOfPlace
<1>2. QED
  BY <1>1, Invariance, PTL

\* A completed row means that every finding was tried (persist).
THEOREM AllTriedBeforeCompleted == Spec => []CompletedMeansAllTried
<1>1. IInv => CompletedMeansAllTried
  BY DEF IInv, CycleInv, StoredOfPlace
<1>2. QED
  BY <1>1, Invariance, PTL

\* The caller and the row agree (the catch block).
THEOREM RowAgrees == Spec => []RowTellsOutcome
<1>1. IInv => RowTellsOutcome
  BY DEF IInv, CycleInv, RowOfPlace
<1>2. QED
  BY <1>1, Invariance, PTL

\* Nothing new starts under an aborted signal (throwIfAborted).
THEOREM AbortIsQuiet == Spec => QuietAfterAbort
<1> DEFINE Quiet ==
      aborted =>
        /\ \A c \in Cortices : at[c] = "waiting" => at'[c] = "waiting"
        /\ iteration' = iteration
        /\ pc' \in {"reflect", "replan", "persist"} => pc' = pc
<1>1. IInv /\ [Next]_vars => [Quiet]_vars
  <2> SUFFICES ASSUME IInv, Next, aborted PROVE Quiet
    OBVIOUS
  <2> USE DEF Await, loopVars, cycleVars, dagVars
  <2>1. CASE BudgetRead \/ Replanned
    <3>1. PICK p, budget : LoopHead(p, budget)
      BY <2>1 DEF BudgetRead, Replanned
    <3>2. QED
      BY <3>1 DEF LoopHead, Leave
  <2>2. CASE DagProgress \/ Answer
    <3>1. \A c \in Cortices : at[c] = "waiting" => at'[c] = "waiting"
      BY <2>2 DEF DagProgress, Answer, ConfigRead, ConfigFails, TimesOut,
         CortexAnswers, Goes, LevelEnds, IInv, DagInv, DagTypeOK
    <3>2. QED
      BY <2>2, <3>1 DEF DagProgress, Answer
  <2>3. CASE Abort \/ ExecutionThrew
    BY <2>3 DEF Abort, SignalAborts, ExecutionThrew, Forget
  <2>4. CASE Evaluate \/ Sufficient \/ Insufficient
    BY <2>4 DEF Evaluate, Sufficient, Insufficient
  <2>5. CASE \/ RunCycle \/ PlanMade \/ PlanRejects \/ Created \/ CreateFails
             \/ BudgetFails \/ AbortError
    BY <2>5 DEF RunCycle, PlanMade, PlanRejects, Created, CreateFails, BudgetFails,
       AbortError
  <2>6. CASE StoreOne \/ Complete \/ CompleteFails \/ Read \/ ReadFails
             \/ FailRow \/ FailRowFails
    BY <2>6 DEF StoreOne, Complete, CompleteFails, Read, ReadFails, FailRow,
       FailRowFails
  <2>7. QED
    BY <2>1, <2>2, <2>3, <2>4, <2>5, <2>6 DEF Next, Progress
<1>2. QED
  BY <1>1, Invariance, PTL DEF Spec, QuietAfterAbort
=============================================================================

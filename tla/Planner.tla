------------------------------- MODULE Planner -------------------------------
(***************************************************************************)
(* ThalamusPlanner: every plan, whoever made it, is finalized under the    *)
(* operator's settings before it runs.  A plan is a sequence of nodes, a   *)
(* node a cortex and what it depends on.  The DAG of a daemon job is kept  *)
(* by the planner between its calls.                                       *)
(***************************************************************************)
EXTENDS Naturals, FiniteSets, SequencesExt

D == INSTANCE Dag

CONSTANTS
  Cortices,    \* names, also of cortices that do not exist
  Registry,    \* cortices that exist
  UserScoped,  \* those that need a user
  Strategist,  \* the one that sums the others up
  JobDag,      \* the DAG configured for the daemon job
  Fallback,    \* the plan used when the model gives none
  Requests,    \* DAGs that callers and the model come with
  Manual,      \* lists of cortices that callers come with
  Settings     \* thalamus.planner and thalamus.cortex

Nodes == [cortex : Cortices, deps : SUBSET Cortices]

ASSUME PlannerAssumption ==
  /\ Registry \subseteq Cortices /\ IsFiniteSet(Registry)
  /\ Strategist \in Registry /\ UserScoped \subseteq Registry \ {Strategist}
  /\ {JobDag, Fallback} \cup Requests \subseteq Seq(Nodes)
  /\ Manual \subseteq Seq(Cortices)
  /\ \A s \in Settings :
       /\ s.disabled \in SUBSET Cortices /\ s.mandatory \in BOOLEAN /\ s.max \in Nat
       /\ s.forced \in Seq(Cortices)

VARIABLES
  dag,       \* daemonDags[job].nodes
  settings,
  plan,      \* the plan last returned
  result,    \* "none", "plan", or "unknown" when the call threw
  asked,     \* history: the DAG that call was given
  withUser   \* history: whether a user was in scope

vars == <<dag, settings, plan, result, asked, withUser>>

Node(c, deps) == [cortex |-> c, deps |-> deps]
Names(nodes) == {nodes[i].cortex : i \in DOMAIN nodes}

\* The elements of a sequence at the places in I, in their order.
Picked(q, I) ==
  LET upTo[i \in 0..Len(q)] ==
        IF i = 0 THEN <<>>
        ELSE IF i \in I THEN Append(upTo[i - 1], q[i]) ELSE upTo[i - 1]
  IN  upTo[Len(q)]

\* The places where a name comes for the first time.
First(names) == {i \in DOMAIN names : \A j \in 1..(i - 1) : names[j] # names[i]}

\* nodes.filter(): the nodes of the cortices in S, and those of all others.
Keep(nodes, S) == Picked(nodes, {i \in DOMAIN nodes : nodes[i].cortex \in S})
Without(nodes, S) == Keep(nodes, Names(nodes) \ S)

\* The plan as a map, once its names are unique.
AsMap(nodes) ==
  [c \in Names(nodes) |-> (CHOOSE n \in Range(nodes) : n.cortex = c).deps]

\* validateDag()
Executable(nodes) ==
  Cardinality(Names(nodes)) = Len(nodes) /\ D!Valid(AsMap(nodes))

TypeOK ==
  /\ dag \in Seq(Nodes) /\ plan \in Seq(Nodes) /\ asked \in Seq(Nodes)
  /\ settings \in Settings
  /\ result \in {"none", "plan", "unknown"}
  /\ withUser \in BOOLEAN
  /\ IsPrefix(JobDag, dag) /\ Len(dag) <= Len(JobDag) + Cardinality(Registry)

Init ==
  /\ dag = JobDag /\ settings \in Settings
  /\ plan = <<>> /\ result = "none"
  /\ asked = <<>> /\ withUser = FALSE

-----------------------------------------------------------------------------
(* finalizePlan() *)

\* Mutant of Prune: with one dependency gone, all of them go.
PruneWholly(nodes) ==
  [i \in DOMAIN nodes |->
     Node(nodes[i].cortex,
          IF nodes[i].deps \subseteq Names(nodes) THEN nodes[i].deps ELSE {})]

\* Dependencies on nodes that are not there are dropped.
Prune(nodes) ==
  [i \in DOMAIN nodes |->
     Node(nodes[i].cortex, nodes[i].deps \cap Names(nodes))]

\* Mutant of Enabled: none is disabled.
EnabledAll(nodes) == nodes

Enabled(nodes) == Without(nodes, settings.disabled)

\* Nodes of their own for the cortices in a list.
Flat(names) == [i \in DOMAIN names |-> Node(names[i], {})]

\* Mutant of Forced: a cortex already present is pushed again.
ForcedAgain(nodes) == Keep(Flat(settings.forced), Registry \ settings.disabled)

\* forcedCortices that are known, enabled and not there yet, to be pushed once.
Forced(nodes) ==
  LET names == settings.forced
      missing == Registry \ (settings.disabled \cup Names(nodes))
  IN  Picked(Flat(names), {i \in First(names) : names[i] \in missing})

\* injectMandatoryStrategist.
Injects(nodes) ==
  /\ settings.mandatory
  /\ Strategist \notin settings.disabled
  /\ Strategist \in Registry \ Names(nodes)

\* What steps 2 and 3 push.
Pushed(nodes) ==
  LET forced == Forced(nodes)
  IN  IF Injects(nodes \o forced) THEN Append(forced, Node(Strategist, {}))
      ELSE forced

\* The clamp: the first ones, and the strategist after them.
Clamp(nodes) ==
  LET others == Without(nodes, {Strategist})
      there == Strategist \in Names(nodes)
      budget == IF there /\ settings.max > 0 THEN settings.max - 1 ELSE settings.max
      first == SubSeq(others, 1, IF budget < Len(others) THEN budget ELSE Len(others))
  IN  IF Len(nodes) <= settings.max THEN nodes
      ELSE IF there THEN Append(first, Keep(nodes, {Strategist})[1])
      ELSE first

\* The strategist just injected depends on all the others.
Wire(nodes) ==
  [i \in DOMAIN nodes |->
     IF nodes[i].cortex = Strategist
     THEN Node(Strategist, Names(nodes) \ {Strategist}) ELSE nodes[i]]

ApplyRuntimeFilters(nodes) ==
  LET kept == Enabled(nodes)
      full == kept \o Pushed(kept)
      clamped == Clamp(full)
  IN  Prune(IF Injects(kept \o Forced(kept)) THEN Wire(clamped) ELSE clamped)

\* Mutant of StripUserScoped: dependencies on what was stripped stay.
StripLoosely(nodes, user) ==
  IF user THEN nodes ELSE Without(nodes, UserScoped)

StripUserScoped(nodes, user) ==
  IF user THEN nodes
  ELSE Prune(Without(nodes, UserScoped))

Finalized(nodes, user) == StripUserScoped(ApplyRuntimeFilters(nodes), user)

Finalize(nodes, user) ==
  LET nodes2 == Finalized(nodes, user)
      known == Names(nodes2) \subseteq Registry
  IN  /\ asked' = nodes /\ withUser' = user
      /\ plan' = IF known THEN nodes2 ELSE <<>>
      /\ result' = IF known THEN "plan" ELSE "unknown"

-----------------------------------------------------------------------------
(* Operations *)

\* getDaemonDag().  With nothing disabled, the array that is pushed to is the
\* planner's own.
GetDaemonDag ==
  /\ Finalize(dag, FALSE)
  /\ dag' = IF settings.disabled = {} THEN dag \o Pushed(dag) ELSE dag
  /\ UNCHANGED settings

\* finalizePlan() of a DAG that a caller came with.
FinalizePlan ==
  /\ \E r \in Requests, user \in BOOLEAN : Finalize(r, user)
  /\ UNCHANGED <<dag, settings>>

\* buildManualDag() and finalizePlan(); an unknown name throws.
FinalizeManual ==
  /\ \E names \in Manual, user \in BOOLEAN :
       IF Range(names) \subseteq Registry
       THEN Finalize(Flat(Picked(names, First(names))), user)
       ELSE asked' = <<>> /\ withUser' = user /\ plan' = <<>> /\ result' = "unknown"
  /\ UNCHANGED <<dag, settings>>

\* plan(): the fallback takes over when the model has failed, or when nothing
\* is left of its DAG, whose unknown cortices are dropped first.
PlanByModel ==
  /\ \E user \in BOOLEAN :
       \/ Finalize(Fallback, user)
       \/ \E r \in Requests \cup {<<>>} :
            LET known == Keep(r, Registry)
            IN  Finalize(IF Finalized(known, user) # <<>> THEN known ELSE Fallback,
                         user)
  /\ UNCHANGED <<dag, settings>>

\* The operator changes the settings.
Configure ==
  /\ settings' \in Settings
  /\ UNCHANGED <<dag, plan, result, asked, withUser>>

Next == GetDaemonDag \/ FinalizePlan \/ FinalizeManual \/ PlanByModel \/ Configure

Spec == Init /\ [][Next]_vars

-----------------------------------------------------------------------------
(* Properties *)

\* A DAG that can be executed is finalized into one that can, or into none at
\* all: under any settings, and for the job's DAG however often it has been
\* asked for and whatever was pushed to it (applyRuntimeFilters, stripUserScoped).
StaysExecutable ==
  result = "plan" /\ plan # <<>> /\ Executable(asked) => Executable(plan)

\* A node that stays waits for exactly those of the nodes it was planned to wait
\* for that stay too: no dependency is lost, and none invented, however many
\* filters drop or push nodes.  (Two nodes that were ordered only through a node
\* that is dropped lose that order: the filters prune and do not rewire.)  None
\* but pushed nodes are new.
KeepsOrder ==
  [][result' = "plan" /\ Executable(asked') =>
       \A i \in DOMAIN plan' :
         IF plan'[i].cortex \in Names(asked')
         THEN plan'[i].deps = AsMap(asked')[plan'[i].cortex] \cap Names(plan')
         ELSE plan'[i].cortex \in Range(settings.forced) \cup {Strategist}
    ]_<<plan, asked, withUser, result>>

\* A plan respects the settings it was made under and the absence of a user,
\* and names more cortices than the limit only for the strategist's sake.
SettingsRespected ==
  [][result' = "plan" =>
       /\ Names(plan') \cap settings.disabled = {}
       /\ withUser' \/ Names(plan') \cap UserScoped = {}
       /\ Len(plan') <= settings.max \/ Names(plan') = {Strategist}
       /\ settings.mandatory /\ Strategist \notin settings.disabled
            => Strategist \in Names(plan')
    ]_<<plan, asked, withUser, result>>
=============================================================================

-------------------------- MODULE SwarmFanoutProofs --------------------------
(***************************************************************************)
(* Theorems of SwarmFanout, for every number of fish, every concurrency    *)
(* and every number of failures.                                           *)
(***************************************************************************)
EXTENDS SwarmFanout, FiniteSetTheorems, TLAPS

(***************************************************************************)
(* The inductive invariant.  The properties are not inductive: that a      *)
(* completion found every fish closed is only remembered by its pc, that   *)
(* no fish can be past the gate while launchSwarm() resets it follows from *)
(* where a fish may be before its row exists, and that a claimed fish is   *)
(* not lost needs the claims of different processes to be disjoint.        *)
(***************************************************************************)

AllClosed == \A f \in Fish : fish[f] \in Closed

\* Fish that have been claimed, enqueued or started have left "pending".
ActivatedRows ==
  /\ \A f \in jobs : fish[f] \notin {"absent", "pending"}
  /\ \A p \in Procs : \A f \in todo[p] : fish[f] \notin {"absent", "pending"}

\* A fish worker exists only for an accepted job, late turns and status
\* writes only for a worker; only the launcher is ever in the code of launchSwarm().
WorkersHaveJobs ==
  /\ \A f \in Fish : pc[f] # "idle" => f \in jobs
  /\ late \subseteq jobs /\ asked \subseteq jobs
  /\ \A f \in Fish, s \in Closed : <<f, s>> \in orphans => f \in jobs
  /\ \A f \in Fish : pc[f] \notin {"insert", "reset", "create"}
  /\ pc[Launcher] \in {"insert", "reset", "create", "count", "claim",
                       "enqueue", "end"}

\* Before the launcher has created a row, there is none.
NoRowsYet ==
  pc[Launcher] \in {"insert", "reset"} =>
    \A f \in Fish : fish[f] = "absent"

\* The claims of the processes are disjoint and not yet jobs.
ClaimsDisjoint ==
  /\ \A p \in Procs : todo[p] # {} => pc[p] = "enqueue"
  /\ \A p \in Procs : \A f \in todo[p] : f \notin jobs
  /\ \A p, q \in Procs : \A f \in Fish :
       f \in todo[p] /\ f \in todo[q] => p = q

\* Whoever is at the gate or past it has seen every fish closed.
PastGateClosed ==
  /\ \A f \in Fish : pc[f] \in {"gate", "publish", "release"} => AllClosed
  /\ agg # "none" => AllClosed

IInv == /\ TypeOK
        /\ ActivatedRows
        /\ WorkersHaveJobs
        /\ NoRowsYet
        /\ ClaimsDisjoint
        /\ PastGateClosed
        /\ GateHeldByOne
        /\ NoFishForgotten
        /\ AbortIsFinal

-----------------------------------------------------------------------------
(* Lemmas about the operators of the model *)

\* A set of fish chosen by their status can be counted.
LEMMA CountsAreNumbers ==
  ASSUME NEW S
  PROVE  /\ IsFiniteSet(WithStatus(S))
         /\ Cardinality(WithStatus(S)) \in Nat
         /\ Cardinality(WithStatus(S)) <= Size
<1>1. IsFiniteSet(Fish) /\ Cardinality(Fish) = Size
  BY FS_Interval, SizeAssumption DEF Fish
<1>2. WithStatus(S) \subseteq Fish
  BY DEF WithStatus
<1>3. IsFiniteSet(WithStatus(S)) /\ Cardinality(WithStatus(S)) <= Size
  BY <1>1, <1>2, FS_Subset
<1>4. QED
  BY <1>3, FS_CardinalityType

\* A swarm is accounted for only when every one of its fish is closed.
LEMMA AccountedMeansAllClosed == Accounted => AllClosed
<1>1. SUFFICES ASSUME Accounted PROVE AllClosed
  OBVIOUS
<1>2. IsFiniteSet(Fish) /\ Cardinality(Fish) = Size
  BY FS_Interval, SizeAssumption DEF Fish
<1>3. WithStatus(Closed) \subseteq Fish
  BY DEF WithStatus
<1>4. Cardinality(WithStatus(Closed)) = Cardinality(Fish)
  BY <1>1, <1>2, CountsAreNumbers, SizeAssumption DEF Accounted
<1>5. WithStatus(Closed) = Fish
  BY <1>2, <1>3, <1>4, FS_Subset
<1>6. QED
  BY <1>5 DEF WithStatus, AllClosed

-----------------------------------------------------------------------------
(* Type correctness *)

LEMMA TypeOKInit == Init => TypeOK
<1>1. SUFFICES ASSUME Init PROVE TypeOK
  OBVIOUS
<1>2. fish \in [Fish -> FishStatus] /\ outcome \in [Fish -> Closed]
  BY <1>1 DEF Init, FishStatus, Closed
<1>3. pc \in [Procs -> PC]
  BY <1>1 DEF Init, PC
<1>4. /\ stalls \in [Fish -> Nat]
      /\ slots \in [Procs -> Nat]
      /\ todo \in [Procs -> SUBSET Fish]
  BY <1>1 DEF Init
<1>5. QED
  BY <1>1, <1>2, <1>3, <1>4 DEF Init, TypeOK, SwarmStatus, AggState

LEMMA TypeOKStep == TypeOK /\ [Next]_vars => TypeOK'
<1> SUFFICES ASSUME TypeOK, [Next]_vars PROVE TypeOK'
  OBVIOUS
<1> USE DEF TypeOK, SwarmStatus, FishStatus, Closed, AggState, PC, Fish, Procs,
            Launcher, Goto, queueVars, aggVars, procVars, turnVars, abortVars
<1>1. CASE Next
  <2>1. CASE InsertSwarm
    BY <2>1 DEF InsertSwarm
  <2>2. CASE ResetGate
    BY <2>2 DEF ResetGate
  <2>3. ASSUME NEW f \in Fish, CreateFish(f)
       PROVE  TypeOK'
    BY <2>3 DEF CreateFish
  <2>4. ASSUME NEW p \in Procs, ActivateCount(p)
       PROVE  TypeOK'
    <3> DEFINE pending == Cardinality(WithStatus({"pending"}))
               running == Cardinality(WithStatus({"running"}))
               limit == IF Concurrency - running < pending
                        THEN Concurrency - running ELSE pending
    <3>1. pending \in Nat /\ running \in Nat
      BY CountsAreNumbers
    <3>2. running < Concurrency => limit \in Nat
      BY <3>1, ConcurrencyAssumption
    <3>3. slots' = slots \/ (running < Concurrency
                              /\ slots' = [slots EXCEPT ![p] = limit])
      BY <2>4 DEF ActivateCount
    <3>4. slots' \in [Procs -> Nat]
      BY <3>2, <3>3
    <3>5. pc' \in [Procs -> PC]
      BY <2>4 DEF ActivateCount, AfterActivation
    <3>6. QED
      BY <2>4, <3>4, <3>5 DEF ActivateCount
  <2>5. ASSUME NEW p \in Procs, ActivateClaim(p)
       PROVE  TypeOK'
    BY <2>5 DEF ActivateClaim, AfterActivation, FirstPending, WithStatus
  <2>6. ASSUME NEW p \in Procs, NEW f \in Fish, ActivateEnqueue(p, f)
       PROVE  TypeOK'
    BY <2>6 DEF ActivateEnqueue, AfterActivation
  <2>7. ASSUME NEW f \in Fish, StartJob(f)
       PROVE  TypeOK'
    BY <2>7 DEF StartJob
  <2>8. ASSUME NEW f \in Fish, LoadRun(f)
       PROVE  TypeOK'
    BY <2>8 DEF LoadRun
  <2>9. ASSUME NEW f \in Fish, DrainFish(f)
       PROVE  TypeOK'
    BY <2>9 DEF DrainFish
  <2>10. ASSUME NEW f \in Fish, TimeoutFish(f)
       PROVE  TypeOK'
    BY <2>10 DEF TimeoutFish
  <2>11. ASSUME NEW f \in Fish, CloseFish(f)
       PROVE  TypeOK'
    BY <2>11 DEF CloseFish, CloseRejected
  <2>12. ASSUME NEW f \in Fish, AccountFish(f)
       PROVE  TypeOK'
    BY <2>12 DEF AccountFish
  <2>13. ASSUME NEW f \in Fish, ClaimGate(f)
       PROVE  TypeOK'
    BY <2>13 DEF ClaimGate
  <2>14. ASSUME NEW f \in Fish, PublishAggregate(f)
       PROVE  TypeOK'
    BY <2>14 DEF PublishAggregate, AddAggregateJob
  <2>15. ASSUME NEW f \in Fish, ReleaseGate(f)
       PROVE  TypeOK'
    BY <2>15 DEF ReleaseGate
  <2>16. ASSUME NEW f \in Fish, TerminalTurn(f)
       PROVE  TypeOK'
    BY <2>16 DEF TerminalTurn
  <2>17. ASSUME NEW f \in Fish, LateTurnEnds(f)
       PROVE  TypeOK'
    BY <2>17 DEF LateTurnEnds
  <2>18. CASE StartAggregate
    BY <2>18 DEF StartAggregate
  <2>19. CASE CloseSwarm
    BY <2>19 DEF CloseSwarm
  <2>20. CASE AbortSwarm
    BY <2>20 DEF AbortSwarm, WithStatus
  <2>21. ASSUME NEW p \in Procs, CallFails(p)
       PROVE  TypeOK'
    BY <2>21 DEF CallFails, Fault
  <2>22. ASSUME NEW f \in Fish, LoadFails(f)
       PROVE  TypeOK'
    BY <2>22 DEF LoadFails, Fault
  <2>23. ASSUME NEW f \in Fish, CloseFails(f)
       PROVE  TypeOK'
    BY <2>23 DEF CloseFails, CloseRejected, Fault
  <2>24. ASSUME NEW f \in Fish, PublishFails(f)
       PROVE  TypeOK'
    BY <2>24 DEF PublishFails, AddAggregateJob, Fault
  <2>25. ASSUME NEW f \in Fish, WorkerDies(f)
       PROVE  TypeOK'
    BY <2>25 DEF WorkerDies, Fault
  <2>26. CASE AggregateFails
    BY <2>26 DEF AggregateFails, Fault
  <2>27. ASSUME NEW f \in Fish, TurnWrites(f)
       PROVE  TypeOK'
    BY <2>27 DEF TurnWrites
  <2>28. ASSUME NEW f \in Fish, WriteFish(f)
       PROVE  TypeOK'
    BY <2>28 DEF WriteFish
  <2>29. ASSUME NEW f \in Fish, TurnFails(f)
       PROVE  TypeOK'
    BY <2>29 DEF TurnFails, Fault
  <2>30. ASSUME NEW f \in Fish, NEW s \in Closed, OrphanWrites(f, s)
       PROVE  TypeOK'
    BY <2>30 DEF OrphanWrites
  <2>31. QED
    BY <1>1, <2>1, <2>2, <2>3, <2>4, <2>5, <2>6, <2>7, <2>8, <2>9, <2>10, <2>11, <2>12, <2>13, <2>14, <2>15, <2>16, <2>17, <2>18, <2>19, <2>20, <2>21, <2>22, <2>23, <2>24, <2>25, <2>26, <2>27, <2>28, <2>29,
       <2>30
    DEF Next, Launch, Activate, Worker, OnFishComplete, Turn, Failure
<1>2. CASE UNCHANGED vars
  BY <1>2 DEF vars
<1>3. QED
  BY <1>1, <1>2

\* The variables of the swarm keep their types, whatever interleaving, fault
\* and abort the run contains.
THEOREM TypeCorrect == Spec => []TypeOK
  BY TypeOKInit, TypeOKStep, PTL DEF Spec

-----------------------------------------------------------------------------
(* The inductive invariant is preserved, one lemma for each of its parts *)

\* Counting changes nothing but the limit and the place of its process.
LEMMA ActivateCountMoves ==
  ASSUME NEW p \in Procs, ActivateCount(p)
  PROVE  /\ pc[p] = "count"
         /\ \/ pc' = [pc EXCEPT ![p] = "claim"]
            \/ p = Launcher /\ pc' = [pc EXCEPT ![p] = "end"]
            \/ p # Launcher /\ pc' = [pc EXCEPT ![p] = "account"]
         /\ UNCHANGED <<swarmStatus, fish, jobs, stalls, gate, agg, attempts,
                        todo, outcome, late, asked, orphans, aborted, cut, faults>>
<1>1. Goto(p, "claim") \/ Goto(p, AfterActivation(p))
  BY DEF ActivateCount
<1>2. /\ pc[p] = "count"
      /\ UNCHANGED <<swarmStatus, fish, queueVars, aggVars, todo, outcome,
                     turnVars, abortVars, faults>>
  BY DEF ActivateCount
<1>3. QED
  BY <1>1, <1>2 DEF Goto, AfterActivation, queueVars, aggVars, turnVars, abortVars

\* The claim gives its process some fish that were pending.
LEMMA ActivateClaimMoves ==
  ASSUME TypeOK, NEW p \in Procs, ActivateClaim(p)
  PROVE  /\ pc[p] = "claim"
         /\ \A q \in Procs : q # p => pc'[q] = pc[q] /\ todo'[q] = todo[q]
         /\ todo'[p] # {} => pc'[p] = "enqueue"
         /\ \A f \in todo'[p] : f \in Fish /\ fish[f] = "pending"
         /\ \A f \in Fish :
              fish'[f] = IF f \in todo'[p] THEN "running" ELSE fish[f]
         /\ UNCHANGED <<jobs, faults>>
<1> DEFINE picked == FirstPending(slots[p])
<1>1. \A f \in picked : f \in Fish /\ fish[f] = "pending"
  BY DEF FirstPending, WithStatus
<1>2. /\ pc[p] = "claim"
      /\ fish' = [f \in Fish |-> IF f \in picked THEN "running" ELSE fish[f]]
      /\ todo' = [todo EXCEPT ![p] = picked]
      /\ UNCHANGED <<jobs, faults>>
  BY DEF ActivateClaim, queueVars
<1>3. \E l \in PC : /\ pc' = [pc EXCEPT ![p] = l]
                    /\ picked # {} => l = "enqueue"
  BY DEF ActivateClaim, AfterActivation, Goto, PC
<1> HIDE DEF picked
<1>4. pc \in [Procs -> PC] /\ todo \in [Procs -> SUBSET Fish]
  BY DEF TypeOK
<1>5. todo'[p] = picked /\ \A q \in Procs : q # p => todo'[q] = todo[q]
  BY <1>2, <1>4
<1>6. /\ picked # {} => pc'[p] = "enqueue"
      /\ \A q \in Procs : q # p => pc'[q] = pc[q]
  BY <1>3, <1>4
<1>7. QED
  BY <1>1, <1>2, <1>5, <1>6

\* The check of the status route moves the worker and nothing else; it sends
\* no worker away from a row that is still running.
LEMMA CloseFishMoves ==
  ASSUME TypeOK, NEW f \in Fish, CloseFish(f)
  PROVE  /\ \E l \in {"write", "close", "count"} :
              /\ pc' = [pc EXCEPT ![f] = l]
              /\ l = "count" => fish[f] # "running"
         /\ pc[f] = "close"
         /\ UNCHANGED <<swarmStatus, fish, jobs, stalls, gate, agg, attempts,
                        slots, todo, late, asked, orphans, aborted, cut,
                        faults>>
<1>1. outcome[f] \in Closed
  BY DEF TypeOK
<1>2. \/ Goto(f, "write") \/ Goto(f, "close")
      \/ Goto(f, "count") /\ ~IsLegalRunTransition(fish[f], outcome[f])
  BY DEF CloseFish, CloseRejected
<1>3. /\ pc[f] = "close"
      /\ UNCHANGED <<swarmStatus, fish, queueVars, aggVars, slots, todo,
                     turnVars, abortVars, faults>>
  BY DEF CloseFish
<1>4. ~IsLegalRunTransition(fish[f], outcome[f]) => fish[f] # "running"
  BY <1>1 DEF IsLegalRunTransition
<1>5. \E l \in {"write", "close", "count"} :
        /\ pc' = [pc EXCEPT ![f] = l]
        /\ l = "count" => fish[f] # "running"
  BY <1>2, <1>4 DEF Goto
<1>6. QED
  BY <1>3, <1>5 DEF queueVars, aggVars, turnVars, abortVars

\* A turn whose request is lost closes nothing and can only send its worker
\* to the catch block.
LEMMA TurnFailsMoves ==
  ASSUME TypeOK, NEW f \in Fish, TurnFails(f)
  PROVE  /\ f \in asked /\ asked' = asked \ {f} /\ late' = late \ {f}
         /\ orphans' = orphans \/ orphans' = orphans \cup {<<f, "done">>}
         /\ \/ pc' = pc
            \/ pc[f] = "drain" /\ pc' = [pc EXCEPT ![f] = "close"]
         /\ faults' # 0
         /\ UNCHANGED <<swarmStatus, fish, jobs, stalls, gate, agg, attempts,
                        slots, todo, aborted, cut>>
<1>1. \/ pc' = pc
      \/ pc[f] = "drain" /\ pc' = [pc EXCEPT ![f] = "close"]
  BY DEF TurnFails, Goto
<1>2. orphans' = orphans \/ orphans' = orphans \cup {<<f, "done">>}
  BY DEF TurnFails
<1>3. faults' # 0
  BY DEF TurnFails, Fault, TypeOK
<1>4. f \in asked /\ asked' = asked \ {f} /\ late' = late \ {f}
  BY DEF TurnFails
<1>5. UNCHANGED <<swarmStatus, fish, queueVars, aggVars, slots, todo,
                  abortVars>>
  BY DEF TurnFails
<1>6. QED
  BY <1>1, <1>2, <1>3, <1>4, <1>5 DEF queueVars, aggVars, abortVars

\* A process that moves on without writing a row keeps every part of the
\* invariant, unless it gives up a running fish while nothing has failed.
LEMMA MoveKeeps ==
  ASSUME IInv, NEW p \in Procs, NEW l \in PC, pc' = [pc EXCEPT ![p] = l],
         UNCHANGED <<fish, jobs, gate, agg, todo, cut>>,
         late' \subseteq late, asked' \subseteq asked,
         \A f \in Fish, s \in Closed :
           <<f, s>> \in orphans' => <<f, s>> \in orphans \/ f \in asked,
         \/ /\ pc[p] = "count"
            /\ l \in {"claim", "end"} \/ (p # Launcher /\ l = "account")
         \/ /\ pc[p] \in {"close", "drain"} /\ p # Launcher
            /\ l \in {"close", "write", "count"},
         \/ faults' # 0
         \/ faults' = faults /\ (l = "count" => fish[p] # "running")
  PROVE  /\ ActivatedRows' /\ WorkersHaveJobs' /\ NoRowsYet'
         /\ ClaimsDisjoint' /\ PastGateClosed' /\ GateHeldByOne'
         /\ NoFishForgotten' /\ AbortIsFinal'
<1>1. /\ pc \in [Procs -> PC]
      /\ \A f \in Fish : f \in Procs /\ f # Launcher
      /\ \A q \in Procs : q # Launcher => q \in Fish
      /\ Launcher \in Procs
  BY SizeAssumption DEF IInv, TypeOK, Fish, Procs, Launcher
<1>2. /\ \A q \in Procs : q # p => pc'[q] = pc[q]
      /\ pc'[p] = l
  BY <1>1
<1>3. /\ pc[p] \in {"count", "close", "drain"}
      /\ l \in {"claim", "end", "account", "close", "write", "count"}
      /\ p = Launcher => l \in {"claim", "end"}
  OBVIOUS
<1>4. ActivatedRows'
  BY DEF IInv, ActivatedRows
<1>5. WorkersHaveJobs'
  <2>1. \A f \in Fish : pc'[f] # "idle" => f \in jobs
    BY <1>1, <1>2, <1>3 DEF IInv, WorkersHaveJobs
  <2>2. \A f \in Fish : pc'[f] \notin {"insert", "reset", "create"}
    BY <1>1, <1>2, <1>3 DEF IInv, WorkersHaveJobs
  <2>3. pc'[Launcher] \in {"insert", "reset", "create", "count", "claim",
                           "enqueue", "end"}
    BY <1>1, <1>2, <1>3 DEF IInv, WorkersHaveJobs
  <2>4. /\ late' \subseteq jobs /\ asked' \subseteq jobs
        /\ \A f \in Fish, s \in Closed : <<f, s>> \in orphans' => f \in jobs
    BY DEF IInv, WorkersHaveJobs
  <2>5. QED
    BY <2>1, <2>2, <2>3, <2>4 DEF WorkersHaveJobs
<1>6. NoRowsYet'
  BY <1>1, <1>2, <1>3 DEF IInv, NoRowsYet
<1>7. PastGateClosed'
  BY <1>1, <1>2, <1>3 DEF IInv, PastGateClosed, AllClosed
<1>8. GateHeldByOne'
  BY <1>1, <1>2, <1>3 DEF IInv, GateHeldByOne
<1>9. ClaimsDisjoint'
  <2>1. \A q \in Procs : todo[q] # {} => pc'[q] = "enqueue"
    BY <1>2, <1>3 DEF IInv, ClaimsDisjoint
  <2>2. QED
    BY <2>1 DEF IInv, ClaimsDisjoint
<1>10. NoFishForgotten'
  <2> DEFINE Places == {"idle", "load", "drain", "played", "close", "write"}
  <2>1. SUFFICES ASSUME faults' = 0, NEW f \in Fish, fish[f] = "running"
                 PROVE  \/ \E q \in Procs : pc'[q] = "enqueue" /\ f \in todo[q]
                        \/ f \in jobs /\ pc'[f] \in Places
    BY DEF NoFishForgotten
  <2>2. faults = 0 /\ (l = "count" => fish[p] # "running")
    BY <2>1
  <2>3. \/ \E q \in Procs : pc[q] = "enqueue" /\ f \in todo[q]
        \/ f \in jobs /\ pc[f] \in Places
    BY <2>1, <2>2 DEF IInv, NoFishForgotten
  <2>4. CASE \E q \in Procs : pc[q] = "enqueue" /\ f \in todo[q]
    BY <1>2, <1>3, <2>4
  <2>5. CASE f \in jobs /\ pc[f] \in Places
    <3>1. CASE f = p
      <4>1. l \in Places
        BY <2>1, <2>2, <2>5, <3>1
      <4>2. QED
        BY <1>2, <2>5, <3>1, <4>1
    <3>2. CASE f # p
      BY <1>1, <1>2, <2>5, <3>2
    <3>3. QED
      BY <3>1, <3>2
  <2>6. QED
    BY <2>3, <2>4, <2>5
<1>11. AbortIsFinal'
  BY DEF IInv, AbortIsFinal
<1>12. QED
  BY <1>4, <1>5, <1>6, <1>7, <1>8, <1>9, <1>10, <1>11

\* The three steps that only move a process.
LEMMA CountKeeps ==
  ASSUME IInv, NEW p \in Procs, ActivateCount(p)
  PROVE  /\ ActivatedRows' /\ WorkersHaveJobs' /\ NoRowsYet'
         /\ ClaimsDisjoint' /\ PastGateClosed' /\ GateHeldByOne'
         /\ NoFishForgotten' /\ AbortIsFinal'
<1>1. PICK l \in {"claim", "end", "account"} :
        /\ pc' = [pc EXCEPT ![p] = l]
        /\ l = "account" => p # Launcher
  BY ActivateCountMoves
<1>2. l \in PC
  BY DEF PC
<1>3. /\ pc[p] = "count"
      /\ UNCHANGED <<fish, jobs, gate, agg, todo, late, asked, orphans, cut,
                     faults>>
  BY ActivateCountMoves
<1>4. UNCHANGED <<fish, jobs, gate, agg, todo, cut>>
  BY <1>3
<1>5. /\ late' \subseteq late /\ asked' \subseteq asked
      /\ \A f \in Fish, s \in Closed :
           <<f, s>> \in orphans' => <<f, s>> \in orphans \/ f \in asked
  BY <1>3
<1>6. /\ l \in {"claim", "end"} \/ (p # Launcher /\ l = "account")
      /\ l # "count" /\ faults' = faults
  BY <1>1, <1>3
<1>7. pc' = [pc EXCEPT ![p] = l]
  BY <1>1
<1>8. QED
  BY <1>2, <1>3, <1>4, <1>5, <1>6, <1>7, MoveKeeps

LEMMA CloseFishKeeps ==
  ASSUME IInv, NEW f \in Fish, CloseFish(f)
  PROVE  /\ ActivatedRows' /\ WorkersHaveJobs' /\ NoRowsYet'
         /\ ClaimsDisjoint' /\ PastGateClosed' /\ GateHeldByOne'
         /\ NoFishForgotten' /\ AbortIsFinal'
<1>1. TypeOK /\ f \in Procs /\ f # Launcher
  BY SizeAssumption DEF IInv, Fish, Procs, Launcher
<1>2. PICK l \in {"write", "close", "count"} :
        /\ pc' = [pc EXCEPT ![f] = l]
        /\ l = "count" => fish[f] # "running"
  BY <1>1, CloseFishMoves
<1>3. l \in PC
  BY DEF PC
<1>4. QED
  BY <1>1, <1>2, <1>3, CloseFishMoves, MoveKeeps

LEMMA TurnFailsKeeps ==
  ASSUME IInv, NEW f \in Fish, TurnFails(f)
  PROVE  /\ ActivatedRows' /\ WorkersHaveJobs' /\ NoRowsYet'
         /\ ClaimsDisjoint' /\ PastGateClosed' /\ GateHeldByOne'
         /\ NoFishForgotten' /\ AbortIsFinal'
<1>1. TypeOK /\ f \in Procs /\ f # Launcher /\ "close" \in PC
  BY SizeAssumption DEF IInv, Fish, Procs, Launcher, PC
<1>2. /\ f \in asked /\ asked' \subseteq asked /\ late' \subseteq late
      /\ \A g \in Fish, s \in Closed :
           <<g, s>> \in orphans' => <<g, s>> \in orphans \/ g \in asked
      /\ UNCHANGED <<fish, jobs, gate, agg, todo, cut>>
      /\ faults' # 0
  BY <1>1, TurnFailsMoves
<1>3. CASE pc[f] = "drain" /\ pc' = [pc EXCEPT ![f] = "close"]
  BY <1>1, <1>2, <1>3, MoveKeeps
<1>4. CASE pc' = pc
  <2>1. WorkersHaveJobs'
    BY <1>2, <1>4 DEF IInv, WorkersHaveJobs
  <2>2. ActivatedRows' /\ NoRowsYet' /\ AbortIsFinal' /\ ClaimsDisjoint'
    BY <1>2, <1>4
    DEF IInv, ActivatedRows, NoRowsYet, AbortIsFinal, ClaimsDisjoint
  <2>3. PastGateClosed' /\ GateHeldByOne'
    BY <1>2, <1>4 DEF IInv, PastGateClosed, GateHeldByOne, AllClosed
  <2>4. NoFishForgotten'
    BY <1>2 DEF NoFishForgotten
  <2>5. QED
    BY <2>1, <2>2, <2>3, <2>4
<1>5. QED
  BY <1>1, <1>3, <1>4, TurnFailsMoves

\* Only the claim takes a fish out of "pending", and nothing puts it back.
LEMMA ActivatedRowsStep == IInv /\ [Next]_vars => ActivatedRows'
<1> SUFFICES ASSUME IInv, [Next]_vars PROVE ActivatedRows'
  OBVIOUS
<1> USE DEF IInv, TypeOK, SwarmStatus, FishStatus, Closed, AggState, PC, Fish,
            Procs, Launcher, Goto, queueVars, aggVars, procVars, turnVars, abortVars,
            ActivatedRows, WorkersHaveJobs
<1>1. CASE Next
  <2>1. CASE InsertSwarm
    BY <2>1 DEF InsertSwarm
  <2>2. CASE ResetGate
    BY <2>2 DEF ResetGate
  <2>3. ASSUME NEW f \in Fish, CreateFish(f)
       PROVE  ActivatedRows'
    BY <2>3 DEF CreateFish
  <2>4. ASSUME NEW p \in Procs, ActivateCount(p)
       PROVE  ActivatedRows'
    BY <2>4, CountKeeps
  <2>5. ASSUME NEW p \in Procs, ActivateClaim(p)
       PROVE  ActivatedRows'
    BY <2>5 DEF ActivateClaim, AfterActivation, FirstPending, WithStatus
  <2>6. ASSUME NEW p \in Procs, NEW f \in Fish, ActivateEnqueue(p, f)
       PROVE  ActivatedRows'
    BY <2>6 DEF ActivateEnqueue, AfterActivation
  <2>7. ASSUME NEW f \in Fish, StartJob(f)
       PROVE  ActivatedRows'
    BY <2>7 DEF StartJob
  <2>8. ASSUME NEW f \in Fish, LoadRun(f)
       PROVE  ActivatedRows'
    BY <2>8 DEF LoadRun
  <2>9. ASSUME NEW f \in Fish, DrainFish(f)
       PROVE  ActivatedRows'
    BY <2>9 DEF DrainFish
  <2>10. ASSUME NEW f \in Fish, TimeoutFish(f)
       PROVE  ActivatedRows'
    BY <2>10 DEF TimeoutFish
  <2>11. ASSUME NEW f \in Fish, CloseFish(f)
       PROVE  ActivatedRows'
    BY <2>11, CloseFishKeeps
  <2>12. ASSUME NEW f \in Fish, AccountFish(f)
       PROVE  ActivatedRows'
    BY <2>12 DEF AccountFish
  <2>13. ASSUME NEW f \in Fish, ClaimGate(f)
       PROVE  ActivatedRows'
    BY <2>13 DEF ClaimGate
  <2>14. ASSUME NEW f \in Fish, PublishAggregate(f)
       PROVE  ActivatedRows'
    BY <2>14 DEF PublishAggregate, AddAggregateJob
  <2>15. ASSUME NEW f \in Fish, ReleaseGate(f)
       PROVE  ActivatedRows'
    BY <2>15 DEF ReleaseGate
  <2>16. ASSUME NEW f \in Fish, TerminalTurn(f)
       PROVE  ActivatedRows'
    BY <2>16 DEF TerminalTurn
  <2>17. ASSUME NEW f \in Fish, LateTurnEnds(f)
       PROVE  ActivatedRows'
    BY <2>17 DEF LateTurnEnds
  <2>18. CASE StartAggregate
    BY <2>18 DEF StartAggregate
  <2>19. CASE CloseSwarm
    BY <2>19 DEF CloseSwarm
  <2>20. CASE AbortSwarm
    BY <2>20 DEF AbortSwarm, WithStatus
  <2>21. ASSUME NEW p \in Procs, CallFails(p)
       PROVE  ActivatedRows'
    BY <2>21 DEF CallFails, Fault
  <2>22. ASSUME NEW f \in Fish, LoadFails(f)
       PROVE  ActivatedRows'
    BY <2>22 DEF LoadFails, Fault
  <2>23. ASSUME NEW f \in Fish, CloseFails(f)
       PROVE  ActivatedRows'
    BY <2>23 DEF CloseFails, CloseRejected, Fault
  <2>24. ASSUME NEW f \in Fish, PublishFails(f)
       PROVE  ActivatedRows'
    BY <2>24 DEF PublishFails, AddAggregateJob, Fault
  <2>25. ASSUME NEW f \in Fish, WorkerDies(f)
       PROVE  ActivatedRows'
    BY <2>25 DEF WorkerDies, Fault
  <2>26. CASE AggregateFails
    BY <2>26 DEF AggregateFails, Fault
  <2>27. ASSUME NEW f \in Fish, TurnWrites(f)
       PROVE  ActivatedRows'
    BY <2>27 DEF TurnWrites
  <2>28. ASSUME NEW f \in Fish, WriteFish(f)
       PROVE  ActivatedRows'
    BY <2>28 DEF WriteFish
  <2>29. ASSUME NEW f \in Fish, TurnFails(f)
       PROVE  ActivatedRows'
    BY <2>29, TurnFailsKeeps
  <2>30. ASSUME NEW f \in Fish, NEW s \in Closed, OrphanWrites(f, s)
       PROVE  ActivatedRows'
    BY <2>30 DEF OrphanWrites
  <2>31. QED
    BY <1>1, <2>1, <2>2, <2>3, <2>4, <2>5, <2>6, <2>7, <2>8, <2>9, <2>10, <2>11, <2>12, <2>13,
       <2>14, <2>15, <2>16, <2>17, <2>18, <2>19, <2>20, <2>21, <2>22, <2>23, <2>24, <2>25, <2>26, <2>27, <2>28, <2>29,
       <2>30
    DEF Next, Launch, Activate, Worker, OnFishComplete, Turn, Failure
<1>2. CASE UNCHANGED vars
  BY <1>2 DEF vars
<1>3. QED
  BY <1>1, <1>2

\* Workers are started by accepted jobs only.
LEMMA WorkersHaveJobsStep == IInv /\ [Next]_vars => WorkersHaveJobs'
<1> SUFFICES ASSUME IInv, [Next]_vars PROVE WorkersHaveJobs'
  OBVIOUS
<1> USE DEF IInv, TypeOK, SwarmStatus, FishStatus, Closed, AggState, PC, Fish,
            Procs, Launcher, Goto, queueVars, aggVars, procVars, turnVars, abortVars,
            WorkersHaveJobs
<1>1. CASE Next
  <2>1. CASE InsertSwarm
    <3>1. /\ pc' = [pc EXCEPT ![Launcher] = "reset"]
          /\ UNCHANGED <<jobs, late, asked, orphans>>
      BY <2>1 DEF InsertSwarm
    <3>2. QED
      BY <3>1
  <2>2. CASE ResetGate
    BY <2>2 DEF ResetGate
  <2>3. ASSUME NEW f \in Fish, CreateFish(f)
       PROVE  WorkersHaveJobs'
    BY <2>3 DEF CreateFish
  <2>4. ASSUME NEW p \in Procs, ActivateCount(p)
       PROVE  WorkersHaveJobs'
    BY <2>4, CountKeeps
  <2>5. ASSUME NEW p \in Procs, ActivateClaim(p)
       PROVE  WorkersHaveJobs'
    BY <2>5 DEF ActivateClaim, AfterActivation, FirstPending, WithStatus
  <2>6. ASSUME NEW p \in Procs, NEW f \in Fish, ActivateEnqueue(p, f)
       PROVE  WorkersHaveJobs'
    BY <2>6 DEF ActivateEnqueue, AfterActivation
  <2>7. ASSUME NEW f \in Fish, StartJob(f)
       PROVE  WorkersHaveJobs'
    BY <2>7 DEF StartJob
  <2>8. ASSUME NEW f \in Fish, LoadRun(f)
       PROVE  WorkersHaveJobs'
    BY <2>8 DEF LoadRun
  <2>9. ASSUME NEW f \in Fish, DrainFish(f)
       PROVE  WorkersHaveJobs'
    BY <2>9 DEF DrainFish
  <2>10. ASSUME NEW f \in Fish, TimeoutFish(f)
       PROVE  WorkersHaveJobs'
    BY <2>10 DEF TimeoutFish
  <2>11. ASSUME NEW f \in Fish, CloseFish(f)
       PROVE  WorkersHaveJobs'
    BY <2>11, CloseFishKeeps
  <2>12. ASSUME NEW f \in Fish, AccountFish(f)
       PROVE  WorkersHaveJobs'
    BY <2>12 DEF AccountFish
  <2>13. ASSUME NEW f \in Fish, ClaimGate(f)
       PROVE  WorkersHaveJobs'
    BY <2>13 DEF ClaimGate
  <2>14. ASSUME NEW f \in Fish, PublishAggregate(f)
       PROVE  WorkersHaveJobs'
    BY <2>14 DEF PublishAggregate, AddAggregateJob
  <2>15. ASSUME NEW f \in Fish, ReleaseGate(f)
       PROVE  WorkersHaveJobs'
    BY <2>15 DEF ReleaseGate
  <2>16. ASSUME NEW f \in Fish, TerminalTurn(f)
       PROVE  WorkersHaveJobs'
    BY <2>16 DEF TerminalTurn
  <2>17. ASSUME NEW f \in Fish, LateTurnEnds(f)
       PROVE  WorkersHaveJobs'
    BY <2>17 DEF LateTurnEnds
  <2>18. CASE StartAggregate
    BY <2>18 DEF StartAggregate
  <2>19. CASE CloseSwarm
    BY <2>19 DEF CloseSwarm
  <2>20. CASE AbortSwarm
    BY <2>20 DEF AbortSwarm, WithStatus
  <2>21. ASSUME NEW p \in Procs, CallFails(p)
       PROVE  WorkersHaveJobs'
    BY <2>21 DEF CallFails, Fault
  <2>22. ASSUME NEW f \in Fish, LoadFails(f)
       PROVE  WorkersHaveJobs'
    BY <2>22 DEF LoadFails, Fault
  <2>23. ASSUME NEW f \in Fish, CloseFails(f)
       PROVE  WorkersHaveJobs'
    BY <2>23 DEF CloseFails, CloseRejected, Fault
  <2>24. ASSUME NEW f \in Fish, PublishFails(f)
       PROVE  WorkersHaveJobs'
    BY <2>24 DEF PublishFails, AddAggregateJob, Fault
  <2>25. ASSUME NEW f \in Fish, WorkerDies(f)
       PROVE  WorkersHaveJobs'
    BY <2>25 DEF WorkerDies, Fault
  <2>26. CASE AggregateFails
    BY <2>26 DEF AggregateFails, Fault
  <2>27. ASSUME NEW f \in Fish, TurnWrites(f)
       PROVE  WorkersHaveJobs'
    BY <2>27 DEF TurnWrites
  <2>28. ASSUME NEW f \in Fish, WriteFish(f)
       PROVE  WorkersHaveJobs'
    BY <2>28 DEF WriteFish
  <2>29. ASSUME NEW f \in Fish, TurnFails(f)
       PROVE  WorkersHaveJobs'
    BY <2>29, TurnFailsKeeps
  <2>30. ASSUME NEW f \in Fish, NEW s \in Closed, OrphanWrites(f, s)
       PROVE  WorkersHaveJobs'
    BY <2>30 DEF OrphanWrites
  <2>31. QED
    BY <1>1, <2>1, <2>2, <2>3, <2>4, <2>5, <2>6, <2>7, <2>8, <2>9, <2>10, <2>11, <2>12, <2>13,
       <2>14, <2>15, <2>16, <2>17, <2>18, <2>19, <2>20, <2>21, <2>22, <2>23, <2>24, <2>25, <2>26, <2>27, <2>28, <2>29,
       <2>30
    DEF Next, Launch, Activate, Worker, OnFishComplete, Turn, Failure
<1>2. CASE UNCHANGED vars
  BY <1>2 DEF vars
<1>3. QED
  BY <1>1, <1>2

\* No worker can write a row before the launcher creates one.
LEMMA NoRowsYetStep == IInv /\ [Next]_vars => NoRowsYet'
<1> SUFFICES ASSUME IInv, [Next]_vars PROVE NoRowsYet'
  OBVIOUS
<1> USE DEF IInv, TypeOK, SwarmStatus, FishStatus, Closed, AggState, PC, Fish,
            Procs, Launcher, Goto, queueVars, aggVars, procVars, turnVars, abortVars,
            NoRowsYet, WorkersHaveJobs, ActivatedRows
<1>1. CASE Next
  <2>1. CASE InsertSwarm
    BY <2>1 DEF InsertSwarm
  <2>2. CASE ResetGate
    BY <2>2 DEF ResetGate
  <2>3. ASSUME NEW f \in Fish, CreateFish(f)
       PROVE  NoRowsYet'
    BY <2>3 DEF CreateFish
  <2>4. ASSUME NEW p \in Procs, ActivateCount(p)
       PROVE  NoRowsYet'
    BY <2>4, CountKeeps
  <2>5. ASSUME NEW p \in Procs, ActivateClaim(p)
       PROVE  NoRowsYet'
    BY <2>5 DEF ActivateClaim, AfterActivation, FirstPending, WithStatus
  <2>6. ASSUME NEW p \in Procs, NEW f \in Fish, ActivateEnqueue(p, f)
       PROVE  NoRowsYet'
    BY <2>6 DEF ActivateEnqueue, AfterActivation
  <2>7. ASSUME NEW f \in Fish, StartJob(f)
       PROVE  NoRowsYet'
    BY <2>7 DEF StartJob
  <2>8. ASSUME NEW f \in Fish, LoadRun(f)
       PROVE  NoRowsYet'
    BY <2>8 DEF LoadRun
  <2>9. ASSUME NEW f \in Fish, DrainFish(f)
       PROVE  NoRowsYet'
    BY <2>9 DEF DrainFish
  <2>10. ASSUME NEW f \in Fish, TimeoutFish(f)
       PROVE  NoRowsYet'
    BY <2>10 DEF TimeoutFish
  <2>11. ASSUME NEW f \in Fish, CloseFish(f)
       PROVE  NoRowsYet'
    BY <2>11, CloseFishKeeps
  <2>12. ASSUME NEW f \in Fish, AccountFish(f)
       PROVE  NoRowsYet'
    BY <2>12 DEF AccountFish
  <2>13. ASSUME NEW f \in Fish, ClaimGate(f)
       PROVE  NoRowsYet'
    BY <2>13 DEF ClaimGate
  <2>14. ASSUME NEW f \in Fish, PublishAggregate(f)
       PROVE  NoRowsYet'
    BY <2>14 DEF PublishAggregate, AddAggregateJob
  <2>15. ASSUME NEW f \in Fish, ReleaseGate(f)
       PROVE  NoRowsYet'
    BY <2>15 DEF ReleaseGate
  <2>16. ASSUME NEW f \in Fish, TerminalTurn(f)
       PROVE  NoRowsYet'
    BY <2>16 DEF TerminalTurn
  <2>17. ASSUME NEW f \in Fish, LateTurnEnds(f)
       PROVE  NoRowsYet'
    BY <2>17 DEF LateTurnEnds
  <2>18. CASE StartAggregate
    BY <2>18 DEF StartAggregate
  <2>19. CASE CloseSwarm
    BY <2>19 DEF CloseSwarm
  <2>20. CASE AbortSwarm
    BY <2>20 DEF AbortSwarm, WithStatus
  <2>21. ASSUME NEW p \in Procs, CallFails(p)
       PROVE  NoRowsYet'
    BY <2>21 DEF CallFails, Fault
  <2>22. ASSUME NEW f \in Fish, LoadFails(f)
       PROVE  NoRowsYet'
    BY <2>22 DEF LoadFails, Fault
  <2>23. ASSUME NEW f \in Fish, CloseFails(f)
       PROVE  NoRowsYet'
    BY <2>23 DEF CloseFails, CloseRejected, Fault
  <2>24. ASSUME NEW f \in Fish, PublishFails(f)
       PROVE  NoRowsYet'
    BY <2>24 DEF PublishFails, AddAggregateJob, Fault
  <2>25. ASSUME NEW f \in Fish, WorkerDies(f)
       PROVE  NoRowsYet'
    BY <2>25 DEF WorkerDies, Fault
  <2>26. CASE AggregateFails
    BY <2>26 DEF AggregateFails, Fault
  <2>27. ASSUME NEW f \in Fish, TurnWrites(f)
       PROVE  NoRowsYet'
    BY <2>27 DEF TurnWrites
  <2>28. ASSUME NEW f \in Fish, WriteFish(f)
       PROVE  NoRowsYet'
    BY <2>28 DEF WriteFish
  <2>29. ASSUME NEW f \in Fish, TurnFails(f)
       PROVE  NoRowsYet'
    BY <2>29, TurnFailsKeeps
  <2>30. ASSUME NEW f \in Fish, NEW s \in Closed, OrphanWrites(f, s)
       PROVE  NoRowsYet'
    BY <2>30 DEF OrphanWrites
  <2>31. QED
    BY <1>1, <2>1, <2>2, <2>3, <2>4, <2>5, <2>6, <2>7, <2>8, <2>9, <2>10, <2>11, <2>12, <2>13,
       <2>14, <2>15, <2>16, <2>17, <2>18, <2>19, <2>20, <2>21, <2>22, <2>23, <2>24, <2>25, <2>26, <2>27, <2>28, <2>29,
       <2>30
    DEF Next, Launch, Activate, Worker, OnFishComplete, Turn, Failure
<1>2. CASE UNCHANGED vars
  BY <1>2 DEF vars
<1>3. QED
  BY <1>1, <1>2

\* Two claims never pick the same row: a picked row is no longer pending.
LEMMA ClaimsDisjointStep == IInv /\ [Next]_vars => ClaimsDisjoint'
<1> SUFFICES ASSUME IInv, [Next]_vars PROVE ClaimsDisjoint'
  OBVIOUS
<1> USE DEF IInv, TypeOK, SwarmStatus, FishStatus, Closed, AggState, PC, Fish,
            Procs, Launcher, Goto, queueVars, aggVars, procVars, turnVars, abortVars,
            ClaimsDisjoint, ActivatedRows, WorkersHaveJobs
<1>1. CASE Next
  <2>1. CASE InsertSwarm
    BY <2>1 DEF InsertSwarm
  <2>2. CASE ResetGate
    BY <2>2 DEF ResetGate
  <2>3. ASSUME NEW f \in Fish, CreateFish(f)
       PROVE  ClaimsDisjoint'
    BY <2>3 DEF CreateFish
  <2>4. ASSUME NEW p \in Procs, ActivateCount(p)
       PROVE  ClaimsDisjoint'
    BY <2>4, CountKeeps
  <2>5. ASSUME NEW p \in Procs, ActivateClaim(p)
       PROVE  ClaimsDisjoint'
    <3>1. /\ pc[p] = "claim" /\ TypeOK
          /\ \A q \in Procs : q # p => pc'[q] = pc[q] /\ todo'[q] = todo[q]
          /\ todo'[p] # {} => pc'[p] = "enqueue"
          /\ \A f \in todo'[p] : f \in Fish /\ fish[f] = "pending"
          /\ UNCHANGED jobs
      BY <2>5, ActivateClaimMoves
    <3>2. \A q \in Procs : todo'[q] # {} => pc'[q] = "enqueue"
      BY <3>1
    <3>3. \A f \in todo'[p] : f \notin jobs /\ \A q \in Procs : f \notin todo[q]
      BY <3>1
    <3>4. \A q \in Procs : \A f \in todo'[q] : f \notin jobs'
      BY <3>1, <3>3
    <3>5. \A q, r \in Procs : \A f \in Fish :
            f \in todo'[q] /\ f \in todo'[r] => q = r
      BY <3>1, <3>3
    <3>6. QED
      BY <3>2, <3>4, <3>5
  <2>6. ASSUME NEW p \in Procs, NEW f \in Fish, ActivateEnqueue(p, f)
       PROVE  ClaimsDisjoint'
    BY <2>6 DEF ActivateEnqueue, AfterActivation
  <2>7. ASSUME NEW f \in Fish, StartJob(f)
       PROVE  ClaimsDisjoint'
    BY <2>7 DEF StartJob
  <2>8. ASSUME NEW f \in Fish, LoadRun(f)
       PROVE  ClaimsDisjoint'
    BY <2>8 DEF LoadRun
  <2>9. ASSUME NEW f \in Fish, DrainFish(f)
       PROVE  ClaimsDisjoint'
    BY <2>9 DEF DrainFish
  <2>10. ASSUME NEW f \in Fish, TimeoutFish(f)
       PROVE  ClaimsDisjoint'
    BY <2>10 DEF TimeoutFish
  <2>11. ASSUME NEW f \in Fish, CloseFish(f)
       PROVE  ClaimsDisjoint'
    BY <2>11, CloseFishKeeps
  <2>12. ASSUME NEW f \in Fish, AccountFish(f)
       PROVE  ClaimsDisjoint'
    BY <2>12 DEF AccountFish
  <2>13. ASSUME NEW f \in Fish, ClaimGate(f)
       PROVE  ClaimsDisjoint'
    BY <2>13 DEF ClaimGate
  <2>14. ASSUME NEW f \in Fish, PublishAggregate(f)
       PROVE  ClaimsDisjoint'
    BY <2>14 DEF PublishAggregate, AddAggregateJob
  <2>15. ASSUME NEW f \in Fish, ReleaseGate(f)
       PROVE  ClaimsDisjoint'
    BY <2>15 DEF ReleaseGate
  <2>16. ASSUME NEW f \in Fish, TerminalTurn(f)
       PROVE  ClaimsDisjoint'
    BY <2>16 DEF TerminalTurn
  <2>17. ASSUME NEW f \in Fish, LateTurnEnds(f)
       PROVE  ClaimsDisjoint'
    BY <2>17 DEF LateTurnEnds
  <2>18. CASE StartAggregate
    BY <2>18 DEF StartAggregate
  <2>19. CASE CloseSwarm
    BY <2>19 DEF CloseSwarm
  <2>20. CASE AbortSwarm
    BY <2>20 DEF AbortSwarm, WithStatus
  <2>21. ASSUME NEW p \in Procs, CallFails(p)
       PROVE  ClaimsDisjoint'
    BY <2>21 DEF CallFails, Fault
  <2>22. ASSUME NEW f \in Fish, LoadFails(f)
       PROVE  ClaimsDisjoint'
    BY <2>22 DEF LoadFails, Fault
  <2>23. ASSUME NEW f \in Fish, CloseFails(f)
       PROVE  ClaimsDisjoint'
    BY <2>23 DEF CloseFails, CloseRejected, Fault
  <2>24. ASSUME NEW f \in Fish, PublishFails(f)
       PROVE  ClaimsDisjoint'
    BY <2>24 DEF PublishFails, AddAggregateJob, Fault
  <2>25. ASSUME NEW f \in Fish, WorkerDies(f)
       PROVE  ClaimsDisjoint'
    BY <2>25 DEF WorkerDies, Fault
  <2>26. CASE AggregateFails
    BY <2>26 DEF AggregateFails, Fault
  <2>27. ASSUME NEW f \in Fish, TurnWrites(f)
       PROVE  ClaimsDisjoint'
    BY <2>27 DEF TurnWrites
  <2>28. ASSUME NEW f \in Fish, WriteFish(f)
       PROVE  ClaimsDisjoint'
    BY <2>28 DEF WriteFish
  <2>29. ASSUME NEW f \in Fish, TurnFails(f)
       PROVE  ClaimsDisjoint'
    BY <2>29, TurnFailsKeeps
  <2>30. ASSUME NEW f \in Fish, NEW s \in Closed, OrphanWrites(f, s)
       PROVE  ClaimsDisjoint'
    BY <2>30 DEF OrphanWrites
  <2>31. QED
    BY <1>1, <2>1, <2>2, <2>3, <2>4, <2>5, <2>6, <2>7, <2>8, <2>9, <2>10, <2>11, <2>12, <2>13,
       <2>14, <2>15, <2>16, <2>17, <2>18, <2>19, <2>20, <2>21, <2>22, <2>23, <2>24, <2>25, <2>26, <2>27, <2>28, <2>29,
       <2>30
    DEF Next, Launch, Activate, Worker, OnFishComplete, Turn, Failure
<1>2. CASE UNCHANGED vars
  BY <1>2 DEF vars
<1>3. QED
  BY <1>1, <1>2

\* What a completion saw stays true: a closed fish is only ever closed again.
LEMMA PastGateClosedStep == IInv /\ [Next]_vars => PastGateClosed'
<1> SUFFICES ASSUME IInv, [Next]_vars PROVE PastGateClosed'
  OBVIOUS
<1> USE DEF IInv, TypeOK, SwarmStatus, FishStatus, Closed, AggState, PC, Fish,
            Procs, Launcher, Goto, queueVars, aggVars, procVars, turnVars, abortVars,
            PastGateClosed, AllClosed, ActivatedRows, WorkersHaveJobs
<1>1. CASE Next
  <2>1. CASE InsertSwarm
    BY <2>1 DEF InsertSwarm
  <2>2. CASE ResetGate
    BY <2>2 DEF ResetGate
  <2>3. ASSUME NEW f \in Fish, CreateFish(f)
       PROVE  PastGateClosed'
    BY <2>3 DEF CreateFish
  <2>4. ASSUME NEW p \in Procs, ActivateCount(p)
       PROVE  PastGateClosed'
    BY <2>4, CountKeeps
  <2>5. ASSUME NEW p \in Procs, ActivateClaim(p)
       PROVE  PastGateClosed'
    BY <2>5 DEF ActivateClaim, AfterActivation, FirstPending, WithStatus
  <2>6. ASSUME NEW p \in Procs, NEW f \in Fish, ActivateEnqueue(p, f)
       PROVE  PastGateClosed'
    BY <2>6 DEF ActivateEnqueue, AfterActivation
  <2>7. ASSUME NEW f \in Fish, StartJob(f)
       PROVE  PastGateClosed'
    BY <2>7 DEF StartJob
  <2>8. ASSUME NEW f \in Fish, LoadRun(f)
       PROVE  PastGateClosed'
    BY <2>8 DEF LoadRun
  <2>9. ASSUME NEW f \in Fish, DrainFish(f)
       PROVE  PastGateClosed'
    BY <2>9 DEF DrainFish
  <2>10. ASSUME NEW f \in Fish, TimeoutFish(f)
       PROVE  PastGateClosed'
    BY <2>10 DEF TimeoutFish
  <2>11. ASSUME NEW f \in Fish, CloseFish(f)
       PROVE  PastGateClosed'
    BY <2>11, CloseFishKeeps
  <2>12. ASSUME NEW f \in Fish, AccountFish(f)
       PROVE  PastGateClosed'
    BY <2>12, AccountedMeansAllClosed DEF AccountFish
  <2>13. ASSUME NEW f \in Fish, ClaimGate(f)
       PROVE  PastGateClosed'
    BY <2>13 DEF ClaimGate
  <2>14. ASSUME NEW f \in Fish, PublishAggregate(f)
       PROVE  PastGateClosed'
    BY <2>14 DEF PublishAggregate, AddAggregateJob
  <2>15. ASSUME NEW f \in Fish, ReleaseGate(f)
       PROVE  PastGateClosed'
    BY <2>15 DEF ReleaseGate
  <2>16. ASSUME NEW f \in Fish, TerminalTurn(f)
       PROVE  PastGateClosed'
    BY <2>16 DEF TerminalTurn
  <2>17. ASSUME NEW f \in Fish, LateTurnEnds(f)
       PROVE  PastGateClosed'
    BY <2>17 DEF LateTurnEnds
  <2>18. CASE StartAggregate
    BY <2>18 DEF StartAggregate
  <2>19. CASE CloseSwarm
    BY <2>19 DEF CloseSwarm
  <2>20. CASE AbortSwarm
    BY <2>20 DEF AbortSwarm, WithStatus
  <2>21. ASSUME NEW p \in Procs, CallFails(p)
       PROVE  PastGateClosed'
    BY <2>21 DEF CallFails, Fault
  <2>22. ASSUME NEW f \in Fish, LoadFails(f)
       PROVE  PastGateClosed'
    BY <2>22 DEF LoadFails, Fault
  <2>23. ASSUME NEW f \in Fish, CloseFails(f)
       PROVE  PastGateClosed'
    BY <2>23 DEF CloseFails, CloseRejected, Fault
  <2>24. ASSUME NEW f \in Fish, PublishFails(f)
       PROVE  PastGateClosed'
    BY <2>24 DEF PublishFails, AddAggregateJob, Fault
  <2>25. ASSUME NEW f \in Fish, WorkerDies(f)
       PROVE  PastGateClosed'
    BY <2>25 DEF WorkerDies, Fault
  <2>26. CASE AggregateFails
    BY <2>26 DEF AggregateFails, Fault
  <2>27. ASSUME NEW f \in Fish, TurnWrites(f)
       PROVE  PastGateClosed'
    BY <2>27 DEF TurnWrites
  <2>28. ASSUME NEW f \in Fish, WriteFish(f)
       PROVE  PastGateClosed'
    BY <2>28 DEF WriteFish
  <2>29. ASSUME NEW f \in Fish, TurnFails(f)
       PROVE  PastGateClosed'
    BY <2>29, TurnFailsKeeps
  <2>30. ASSUME NEW f \in Fish, NEW s \in Closed, OrphanWrites(f, s)
       PROVE  PastGateClosed'
    BY <2>30 DEF OrphanWrites
  <2>31. QED
    BY <1>1, <2>1, <2>2, <2>3, <2>4, <2>5, <2>6, <2>7, <2>8, <2>9, <2>10, <2>11, <2>12, <2>13,
       <2>14, <2>15, <2>16, <2>17, <2>18, <2>19, <2>20, <2>21, <2>22, <2>23, <2>24, <2>25, <2>26, <2>27, <2>28, <2>29,
       <2>30
    DEF Next, Launch, Activate, Worker, OnFishComplete, Turn, Failure
<1>2. CASE UNCHANGED vars
  BY <1>2 DEF vars
<1>3. QED
  BY <1>1, <1>2

\* The NX claim admits one completion, and nobody is inside when it is reset.
LEMMA GateHeldByOneStep == IInv /\ [Next]_vars => GateHeldByOne'
<1> SUFFICES ASSUME IInv, [Next]_vars PROVE GateHeldByOne'
  OBVIOUS
<1> USE DEF IInv, TypeOK, SwarmStatus, FishStatus, Closed, AggState, PC, Fish,
            Procs, Launcher, Goto, queueVars, aggVars, procVars, turnVars, abortVars,
            GateHeldByOne, PastGateClosed, NoRowsYet, AllClosed,
            WorkersHaveJobs
<1>1. CASE Next
  <2>1. CASE InsertSwarm
    BY <2>1 DEF InsertSwarm
  <2>2. CASE ResetGate
    BY <2>2 DEF ResetGate
  <2>3. ASSUME NEW f \in Fish, CreateFish(f)
       PROVE  GateHeldByOne'
    BY <2>3 DEF CreateFish
  <2>4. ASSUME NEW p \in Procs, ActivateCount(p)
       PROVE  GateHeldByOne'
    BY <2>4, CountKeeps
  <2>5. ASSUME NEW p \in Procs, ActivateClaim(p)
       PROVE  GateHeldByOne'
    BY <2>5 DEF ActivateClaim, AfterActivation, FirstPending, WithStatus
  <2>6. ASSUME NEW p \in Procs, NEW f \in Fish, ActivateEnqueue(p, f)
       PROVE  GateHeldByOne'
    BY <2>6 DEF ActivateEnqueue, AfterActivation
  <2>7. ASSUME NEW f \in Fish, StartJob(f)
       PROVE  GateHeldByOne'
    BY <2>7 DEF StartJob
  <2>8. ASSUME NEW f \in Fish, LoadRun(f)
       PROVE  GateHeldByOne'
    BY <2>8 DEF LoadRun
  <2>9. ASSUME NEW f \in Fish, DrainFish(f)
       PROVE  GateHeldByOne'
    BY <2>9 DEF DrainFish
  <2>10. ASSUME NEW f \in Fish, TimeoutFish(f)
       PROVE  GateHeldByOne'
    BY <2>10 DEF TimeoutFish
  <2>11. ASSUME NEW f \in Fish, CloseFish(f)
       PROVE  GateHeldByOne'
    BY <2>11, CloseFishKeeps
  <2>12. ASSUME NEW f \in Fish, AccountFish(f)
       PROVE  GateHeldByOne'
    BY <2>12 DEF AccountFish
  <2>13. ASSUME NEW f \in Fish, ClaimGate(f)
       PROVE  GateHeldByOne'
    BY <2>13 DEF ClaimGate
  <2>14. ASSUME NEW f \in Fish, PublishAggregate(f)
       PROVE  GateHeldByOne'
    BY <2>14 DEF PublishAggregate, AddAggregateJob
  <2>15. ASSUME NEW f \in Fish, ReleaseGate(f)
       PROVE  GateHeldByOne'
    BY <2>15 DEF ReleaseGate
  <2>16. ASSUME NEW f \in Fish, TerminalTurn(f)
       PROVE  GateHeldByOne'
    BY <2>16 DEF TerminalTurn
  <2>17. ASSUME NEW f \in Fish, LateTurnEnds(f)
       PROVE  GateHeldByOne'
    BY <2>17 DEF LateTurnEnds
  <2>18. CASE StartAggregate
    BY <2>18 DEF StartAggregate
  <2>19. CASE CloseSwarm
    BY <2>19 DEF CloseSwarm
  <2>20. CASE AbortSwarm
    BY <2>20 DEF AbortSwarm, WithStatus
  <2>21. ASSUME NEW p \in Procs, CallFails(p)
       PROVE  GateHeldByOne'
    BY <2>21 DEF CallFails, Fault
  <2>22. ASSUME NEW f \in Fish, LoadFails(f)
       PROVE  GateHeldByOne'
    BY <2>22 DEF LoadFails, Fault
  <2>23. ASSUME NEW f \in Fish, CloseFails(f)
       PROVE  GateHeldByOne'
    BY <2>23 DEF CloseFails, CloseRejected, Fault
  <2>24. ASSUME NEW f \in Fish, PublishFails(f)
       PROVE  GateHeldByOne'
    BY <2>24 DEF PublishFails, AddAggregateJob, Fault
  <2>25. ASSUME NEW f \in Fish, WorkerDies(f)
       PROVE  GateHeldByOne'
    BY <2>25 DEF WorkerDies, Fault
  <2>26. CASE AggregateFails
    BY <2>26 DEF AggregateFails, Fault
  <2>27. ASSUME NEW f \in Fish, TurnWrites(f)
       PROVE  GateHeldByOne'
    BY <2>27 DEF TurnWrites
  <2>28. ASSUME NEW f \in Fish, WriteFish(f)
       PROVE  GateHeldByOne'
    BY <2>28 DEF WriteFish
  <2>29. ASSUME NEW f \in Fish, TurnFails(f)
       PROVE  GateHeldByOne'
    BY <2>29, TurnFailsKeeps
  <2>30. ASSUME NEW f \in Fish, NEW s \in Closed, OrphanWrites(f, s)
       PROVE  GateHeldByOne'
    BY <2>30 DEF OrphanWrites
  <2>31. QED
    BY <1>1, <2>1, <2>2, <2>3, <2>4, <2>5, <2>6, <2>7, <2>8, <2>9, <2>10, <2>11, <2>12, <2>13,
       <2>14, <2>15, <2>16, <2>17, <2>18, <2>19, <2>20, <2>21, <2>22, <2>23, <2>24, <2>25, <2>26, <2>27, <2>28, <2>29,
       <2>30
    DEF Next, Launch, Activate, Worker, OnFishComplete, Turn, Failure
<1>2. CASE UNCHANGED vars
  BY <1>2 DEF vars
<1>3. QED
  BY <1>1, <1>2

\* A claimed fish is passed on to the queue, and the queue to its worker.
LEMMA NoFishForgottenStep == IInv /\ [Next]_vars => NoFishForgotten'
<1> SUFFICES ASSUME IInv, [Next]_vars PROVE NoFishForgotten'
  OBVIOUS
<1> USE DEF IInv, TypeOK, SwarmStatus, FishStatus, Closed, AggState, PC, Fish,
            Procs, Launcher, Goto, queueVars, aggVars, procVars, turnVars, abortVars,
            NoFishForgotten, ActivatedRows, WorkersHaveJobs, ClaimsDisjoint
<1>1. CASE Next
  <2>1. CASE InsertSwarm
    BY <2>1 DEF InsertSwarm
  <2>2. CASE ResetGate
    BY <2>2 DEF ResetGate
  <2>3. ASSUME NEW f \in Fish, CreateFish(f)
       PROVE  NoFishForgotten'
    BY <2>3 DEF CreateFish
  <2>4. ASSUME NEW p \in Procs, ActivateCount(p)
       PROVE  NoFishForgotten'
    BY <2>4, CountKeeps
  <2>5. ASSUME NEW p \in Procs, ActivateClaim(p)
       PROVE  NoFishForgotten'
    <3> DEFINE Places == {"idle", "load", "drain", "played", "close", "write"}
    <3>1. /\ pc[p] = "claim" /\ TypeOK
          /\ \A q \in Procs : q # p => pc'[q] = pc[q] /\ todo'[q] = todo[q]
          /\ todo'[p] # {} => pc'[p] = "enqueue"
          /\ \A f \in Fish :
               fish'[f] = IF f \in todo'[p] THEN "running" ELSE fish[f]
          /\ UNCHANGED <<jobs, faults>>
      BY <2>5, ActivateClaimMoves
    <3>2. SUFFICES ASSUME faults = 0, NEW f \in Fish, fish'[f] = "running"
                   PROVE  \/ \E q \in Procs : pc'[q] = "enqueue" /\ f \in todo'[q]
                          \/ f \in jobs /\ pc'[f] \in Places
      BY <3>1 DEF NoFishForgotten
    <3>3. CASE f \in todo'[p]
      BY <3>1, <3>3
    <3>4. CASE f \notin todo'[p]
      <4>1. fish[f] = "running" /\ f \in Procs
        BY <3>1, <3>2, <3>4
      <4>2. CASE \E q \in Procs : pc[q] = "enqueue" /\ f \in todo[q]
        BY <3>1, <4>2
      <4>3. CASE f \in jobs /\ pc[f] \in Places
        BY <3>1, <4>1, <4>3
      <4>4. QED
        BY <3>2, <4>1, <4>2, <4>3
    <3>5. QED
      BY <3>3, <3>4
  <2>6. ASSUME NEW p \in Procs, NEW f \in Fish, ActivateEnqueue(p, f)
       PROVE  NoFishForgotten'
    BY <2>6 DEF ActivateEnqueue, AfterActivation
  <2>7. ASSUME NEW f \in Fish, StartJob(f)
       PROVE  NoFishForgotten'
    BY <2>7 DEF StartJob
  <2>8. ASSUME NEW f \in Fish, LoadRun(f)
       PROVE  NoFishForgotten'
    BY <2>8 DEF LoadRun
  <2>9. ASSUME NEW f \in Fish, DrainFish(f)
       PROVE  NoFishForgotten'
    BY <2>9 DEF DrainFish
  <2>10. ASSUME NEW f \in Fish, TimeoutFish(f)
       PROVE  NoFishForgotten'
    BY <2>10 DEF TimeoutFish
  <2>11. ASSUME NEW f \in Fish, CloseFish(f)
       PROVE  NoFishForgotten'
    BY <2>11, CloseFishKeeps
  <2>12. ASSUME NEW f \in Fish, AccountFish(f)
       PROVE  NoFishForgotten'
    BY <2>12 DEF AccountFish
  <2>13. ASSUME NEW f \in Fish, ClaimGate(f)
       PROVE  NoFishForgotten'
    BY <2>13 DEF ClaimGate
  <2>14. ASSUME NEW f \in Fish, PublishAggregate(f)
       PROVE  NoFishForgotten'
    BY <2>14 DEF PublishAggregate, AddAggregateJob
  <2>15. ASSUME NEW f \in Fish, ReleaseGate(f)
       PROVE  NoFishForgotten'
    BY <2>15 DEF ReleaseGate
  <2>16. ASSUME NEW f \in Fish, TerminalTurn(f)
       PROVE  NoFishForgotten'
    BY <2>16 DEF TerminalTurn
  <2>17. ASSUME NEW f \in Fish, LateTurnEnds(f)
       PROVE  NoFishForgotten'
    BY <2>17 DEF LateTurnEnds
  <2>18. CASE StartAggregate
    BY <2>18 DEF StartAggregate
  <2>19. CASE CloseSwarm
    BY <2>19 DEF CloseSwarm
  <2>20. CASE AbortSwarm
    BY <2>20 DEF AbortSwarm, WithStatus
  <2>21. ASSUME NEW p \in Procs, CallFails(p)
       PROVE  NoFishForgotten'
    BY <2>21 DEF CallFails, Fault
  <2>22. ASSUME NEW f \in Fish, LoadFails(f)
       PROVE  NoFishForgotten'
    BY <2>22 DEF LoadFails, Fault
  <2>23. ASSUME NEW f \in Fish, CloseFails(f)
       PROVE  NoFishForgotten'
    BY <2>23 DEF CloseFails, CloseRejected, Fault
  <2>24. ASSUME NEW f \in Fish, PublishFails(f)
       PROVE  NoFishForgotten'
    BY <2>24 DEF PublishFails, AddAggregateJob, Fault
  <2>25. ASSUME NEW f \in Fish, WorkerDies(f)
       PROVE  NoFishForgotten'
    BY <2>25 DEF WorkerDies, Fault
  <2>26. CASE AggregateFails
    BY <2>26 DEF AggregateFails, Fault
  <2>27. ASSUME NEW f \in Fish, TurnWrites(f)
       PROVE  NoFishForgotten'
    BY <2>27 DEF TurnWrites
  <2>28. ASSUME NEW f \in Fish, WriteFish(f)
       PROVE  NoFishForgotten'
    BY <2>28 DEF WriteFish
  <2>29. ASSUME NEW f \in Fish, TurnFails(f)
       PROVE  NoFishForgotten'
    BY <2>29, TurnFailsKeeps
  <2>30. ASSUME NEW f \in Fish, NEW s \in Closed, OrphanWrites(f, s)
       PROVE  NoFishForgotten'
    BY <2>30 DEF OrphanWrites
  <2>31. QED
    BY <1>1, <2>1, <2>2, <2>3, <2>4, <2>5, <2>6, <2>7, <2>8, <2>9, <2>10, <2>11, <2>12, <2>13,
       <2>14, <2>15, <2>16, <2>17, <2>18, <2>19, <2>20, <2>21, <2>22, <2>23, <2>24, <2>25, <2>26, <2>27, <2>28, <2>29,
       <2>30
    DEF Next, Launch, Activate, Worker, OnFishComplete, Turn, Failure
<1>2. CASE UNCHANGED vars
  BY <1>2 DEF vars
<1>3. QED
  BY <1>1, <1>2

\* No claim can pick a fish the abort has failed.
LEMMA AbortIsFinalStep == IInv /\ [Next]_vars => AbortIsFinal'
<1> SUFFICES ASSUME IInv, [Next]_vars PROVE AbortIsFinal'
  OBVIOUS
<1> USE DEF IInv, TypeOK, SwarmStatus, FishStatus, Closed, AggState, PC, Fish,
            Procs, Launcher, Goto, queueVars, aggVars, procVars, turnVars, abortVars,
            AbortIsFinal
<1>1. CASE Next
  <2>1. CASE InsertSwarm
    BY <2>1 DEF InsertSwarm
  <2>2. CASE ResetGate
    BY <2>2 DEF ResetGate
  <2>3. ASSUME NEW f \in Fish, CreateFish(f)
       PROVE  AbortIsFinal'
    BY <2>3 DEF CreateFish
  <2>4. ASSUME NEW p \in Procs, ActivateCount(p)
       PROVE  AbortIsFinal'
    BY <2>4, CountKeeps
  <2>5. ASSUME NEW p \in Procs, ActivateClaim(p)
       PROVE  AbortIsFinal'
    BY <2>5 DEF ActivateClaim, AfterActivation, FirstPending, WithStatus
  <2>6. ASSUME NEW p \in Procs, NEW f \in Fish, ActivateEnqueue(p, f)
       PROVE  AbortIsFinal'
    BY <2>6 DEF ActivateEnqueue, AfterActivation
  <2>7. ASSUME NEW f \in Fish, StartJob(f)
       PROVE  AbortIsFinal'
    BY <2>7 DEF StartJob
  <2>8. ASSUME NEW f \in Fish, LoadRun(f)
       PROVE  AbortIsFinal'
    BY <2>8 DEF LoadRun
  <2>9. ASSUME NEW f \in Fish, DrainFish(f)
       PROVE  AbortIsFinal'
    BY <2>9 DEF DrainFish
  <2>10. ASSUME NEW f \in Fish, TimeoutFish(f)
       PROVE  AbortIsFinal'
    BY <2>10 DEF TimeoutFish
  <2>11. ASSUME NEW f \in Fish, CloseFish(f)
       PROVE  AbortIsFinal'
    BY <2>11, CloseFishKeeps
  <2>12. ASSUME NEW f \in Fish, AccountFish(f)
       PROVE  AbortIsFinal'
    BY <2>12 DEF AccountFish
  <2>13. ASSUME NEW f \in Fish, ClaimGate(f)
       PROVE  AbortIsFinal'
    BY <2>13 DEF ClaimGate
  <2>14. ASSUME NEW f \in Fish, PublishAggregate(f)
       PROVE  AbortIsFinal'
    BY <2>14 DEF PublishAggregate, AddAggregateJob
  <2>15. ASSUME NEW f \in Fish, ReleaseGate(f)
       PROVE  AbortIsFinal'
    BY <2>15 DEF ReleaseGate
  <2>16. ASSUME NEW f \in Fish, TerminalTurn(f)
       PROVE  AbortIsFinal'
    BY <2>16 DEF TerminalTurn
  <2>17. ASSUME NEW f \in Fish, LateTurnEnds(f)
       PROVE  AbortIsFinal'
    BY <2>17 DEF LateTurnEnds
  <2>18. CASE StartAggregate
    BY <2>18 DEF StartAggregate
  <2>19. CASE CloseSwarm
    BY <2>19 DEF CloseSwarm
  <2>20. CASE AbortSwarm
    BY <2>20 DEF AbortSwarm, WithStatus
  <2>21. ASSUME NEW p \in Procs, CallFails(p)
       PROVE  AbortIsFinal'
    BY <2>21 DEF CallFails, Fault
  <2>22. ASSUME NEW f \in Fish, LoadFails(f)
       PROVE  AbortIsFinal'
    BY <2>22 DEF LoadFails, Fault
  <2>23. ASSUME NEW f \in Fish, CloseFails(f)
       PROVE  AbortIsFinal'
    BY <2>23 DEF CloseFails, CloseRejected, Fault
  <2>24. ASSUME NEW f \in Fish, PublishFails(f)
       PROVE  AbortIsFinal'
    BY <2>24 DEF PublishFails, AddAggregateJob, Fault
  <2>25. ASSUME NEW f \in Fish, WorkerDies(f)
       PROVE  AbortIsFinal'
    BY <2>25 DEF WorkerDies, Fault
  <2>26. CASE AggregateFails
    BY <2>26 DEF AggregateFails, Fault
  <2>27. ASSUME NEW f \in Fish, TurnWrites(f)
       PROVE  AbortIsFinal'
    BY <2>27 DEF TurnWrites
  <2>28. ASSUME NEW f \in Fish, WriteFish(f)
       PROVE  AbortIsFinal'
    BY <2>28 DEF WriteFish
  <2>29. ASSUME NEW f \in Fish, TurnFails(f)
       PROVE  AbortIsFinal'
    BY <2>29, TurnFailsKeeps
  <2>30. ASSUME NEW f \in Fish, NEW s \in Closed, OrphanWrites(f, s)
       PROVE  AbortIsFinal'
    BY <2>30 DEF OrphanWrites
  <2>31. QED
    BY <1>1, <2>1, <2>2, <2>3, <2>4, <2>5, <2>6, <2>7, <2>8, <2>9, <2>10, <2>11, <2>12, <2>13,
       <2>14, <2>15, <2>16, <2>17, <2>18, <2>19, <2>20, <2>21, <2>22, <2>23, <2>24, <2>25, <2>26, <2>27, <2>28, <2>29,
       <2>30
    DEF Next, Launch, Activate, Worker, OnFishComplete, Turn, Failure
<1>2. CASE UNCHANGED vars
  BY <1>2 DEF vars
<1>3. QED
  BY <1>1, <1>2

LEMMA IInvInit == Init => IInv
<1>1. SUFFICES ASSUME Init PROVE IInv
  OBVIOUS
<1>2. TypeOK
  BY <1>1, TypeOKInit
<1>3. /\ \A f \in Fish : /\ fish[f] = "absent" /\ pc[f] = "idle"
      /\ pc[Launcher] = "insert"
      /\ \A p \in Procs : todo[p] = {}
      /\ jobs = {} /\ late = {} /\ asked = {} /\ orphans = {} /\ cut = {} /\ agg = "none"
  BY <1>1, SizeAssumption DEF Init, Fish, Procs, Launcher
<1>4. QED
  BY <1>2, <1>3
  DEF IInv, ActivatedRows, WorkersHaveJobs, NoRowsYet, ClaimsDisjoint,
      PastGateClosed, GateHeldByOne, NoFishForgotten, AbortIsFinal

LEMMA IInvStep == IInv /\ [Next]_vars => IInv'
<1>1. SUFFICES ASSUME IInv, [Next]_vars PROVE IInv'
  OBVIOUS
<1>2. TypeOK'
  BY <1>1, TypeOKStep DEF IInv
<1>3. QED
  BY <1>1, <1>2, ActivatedRowsStep, WorkersHaveJobsStep, NoRowsYetStep,
     ClaimsDisjointStep, PastGateClosedStep, GateHeldByOneStep,
     NoFishForgottenStep, AbortIsFinalStep DEF IInv

-----------------------------------------------------------------------------
(* The safety properties *)

\* The inductive invariant holds in every reachable state.
THEOREM Invariant == Spec => []IInv
  BY IInvInit, IInvStep, PTL DEF Spec

\* onFishComplete() never orders an aggregate that could read an open fish.
THEOREM AggregateReadsClosedFish == Spec => []AggregateOnlyWhenAllClosed
<1>1. IInv => AggregateOnlyWhenAllClosed
  BY DEF IInv, PastGateClosed, AllClosed, AggregateOnlyWhenAllClosed
<1>2. QED
  BY <1>1, Invariant, PTL

\* The Redis gate admits one completion at a time.
THEOREM GateIsExclusive == Spec => []GateHeldByOne
<1>1. IInv => GateHeldByOne
  BY DEF IInv
<1>2. QED
  BY <1>1, Invariant, PTL

\* While no call fails, activatePendingFish() loses no fish between the claim
\* and the queue.
THEOREM ClaimedFishAreEnqueued == Spec => []NoFishForgotten
<1>1. IInv => NoFishForgotten
  BY DEF IInv
<1>2. QED
  BY <1>1, Invariant, PTL

\* No worker, retry or late turn brings a fish back that abortSwarm() failed.
THEOREM AbortedFishStayClosed == Spec => []AbortIsFinal
<1>1. IInv => AbortIsFinal
  BY DEF IInv
<1>2. QED
  BY <1>1, Invariant, PTL

-----------------------------------------------------------------------------
(* SwarmFanout implements SwarmPromise *)

LEMMA QuietStep ==
  ASSUME UNCHANGED fish, (agg' = "none") <=> (agg = "none")
  PROVE  UNCHANGED Promise!vars
  BY DEF Promise!vars, Phase

LEMMA SettlingStep ==
  ASSUME UNCHANGED agg,
         \A f \in Fish : fish'[f] = fish[f] \/ fish'[f] \in Closed
  PROVE  Promise!Settle
<1> DEFINE S == {f \in Fish : fish'[f] \in Closed}
<1>1. \A f \in Fish : Phase(f)' = IF f \in S THEN "settled" ELSE Phase(f)
  BY DEF Phase, Closed
<1>2. [f \in Fish |-> Phase(f)]' =
        [f \in Fish |-> IF f \in S THEN "settled"
                        ELSE [g \in Fish |-> Phase(g)][f]]
  BY <1>1
<1>3. S \in SUBSET Fish
  OBVIOUS
<1>4. QED
  BY <1>2, <1>3 DEF Promise!Settle

\* The claim puts waiting fish into play.
LEMMA ClaimPlays ==
  ASSUME TypeOK, NEW p \in Procs, ActivateClaim(p)
  PROVE  Promise!Play
<1> DEFINE S == FirstPending(slots[p])
<1>1. S \subseteq Fish /\ \A f \in S : fish[f] = "pending"
  BY DEF FirstPending, WithStatus
<1>2. /\ fish' = [f \in Fish |-> IF f \in S THEN "running" ELSE fish[f]]
      /\ UNCHANGED agg
  BY DEF ActivateClaim, aggVars
<1> HIDE DEF S
<1>3. \A f \in Fish : Phase(f)' = IF f \in S THEN "playing" ELSE Phase(f)
  BY <1>2 DEF Phase, Closed
<1>4. [f \in Fish |-> Phase(f)]' =
        [f \in Fish |-> IF f \in S THEN "playing"
                        ELSE [g \in Fish |-> Phase(g)][f]]
  BY <1>3
<1>5. S \in SUBSET {f \in Fish : [g \in Fish |-> Phase(g)][f] = "waiting"}
  BY <1>1 DEF Phase
<1>6. QED
  BY <1>2, <1>4, <1>5 DEF Promise!Play

\* The first acceptance of the aggregate job is the report.
LEMMA PublishReports ==
  ASSUME IInv, NEW f \in Fish, pc[f] = "publish", AddAggregateJob,
         UNCHANGED fish
  PROVE  Promise!Report \/ UNCHANGED Promise!vars
<1>1. CASE agg = "none"
  <2>1. \A g \in Fish : fish[g] \in Closed
    BY DEF IInv, PastGateClosed, AllClosed
  <2>2. \A g \in Fish : Phase(g) = "settled" /\ Phase(g)' = Phase(g)
    BY <2>1 DEF Phase, Closed
  <2>3. agg' # "none"
    BY <1>1 DEF AddAggregateJob
  <2>4. QED
    BY <1>1, <2>2, <2>3 DEF Promise!Report
<1>2. CASE agg # "none"
  BY <1>2, QuietStep DEF AddAggregateJob
<1>3. QED
  BY <1>1, <1>2

LEMMA PromiseInit == Init => Promise!Init
<1>1. SUFFICES ASSUME Init PROVE Promise!Init
  OBVIOUS
<1>2. \A f \in Fish : Phase(f) = "waiting"
  BY <1>1 DEF Init, Phase
<1>3. QED
  BY <1>1, <1>2 DEF Init, Promise!Init

LEMMA PromiseStep == IInv /\ [Next]_vars => [Promise!Next]_(Promise!vars)
<1> SUFFICES ASSUME IInv, [Next]_vars PROVE [Promise!Next]_(Promise!vars)
  OBVIOUS
<1> DEFINE Quiet == UNCHANGED fish /\ ((agg' = "none") <=> (agg = "none"))
           Settling == /\ UNCHANGED agg
                       /\ \A g \in Fish : \/ fish'[g] = fish[g]
                                          \/ fish'[g] \in Closed
           Step == [Promise!Next]_(Promise!vars)
<1>1. TypeOK
  BY DEF IInv
<1>2. Quiet => Step
  BY QuietStep
<1>3. Settling => Step
  BY SettlingStep DEF Promise!Next
<1>4. CASE Next
  <2>1. CASE \E f \in Fish : CreateFish(f)
    <3>1. PICK f \in Fish : CreateFish(f)
      BY <2>1
    <3>2. UNCHANGED agg /\ \A g \in Fish : Phase(g)' = Phase(g)
      BY <1>1, <3>1 DEF CreateFish, Phase, TypeOK, Closed, aggVars
    <3>3. UNCHANGED Promise!vars
      BY <3>2 DEF Promise!vars
    <3>4. QED
      BY <3>3
  <2>2. ASSUME NEW p \in Procs, ActivateClaim(p)
       PROVE  Step
    BY <1>1, <2>2, ClaimPlays DEF Promise!Next
  <2>3. ASSUME NEW f \in Fish, PublishAggregate(f)
       PROVE  Step
    <3>1. pc[f] = "publish" /\ AddAggregateJob /\ UNCHANGED fish
      BY <2>3 DEF PublishAggregate
    <3>2. Promise!Report \/ UNCHANGED Promise!vars
      BY <3>1, PublishReports
    <3>3. QED
      BY <3>2 DEF Promise!Next
  <2>4. ASSUME NEW f \in Fish, PublishFails(f)
       PROVE  Step
    <3>1. pc[f] = "publish" /\ UNCHANGED fish
      BY <2>4 DEF PublishFails
    <3>2. CASE AddAggregateJob
      <4>1. Promise!Report \/ UNCHANGED Promise!vars
        BY <3>1, <3>2, PublishReports
      <4>2. QED
        BY <4>1 DEF Promise!Next
    <3>3. CASE UNCHANGED agg
      BY <1>2, <3>1, <3>3
    <3>4. QED
      BY <2>4, <3>2, <3>3 DEF PublishFails
  <2>5. ASSUME NEW f \in Fish,
               \/ TurnWrites(f) \/ WriteFish(f)
               \/ \E s \in Closed : OrphanWrites(f, s)
       PROVE  Step
    <3>1. UNCHANGED agg
      BY <2>5 DEF TurnWrites, WriteFish, OrphanWrites, aggVars
    <3>2. \E s \in Closed : fish' \in {fish, [fish EXCEPT ![f] = s]}
      BY <1>1, <2>5 DEF TurnWrites, WriteFish, OrphanWrites, TypeOK, Closed
    <3>3. Settling
      BY <1>1, <3>1, <3>2 DEF TypeOK
    <3>4. QED
      BY <1>3, <3>3
  <2>6. CASE AbortSwarm
    <3>1. Settling
      BY <2>6 DEF AbortSwarm, aggVars, Closed
    <3>2. QED
      BY <1>3, <3>1
  <2>7. CASE InsertSwarm \/ ResetGate \/ StartAggregate \/ CloseSwarm
             \/ AggregateFails
    <3>1. Quiet
      BY <2>7 DEF InsertSwarm, ResetGate, StartAggregate, CloseSwarm,
                  AggregateFails, aggVars
    <3>2. QED
      BY <1>2, <3>1
  <2>8. ASSUME NEW p \in Procs,
               ActivateCount(p) \/ (\E f \in Fish : ActivateEnqueue(p, f))
                 \/ CallFails(p)
       PROVE  Step
    <3>1. Quiet
      BY <2>8 DEF ActivateCount, ActivateEnqueue, CallFails, aggVars
    <3>2. QED
      BY <1>2, <3>1
  <2>9. ASSUME NEW f \in Fish,
               \/ StartJob(f) \/ LoadRun(f) \/ DrainFish(f) \/ TimeoutFish(f)
               \/ AccountFish(f) \/ ClaimGate(f) \/ ReleaseGate(f)
               \/ LoadFails(f) \/ CloseFails(f) \/ WorkerDies(f)
               \/ TerminalTurn(f) \/ LateTurnEnds(f) \/ CloseFish(f)
               \/ TurnFails(f)
       PROVE  Step
    <3>1. Quiet
      BY <2>9 DEF StartJob, LoadRun, DrainFish, TimeoutFish, AccountFish,
                  ClaimGate, ReleaseGate, LoadFails, CloseFails, WorkerDies,
                  TerminalTurn, LateTurnEnds, CloseFish, TurnFails, aggVars
    <3>2. QED
      BY <1>2, <3>1
  <2>10. QED
    BY <1>4, <2>1, <2>2, <2>3, <2>4, <2>5, <2>6, <2>7, <2>8, <2>9
    DEF Next, Launch, Activate, Worker, OnFishComplete, Turn, Failure
<1>5. CASE UNCHANGED vars
  <2>1. Quiet
    BY <1>5 DEF vars, aggVars
  <2>2. QED
    BY <1>2, <2>1
<1>6. QED
  BY <1>4, <1>5

\* The code of the swarm implements the promise of SwarmPromise: every fish is
\* played at most once, and the aggregate is ordered when all have settled.
THEOREM SwarmKeepsPromise == Spec => KeepsPromise
  BY PromiseInit, PromiseStep, Invariant, PTL DEF Spec, KeepsPromise, Promise!Spec
=============================================================================

---------------------------- MODULE AutonomyProofs ----------------------------
(***************************************************************************)
(* What holds of Autonomy for any configurations, costs and numbers of     *)
(* calls.  The bound on overspending is a count of credit: a start and a   *)
(* change of the settings bring one, an action that begins although a cap  *)
(* is reached takes one.  IInv says where credit must be left: before an   *)
(* action that would take it (Ready), and after a tick has read a          *)
(* configuration that has since been replaced (Stale).                     *)
(***************************************************************************)
EXTENDS Autonomy, FiniteSetTheorems, TLAPS

Reading == \E t \in Ticks : at[t] = "config"
Acting == \E t \in Ticks : at[t] \in Actions

\* busy is set exactly while one tick is under way.
Mutex ==
  /\ busy <=> Working # {}
  /\ \A t, u \in Working : t = u

Credit == over < starts + changes

Ready ==
  Exhausted(cfg, ledger) /\ (Reading \/ (running /\ ~Acting)) => Credit

Stale == \A t \in Ticks : at[t] \in Actions /\ held[t] # cfg => Credit

\* A tick that may still begin an action after stop() is the first to do so.
Late == (running \/ Reading => late = 0) /\ late <= 1

Explained == StopIsExplained /\ (starts = 0 => ~running)

IInv == /\ TypeOK
        /\ Mutex
        /\ OverspendBounded
        /\ Ready
        /\ Stale
        /\ Late
        /\ Explained

-----------------------------------------------------------------------------
(* The ledger *)

\* What drops out of the windows cannot reach a cap.
LEMMA ExhaustedShrinks ==
  ASSUME NEW c \in Configs, NEW l \in Ledger, NEW k \in Ledger,
         k.day <= l.day, k.day + k.older <= l.day + l.older,
         k.cycles <= l.cycles, Exhausted(c, k)
  PROVE  Exhausted(c, l)
<1>1. c.daily \in Nat /\ c.monthly \in Nat /\ c.cycles \in Nat
  BY ConfigsAssumption
<1>2. PICK r \in Caps : r \in CapsReached(c, k)
  BY DEF Exhausted, CapsReached
<1>3. r \in CapsReached(c, l)
  BY <1>1, <1>2 DEF CapsReached, Ledger
<1> QED
  BY <1>3 DEF Exhausted

LEMMA BookedType ==
  ASSUME ledger \in Ledger, NEW usd \in Nat, NEW n \in Nat
  PROVE  Booked(usd, n) \in Ledger
<1>1. ledger.day + usd \in Nat /\ ledger.cycles + n \in Nat
  BY DEF Ledger
<1>2. /\ AtMost(ledger.day + usd, MaxUsd) \in Nat
      /\ AtMost(ledger.cycles + n, MaxUsd) \in Nat
  BY <1>1, NumbersAssumption DEF AtMost
<1> QED
  BY <1>2 DEF Booked, Ledger

LEMMA StopReasonType ==
  ASSUME NEW c, NEW l
  PROVE  StopReason(c, l) \in Caps /\ StopReason(c, l) # "none"
BY DEF StopReason, Caps

-----------------------------------------------------------------------------
(* Steps that move no tick *)

\* A step of which the loop sees nothing but a smaller ledger.
LEMMA LedgerKeeps ==
  ASSUME IInv, NEW l \in Ledger, SetLedger(l),
         l.day <= ledger.day, l.day + l.older <= ledger.day + ledger.older,
         l.cycles <= ledger.cycles
  PROVE  IInv'
<1>1. /\ UNCHANGED <<running, timer, reason, busy, at, held, interval,
                     rotationIdx, cfg, starting, starts, changes,
                     over, late>>
      /\ ledger' = l
  BY DEF SetLedger, loopVars, tickVars, ghostVars
<1>2. TypeOK'
  BY <1>1 DEF IInv, TypeOK
<1>3. Mutex' /\ OverspendBounded' /\ Stale' /\ Late' /\ Explained'
  BY <1>1 DEF IInv, Mutex, Working, OverspendBounded, Stale, Credit, Late,
              Reading, Explained, StopIsExplained
<1>4. Ready'
  <2>1. Exhausted(cfg, l) => Exhausted(cfg, ledger)
    BY ExhaustedShrinks DEF IInv, TypeOK
  <2> QED
    BY <1>1, <2>1 DEF IInv, Ready, Reading, Acting, Credit
<1> QED
  BY <1>2, <1>3, <1>4 DEF IInv

LEMMA AgingKeeps ==
  ASSUME IInv, ResetSpend \/ DayPasses \/ MonthPasses
  PROVE  IInv'
<1>1. /\ ledger \in Ledger
      /\ ledger.day \in Nat /\ ledger.older \in Nat /\ ledger.cycles \in Nat
  BY DEF IInv, TypeOK, Ledger
<1>2. CASE ResetSpend
  <2> DEFINE l == [day |-> 0, older |-> 0, cycles |-> 0]
  <2>1. l \in Ledger /\ l.day = 0 /\ l.older = 0 /\ l.cycles = 0
    BY DEF Ledger
  <2>2. SetLedger(l)
    BY <1>2 DEF ResetSpend
  <2> HIDE DEF l
  <2> QED
    BY <1>1, <2>1, <2>2, LedgerKeeps
<1>3. CASE DayPasses
  <2>1. PICK usd \in 0..ledger.day, n \in 0..ledger.cycles :
          SetLedger([day |-> ledger.day - usd,
                     older |-> AtMost(ledger.older + usd, MaxUsd),
                     cycles |-> ledger.cycles - n])
    BY <1>3 DEF DayPasses
  <2> DEFINE l == [day |-> ledger.day - usd,
                   older |-> AtMost(ledger.older + usd, MaxUsd),
                   cycles |-> ledger.cycles - n]
  <2>2. /\ AtMost(ledger.older + usd, MaxUsd) \in Nat
        /\ AtMost(ledger.older + usd, MaxUsd) <= ledger.older + usd
    BY <1>1, NumbersAssumption DEF AtMost
  <2>3. /\ l \in Ledger /\ l.day <= ledger.day /\ l.cycles <= ledger.cycles
        /\ l.day + l.older <= ledger.day + ledger.older
    BY <1>1, <2>2 DEF Ledger
  <2>4. SetLedger(l)
    BY <2>1
  <2> HIDE DEF l
  <2> QED
    BY <2>3, <2>4, LedgerKeeps
<1>4. CASE MonthPasses
  <2>1. PICK usd \in 0..ledger.older :
          SetLedger([ledger EXCEPT !.older = @ - usd])
    BY <1>4 DEF MonthPasses
  <2> DEFINE l == [ledger EXCEPT !.older = @ - usd]
  <2>2. /\ l \in Ledger /\ l.day = ledger.day /\ l.cycles = ledger.cycles
        /\ l.older = ledger.older - usd
    BY <1>1 DEF Ledger
  <2>3. SetLedger(l)
    BY <2>1
  <2> HIDE DEF l
  <2> QED
    BY <1>1, <2>2, <2>3, LedgerKeeps
<1> QED
  BY <1>2, <1>3, <1>4

\* Calls of start() that begin or fail, and stuttering.
LEMMA CallKeeps ==
  ASSUME IInv, CallStart \/ StartFails \/ UNCHANGED vars
  PROVE  IInv'
<1>1. /\ UNCHANGED <<running, timer, reason, busy, at, held, interval, ledger,
                     rotationIdx, cfg, starts, changes, over, late>>
      /\ starting' \in Nat
  BY DEF IInv, TypeOK, CallStart, StartFails, vars, loopVars, tickVars,
         ghostVars
<1>2. TypeOK'
  BY <1>1 DEF IInv, TypeOK
<1>3. Mutex' /\ OverspendBounded' /\ Ready' /\ Stale' /\ Late' /\ Explained'
  BY <1>1 DEF IInv, Mutex, Working, OverspendBounded, Ready, Stale, Credit,
              Late, Reading, Acting, Explained, StopIsExplained
<1> QED
  BY <1>2, <1>3 DEF IInv

LEMMA StopKeeps ==
  ASSUME IInv, Stop
  PROVE  IInv'
<1>1. /\ UNCHANGED <<busy, at, held, interval, ledger, rotationIdx, cfg,
                     starting, starts, changes, over, late>>
      /\ ~running' /\ running' \in BOOLEAN /\ timer' \in BOOLEAN
      /\ reason' = IF reason = "none" THEN "stopped_by_operator" ELSE reason
  BY DEF Stop, Halt, tickVars, ghostVars
<1>2. TypeOK'
  BY <1>1 DEF IInv, TypeOK
<1>3. Mutex' /\ OverspendBounded' /\ Ready' /\ Stale' /\ Late' /\ Explained'
  BY <1>1 DEF IInv, Mutex, Working, OverspendBounded, Ready, Stale, Credit,
              Late, Reading, Acting, Explained, StopIsExplained
<1> QED
  BY <1>2, <1>3 DEF IInv

\* A change of the settings brings the credit for what it may exhaust.
LEMMA ChangeKeeps ==
  ASSUME IInv, NEW c \in Configs, ChangeConfig(c)
  PROVE  IInv'
<1>1. /\ UNCHANGED <<running, timer, reason, busy, at, held, interval, ledger,
                     rotationIdx, starting, starts, over, late>>
      /\ cfg' = c /\ changes' = changes + 1
  BY DEF ChangeConfig, loopVars, tickVars
<1>2. TypeOK'
  BY <1>1 DEF IInv, TypeOK
<1>3. Credit' /\ OverspendBounded'
  BY <1>1 DEF IInv, TypeOK, OverspendBounded, Credit
<1>4. Mutex' /\ Late' /\ Explained'
  BY <1>1 DEF IInv, Mutex, Working, Late, Reading, Explained, StopIsExplained
<1> QED
  BY <1>2, <1>3, <1>4 DEF IInv, Ready, Stale

-----------------------------------------------------------------------------
(* Steps of a tick *)

\* What tick() does up to its first await: nothing, or a free tick begins.
LEMMA TickMoves ==
  ASSUME IInv, NEW r \in BOOLEAN, Tick(r)
  PROVE  \/ /\ UNCHANGED <<busy, at, held>>
            /\ busy \/ ~r
         \/ /\ r /\ ~busy /\ busy' /\ held' = held
            /\ Working = {}
            /\ \E t \in Ticks : /\ at[t] = "idle"
                                /\ at' = [at EXCEPT ![t] = "config"]
BY DEF Tick, TickRuns, tickVars, IInv, Mutex

\* When a tick begins, it is the only one.
LEMMA TickBegins ==
  ASSUME IInv, NEW t \in Ticks, at[t] = "idle", Working = {},
         busy', busy' \in BOOLEAN, held' = held,
         at' = [at EXCEPT ![t] = "config"]
  PROVE  /\ Mutex' /\ ~Acting /\ ~Acting' /\ ~Reading
         /\ at' \in [Ticks -> {"idle", "config"} \cup Actions]
         /\ \A u \in Ticks : at'[u] \in Actions <=> held'[u] # NoConfig
<1>1. \A u \in Ticks : at[u] = "idle"
  BY DEF Working
<1>2. /\ at' \in [Ticks -> {"idle", "config"} \cup Actions]
      /\ at'[t] = "config"
      /\ \A u \in Ticks \ {t} : at'[u] = "idle"
  BY <1>1 DEF IInv, TypeOK
<1>3. Working' = {t}
  BY <1>2 DEF Working
<1>4. \A u \in Ticks : at[u] \notin Actions /\ at'[u] \notin Actions
  BY <1>1, <1>2 DEF Actions
<1> QED
  BY <1>1, <1>2, <1>3, <1>4 DEF Mutex, Acting, Reading, IInv, TypeOK

LEMMA IntervalKeeps ==
  ASSUME IInv, IntervalFires
  PROVE  IInv'
<1>1. /\ UNCHANGED <<running, timer, reason, interval, ledger, rotationIdx,
                     cfg, starting, starts, changes, over, late>>
      /\ running \in BOOLEAN /\ Tick(running)
  BY DEF IInv, TypeOK, IntervalFires, loopVars, ghostVars
<1>2. CASE UNCHANGED <<busy, at, held>>
  <2>1. UNCHANGED vars
    BY <1>1, <1>2 DEF vars, loopVars, tickVars, ghostVars
  <2> QED
    BY <2>1, CallKeeps
<1>3. ASSUME NEW t \in Ticks, running, busy', held' = held, Working = {},
             at[t] = "idle", at' = [at EXCEPT ![t] = "config"]
      PROVE  IInv'
  <2>1. busy' \in BOOLEAN
    BY <1>1, <1>3 DEF IntervalFires, Tick, TickRuns, tickVars, IInv, TypeOK
  <2>2. /\ Mutex' /\ ~Acting /\ ~Acting' /\ ~Reading
        /\ at' \in [Ticks -> {"idle", "config"} \cup Actions]
        /\ \A u \in Ticks : at'[u] \in Actions <=> held'[u] # NoConfig
    BY <1>3, <2>1, TickBegins
  <2>3. TypeOK'
    BY <1>1, <1>3, <2>1, <2>2 DEF IInv, TypeOK
  <2>4. OverspendBounded' /\ Explained'
    BY <1>1 DEF IInv, OverspendBounded, Explained, StopIsExplained
  <2>5. Ready' /\ Stale'
    BY <1>1, <1>3, <2>2 DEF IInv, Ready, Stale, Credit, Acting
  <2>6. Late'
    BY <1>1, <1>3 DEF IInv, Late
  <2> QED
    BY <2>2, <2>3, <2>4, <2>5, <2>6 DEF IInv
<1> QED
  BY <1>1, <1>2, <1>3, TickMoves

\* A start brings the credit for the action it may begin.
LEMMA StartKeeps ==
  ASSUME IInv, NEW o \in Intervals \cup {0}, StartReturns(o)
  PROVE  IInv'
<1>1. /\ UNCHANGED <<rotationIdx, ledger, cfg, changes, over>>
      /\ running' = TRUE /\ timer' = TRUE /\ reason' = "none"
      /\ interval' \in Intervals
      /\ starts' = starts + 1 /\ late' = 0 /\ starting' \in Nat
      /\ Tick(TRUE)
  <2>1. /\ UNCHANGED <<rotationIdx, ledger, cfg, changes, over>>
        /\ running' = TRUE /\ timer' = TRUE /\ reason' = "none"
        /\ starts' = starts + 1 /\ late' = 0 /\ Tick(TRUE)
    BY DEF StartReturns
  <2>2. starting' \in Nat
    BY DEF IInv, TypeOK, StartReturns
  <2>3. interval' \in Intervals
    BY ConfigsAssumption DEF IInv, TypeOK, StartReturns
  <2> QED
    BY <2>1, <2>2, <2>3
<1>2. Credit' /\ OverspendBounded' /\ Late' /\ Explained'
  BY <1>1 DEF IInv, TypeOK, Credit, OverspendBounded, Late, Explained,
              StopIsExplained
<1>3. Ready' /\ Stale'
  BY <1>2 DEF Ready, Stale
<1>4. CASE UNCHANGED <<busy, at, held>>
  <2>1. TypeOK' /\ Mutex'
    BY <1>1, <1>4 DEF IInv, TypeOK, Mutex, Working
  <2> QED
    BY <1>2, <1>3, <2>1 DEF IInv
<1>5. ASSUME NEW t \in Ticks, busy', held' = held, Working = {},
             at[t] = "idle", at' = [at EXCEPT ![t] = "config"]
      PROVE  IInv'
  <2>1. busy' \in BOOLEAN
    BY <1>1 DEF Tick, TickRuns, tickVars, IInv, TypeOK
  <2>2. /\ Mutex'
        /\ at' \in [Ticks -> {"idle", "config"} \cup Actions]
        /\ \A u \in Ticks : at'[u] \in Actions <=> held'[u] # NoConfig
    BY <1>5, <2>1, TickBegins
  <2>3. TypeOK'
    BY <1>1, <1>5, <2>1, <2>2 DEF IInv, TypeOK
  <2> QED
    BY <1>2, <1>3, <2>2, <2>3 DEF IInv
<1> QED
  BY <1>1, <1>4, <1>5, TickMoves

\* The action that begins takes credit only if Ready had some.
LEMMA ReadKeeps ==
  ASSUME IInv, NEW t \in Ticks, NEW a \in Actions, ConfigRead(t, a)
  PROVE  IInv'
<1>1. /\ at[t] = "config" /\ at' = [at EXCEPT ![t] = a]
      /\ held' = [held EXCEPT ![t] = cfg]
      /\ UNCHANGED <<running, reason, busy, ledger, cfg, starting,
                     starts, changes>>
      /\ late' = IF running THEN late ELSE late + 1
      /\ over' = IF Exhausted(cfg, ledger) THEN over + 1 ELSE over
  BY DEF ConfigRead
<1>2. /\ at' \in [Ticks -> {"idle", "config"} \cup Actions]
      /\ held' \in [Ticks -> Configs \cup {NoConfig}]
      /\ at'[t] = a /\ held'[t] = cfg
      /\ \A u \in Ticks \ {t} : at'[u] = at[u] /\ held'[u] = held[u]
  BY <1>1 DEF IInv, TypeOK
<1>3. \A u \in Ticks \ {t} : at[u] = "idle"
  BY <1>1 DEF IInv, Mutex, Working
<1>4. TypeOK'
  <2>1. interval' \in Intervals /\ timer' \in BOOLEAN
    BY ConfigsAssumption DEF IInv, TypeOK, ConfigRead
  <2>2. rotationIdx' \in 0..(Span - 1)
    BY NumbersAssumption DEF IInv, TypeOK, ConfigRead
  <2>3. \A u \in Ticks : at'[u] \in Actions <=> held'[u] # NoConfig
    BY <1>2, ConfigsAssumption DEF IInv, TypeOK
  <2> QED
    BY <1>1, <1>2, <2>1, <2>2, <2>3 DEF IInv, TypeOK
<1>5. Working' = Working
  BY <1>1, <1>2 DEF Working, Actions
<1>6. Acting' /\ ~Reading' /\ Reading
  BY <1>1, <1>2, <1>3 DEF Acting, Reading, Actions
<1>7. OverspendBounded'
  BY <1>1, <1>6 DEF IInv, TypeOK, OverspendBounded, Ready, Credit
<1>8. Stale'
  <2>1. \A u \in Ticks : at'[u] \in Actions => held'[u] = cfg'
    BY <1>1, <1>2, <1>3 DEF Actions
  <2> QED
    BY <2>1 DEF Stale
<1>9. Mutex' /\ Ready' /\ Late' /\ Explained'
  BY <1>1, <1>5, <1>6 DEF IInv, TypeOK, Mutex, Ready, Late, Explained,
                          StopIsExplained
<1> QED
  BY <1>4, <1>7, <1>8, <1>9 DEF IInv

\* The end of a tick: none is under way afterwards.
LEMMA EndMoves ==
  ASSUME IInv, NEW t \in Ticks, at[t] # "idle", TickEnds(t)
  PROVE  /\ Mutex' /\ ~Reading' /\ ~Acting'
         /\ busy' = FALSE
         /\ at' \in [Ticks -> {"idle", "config"} \cup Actions]
         /\ held' \in [Ticks -> Configs \cup {NoConfig}]
         /\ \A u \in Ticks : at'[u] \in Actions <=> held'[u] # NoConfig
<1>1. \A u \in Ticks \ {t} : at[u] = "idle"
  BY DEF IInv, Mutex, Working
<1>2. /\ at' \in [Ticks -> {"idle", "config"} \cup Actions]
      /\ held' \in [Ticks -> Configs \cup {NoConfig}]
      /\ \A u \in Ticks : at'[u] = "idle" /\ held'[u] = NoConfig
  <2>1. \A u \in Ticks \ {t} : held[u] = NoConfig
    BY <1>1 DEF IInv, TypeOK, Actions
  <2> QED
    BY <1>1, <2>1 DEF IInv, TypeOK, TickEnds
<1>3. "idle" \notin Actions
  BY DEF Actions
<1>4. Working' = {} /\ ~Reading' /\ ~Acting'
  BY <1>2, <1>3 DEF Working, Reading, Acting
<1> QED
  BY <1>2, <1>3, <1>4 DEF Mutex, TickEnds

LEMMA FailKeeps ==
  ASSUME IInv, NEW t \in Ticks, ConfigFails(t)
  PROVE  IInv'
<1>1. /\ UNCHANGED <<running, timer, reason, interval, ledger, rotationIdx,
                     cfg, starting, starts, changes, over, late>>
      /\ at[t] = "config" /\ at[t] # "idle" /\ TickEnds(t)
  BY DEF ConfigFails, loopVars, ghostVars
<1>2. /\ Mutex' /\ ~Reading' /\ ~Acting' /\ busy' = FALSE
      /\ at' \in [Ticks -> {"idle", "config"} \cup Actions]
      /\ held' \in [Ticks -> Configs \cup {NoConfig}]
      /\ \A u \in Ticks : at'[u] \in Actions <=> held'[u] # NoConfig
  BY <1>1, EndMoves
<1>3. Reading
  BY <1>1 DEF Reading
<1>4. TypeOK'
  BY <1>1, <1>2 DEF IInv, TypeOK
<1>5. OverspendBounded' /\ Explained' /\ Late'
  BY <1>1, <1>3 DEF IInv, OverspendBounded, Explained, StopIsExplained, Late
<1>6. Ready' /\ Stale'
  BY <1>1, <1>2, <1>3 DEF IInv, Ready, Stale, Credit, Acting
<1> QED
  BY <1>2, <1>4, <1>5, <1>6 DEF IInv

\* An action that ends on a reached cap stops the loop, unless the settings
\* have changed under it, and then Stale has left credit.
LEMMA ActionKeeps ==
  ASSUME IInv, NEW t \in Ticks, NEW usd \in 0..MaxCost, ActionEnds(t, usd)
  PROVE  IInv'
<1>1. /\ UNCHANGED <<interval, rotationIdx, cfg, starting, starts,
                     changes, over, late>>
      /\ at[t] \in Actions /\ at[t] # "idle" /\ TickEnds(t)
  BY DEF ActionEnds, ghostVars, Actions
<1>2. /\ Mutex' /\ ~Reading' /\ ~Acting' /\ busy' = FALSE
      /\ at' \in [Ticks -> {"idle", "config"} \cup Actions]
      /\ held' \in [Ticks -> Configs \cup {NoConfig}]
      /\ \A u \in Ticks : at'[u] \in Actions <=> held'[u] # NoConfig
  BY <1>1, EndMoves
<1>3. ledger' \in Ledger
  <2>1. usd \in Nat
    BY NumbersAssumption
  <2> QED
    BY <2>1, BookedType DEF IInv, TypeOK, ActionEnds
<1>4. \/ UNCHANGED <<running, timer, reason>> /\ ~Exhausted(held[t], ledger')
      \/ \E r \in Caps : Halt(r)
  BY StopReasonType DEF ActionEnds, loopVars
<1>5. /\ running' \in BOOLEAN /\ timer' \in BOOLEAN
      /\ reason' \in Caps \cup {"none", "stopped_by_operator"}
      /\ running' => running /\ ~Exhausted(held[t], ledger')
      /\ running' \/ reason' # "none" \/ UNCHANGED <<running, reason>>
      /\ running' => reason' = reason
  <2>1. CASE UNCHANGED <<running, timer, reason>>
             /\ ~Exhausted(held[t], ledger')
    BY <2>1 DEF IInv, TypeOK
  <2>2. ASSUME NEW r \in Caps, Halt(r)
        PROVE  /\ running' = FALSE /\ timer' = FALSE
               /\ reason' \in Caps \cup {"none", "stopped_by_operator"}
               /\ reason' # "none"
    BY <2>2 DEF IInv, TypeOK, Halt, Caps
  <2> QED
    BY <1>4, <2>1, <2>2
<1>6. TypeOK'
  BY <1>1, <1>2, <1>3, <1>5 DEF IInv, TypeOK
<1>7. OverspendBounded' /\ Late' /\ Explained'
  BY <1>1, <1>2, <1>5 DEF IInv, OverspendBounded, Late, Explained,
                          StopIsExplained
<1>8. Ready'
  <2> SUFFICES ASSUME Exhausted(cfg, ledger'), running' PROVE Credit
    BY <1>1, <1>2 DEF Ready, Credit
  <2>1. held[t] # cfg
    BY <1>5
  <2> QED
    BY <1>1, <2>1 DEF IInv, Stale
<1>9. Stale'
  BY <1>2 DEF Stale, Acting
<1> QED
  BY <1>2, <1>6, <1>7, <1>8, <1>9 DEF IInv

-----------------------------------------------------------------------------
(* Theorems *)

LEMMA InitIInv == Init => IInv
<1> SUFFICES ASSUME Init PROVE IInv
  OBVIOUS
<1>1. "idle" \notin Actions /\ "idle" # "config"
  BY DEF Actions
<1>2. \A t \in Ticks : at[t] = "idle" /\ held[t] = NoConfig
  BY DEF Init
<1>3. TypeOK
  <2>1. rotationIdx \in 0..(Span - 1) /\ ledger \in Ledger
    BY NumbersAssumption DEF Init, Ledger
  <2>2. /\ at \in [Ticks -> {"idle", "config"} \cup Actions]
        /\ held \in [Ticks -> Configs \cup {NoConfig}]
    BY DEF Init
  <2> QED
    BY <1>1, <1>2, <2>1, <2>2 DEF Init, TypeOK
<1>4. Working = {} /\ ~Reading /\ ~Acting
  BY <1>1, <1>2 DEF Working, Reading, Acting
<1>5. Mutex /\ Ready /\ Stale
  BY <1>4 DEF Init, Mutex, Ready, Stale, Acting
<1>6. OverspendBounded /\ Late /\ Explained
  BY DEF Init, OverspendBounded, Late, Explained, StopIsExplained
<1> QED
  BY <1>3, <1>5, <1>6 DEF IInv

LEMMA NextIInv == IInv /\ [Next]_vars => IInv'
<1> SUFFICES ASSUME IInv, [Next]_vars PROVE IInv'
  OBVIOUS
<1>1. CASE IntervalFires
  BY <1>1, IntervalKeeps
<1>2. ASSUME NEW t \in Ticks, NEW a \in Actions, ConfigRead(t, a) PROVE IInv'
  BY <1>2, ReadKeeps
<1>3. ASSUME NEW t \in Ticks, ConfigFails(t) PROVE IInv'
  BY <1>3, FailKeeps
<1>4. ASSUME NEW t \in Ticks, NEW usd \in 0..MaxCost, ActionEnds(t, usd)
      PROVE  IInv'
  BY <1>4, ActionKeeps
<1>5. CASE CallStart \/ StartFails \/ UNCHANGED vars
  BY <1>5, CallKeeps
<1>6. ASSUME NEW o \in Intervals \cup {0}, StartReturns(o) PROVE IInv'
  BY <1>6, StartKeeps
<1>7. CASE Stop
  BY <1>7, StopKeeps
<1>8. CASE ResetSpend \/ DayPasses \/ MonthPasses
  BY <1>8, AgingKeeps
<1>9. ASSUME NEW c \in Configs, ChangeConfig(c) PROVE IInv'
  BY <1>9, ChangeKeeps
<1> QED
  BY <1>1, <1>2, <1>3, <1>4, <1>5, <1>6, <1>7, <1>8, <1>9 DEF Next

LEMMA Invariance == Spec => []IInv
BY InitIInv, NextIInv, PTL DEF Spec

\* Every variable keeps its type; in particular the interval is always one of
\* the clamped lengths.
THEOREM AutonomyTypeCorrect == Spec => []TypeOK
<1>1. IInv => TypeOK
  BY DEF IInv
<1> QED
  BY <1>1, Invariance, PTL

\* Two ticks are never under way together, through any stops and restarts.
THEOREM TicksExclude == Spec => []OneTickAtATime
<1>1. IInv => OneTickAtATime
  <2> SUFFICES ASSUME IInv PROVE OneTickAtATime
    OBVIOUS
  <2>1. CASE Working = {}
    BY <2>1, FS_EmptySet DEF OneTickAtATime
  <2>2. ASSUME NEW t \in Working PROVE OneTickAtATime
    <3>1. Working = {t}
      BY <2>2 DEF IInv, Mutex
    <3>2. Cardinality({t}) = 1
      BY FS_Singleton
    <3> QED
      BY <3>1, <3>2 DEF OneTickAtATime
  <2> QED
    BY <2>1, <2>2
<1> QED
  BY <1>1, Invariance, PTL

\* An exhausted budget is overspent by at most one action for each start and
\* each change of the settings, for any costs, caps and configurations.
THEOREM OverspendIsBounded == Spec => []OverspendBounded
<1>1. IInv => OverspendBounded
  BY DEF IInv
<1> QED
  BY <1>1, Invariance, PTL

\* At most one action begins between a stop and the next start.
THEOREM StopIsNearlyImmediate == Spec => []AtMostOneLateAction
<1>1. IInv => AtMostOneLateAction
  BY DEF IInv, Late, AtMostOneLateAction
<1> QED
  BY <1>1, Invariance, PTL

\* A loop that was started either runs or shows why it does not.
THEOREM StopsAreExplained == Spec => []StopIsExplained
<1>1. IInv => StopIsExplained
  BY DEF IInv, Explained
<1> QED
  BY <1>1, Invariance, PTL
===============================================================================

----------------------------- MODULE CounterProofs -----------------------------
(***************************************************************************)
(* What holds of the two components that count what they have written,     *)
(* FindingStore and Mission.                                               *)
(*                                                                         *)
(* FindingStore, for any number of cycles, cortices, entities and claims,  *)
(* and any number of findings to store: IInv adds to the checked           *)
(* invariants what a call may still believe of the row it found            *)
(* (FoundKnown), who may still cross-link a finding (OneLinker) and that   *)
(* a row that is not there has no edge (NoEdgeYet).                        *)
(*                                                                         *)
(* Mission, for any number of missions, tasks and overlapping calls of     *)
(* start(): MissionInv ties the cursor of a mission to the state of its    *)
(* tasks (Unstarted) and counts the ticks that may be out (TickCredit): a  *)
(* mission brings one, a tick takes it with the busy flag, and a task that *)
(* ends gives back at most its own.  The counters are compared with the    *)
(* tasks as sets of units (Counts); what a task has written follows from   *)
(* the write it is at (Written).                                           *)
(***************************************************************************)
EXTENDS FindingStore, Mission, FiniteSetTheorems, TLAPS

\* What a merge is about to write was stored, and is active or was written
\* since the lookup.
FoundKnown ==
  \A c \in Cycles : Pc(c) = "merge" =>
    /\ row[call[c].near].status # "none"
    /\ row[call[c].near].status = "active" \/ call[c].near \in call[c].touched

Linking(c) == Pc(c) \in {"relate", "link"}

\* The call that inserted a finding is the only one to cross-link it.
OneLinker ==
  /\ \A f \in Findings : row[f].status = "none" => cross[f] = 0
  /\ \A c \in Cycles : Linking(c) =>
       /\ row[call[c].name].status # "none"
       /\ cross[call[c].name] = 0
       /\ \A d \in Cycles \ {c} : Linking(d) => call[d].name # call[c].name

\* Edges come with the row.
NoEdgeYet == \A f \in Findings : row[f].status = "none" => row[f].about = {}

IInv ==
  TypeOK /\ FoundKnown /\ OneLinker /\ NoEdgeYet /\ CountIsLinks
         /\ DuplicatesOnlyByRace /\ WrittenOnce

-----------------------------------------------------------------------------
(* The operators *)

LEMMA FindingsFinite == IsFiniteSet(Findings)
<1>1. IsFiniteSet(Anchored)
  BY FindingStoreAssumption, FS_Product DEF Anchored, Anchors
<1>2. IsFiniteSet(Loose)
  BY FindingStoreAssumption, FS_Product DEF Loose
<1> QED
  BY <1>1, <1>2, FS_Union DEF Findings

\* A call that is not between two findings has all its fields.
LEMMA BusyIsCall ==
  ASSUME TypeOK, NEW c \in Cycles, Pc(c) # "idle"
  PROVE  call[c] \in Call
BY DEF TypeOK, Pc, Quiet

LEMMA QuietIsIdle == Quiet.pc = "idle"
BY DEF Quiet

\* linkCycleEmission() keeps the counter equal to the number of links.
LEMMA LinkedKeeps ==
  ASSUME TypeOK, CountIsLinks, NEW c \in Cycles, NEW f \in Findings, Linked(c, f)
  PROVE  /\ count' \in [Cycles -> Nat]
         /\ CountIsLinks'
<1> DEFINE Of(d) == {g \in Findings : <<d, g>> \in links}
<1>1. count' \in [Cycles -> Nat]
  BY DEF Linked, TypeOK
<1>2. ASSUME NEW d \in Cycles
      PROVE  count'[d] = Cardinality({g \in Findings : <<d, g>> \in links'})
  <2>1. IsFiniteSet(Of(d))
    BY FindingsFinite, FS_Subset
  <2>2. count[d] = Cardinality(Of(d)) /\ count[d] \in Nat
    BY DEF CountIsLinks, TypeOK
  <2>3. CASE d = c /\ <<c, f>> \notin links
    <3>1. {g \in Findings : <<d, g>> \in links'} = Of(d) \cup {f}
      BY <2>3 DEF Linked
    <3>2. f \notin Of(d)
      BY <2>3
    <3>3. count'[d] = count[d] + 1
      BY <2>3 DEF Linked, TypeOK
    <3> QED
      BY <2>1, <2>2, <3>1, <3>2, <3>3, FS_AddElement
  <2>4. CASE ~(d = c /\ <<c, f>> \notin links)
    <3>1. {g \in Findings : <<d, g>> \in links'} = Of(d)
      BY <2>4 DEF Linked
    <3>2. count'[d] = count[d]
      BY <2>4 DEF Linked, TypeOK
    <3> QED
      BY <2>2, <3>1, <3>2
  <2> QED
    BY <2>3, <2>4
<1> QED
  BY <1>1, <1>2 DEF CountIsLinks

-----------------------------------------------------------------------------
(* The steps that write nothing but the call *)

\* A call that moves while the rows stay keeps the invariant when what it is
\* now about is known to hold of it.
LEMMA MoveKeeps ==
  ASSUME IInv, UnchangedRows, left' \in 0..MaxStores,
         NEW c \in Cycles, NEW next \in Call \cup {Quiet},
         call' = [call EXCEPT ![c] = next],
         next.pc \in {"merge", "upsert", "relate", "link"} => next \in Call,
         next.pc = "merge" => row[next.near].status = "active",
         next.pc = "upsert" /\ next.name \in Anchored /\ next.claim # NoClaim
           => \A g \in Active :
                (/\ next.name[2][1] \in row[g].about
                 /\ TypeOf(g) = TypeOf(next.name) /\ row[g].claim = next.claim)
                  => g \in next.touched \/ next.full,
         next.pc \in {"relate", "link"} => Linking(c) /\ next.name = call[c].name
  PROVE  IInv'
<1> USE DEF IInv
<1>1. /\ call' \in [Cycles -> Call \cup {Quiet}]
      /\ call'[c] = next
      /\ \A d \in Cycles \ {c} : call'[d] = call[d]
  BY DEF TypeOK
<1>2. UNCHANGED <<row, edges, cross, related, links, count>>
  BY DEF UnchangedRows
<1>3. TypeOK'
  BY <1>1, <1>2 DEF TypeOK
<1>4. FoundKnown'
  BY <1>1, <1>2 DEF FoundKnown, Pc
<1>5. OneLinker'
  BY <1>1, <1>2 DEF OneLinker, Linking, Pc
<1>6. CountIsLinks' /\ WrittenOnce' /\ NoEdgeYet'
  BY <1>2 DEF CountIsLinks, WrittenOnce, NoEdgeYet
<1>7. DuplicatesOnlyByRace'
  <2>1. Active' = Active
    BY <1>2 DEF Active
  <2> QED
    BY <1>1, <1>2, <2>1 DEF DuplicatesOnlyByRace, Pc
<1> QED
  BY <1>3, <1>4, <1>5, <1>6, <1>7

\* storeFinding() begins.
LEMMA StoreKeeps ==
  ASSUME IInv, NEW c \in Cycles, NEW f \in Findings,
         NEW claim \in Claims \cup {NoClaim}, NEW about \in SUBSET Entities,
         Store(c, f, claim, about)
  PROVE  IInv'
<1> DEFINE next ==
      [pc |-> IF f \in Anchored /\ claim # NoClaim THEN "lookup" ELSE "upsert",
       name |-> f, claim |-> claim, about |-> about, near |-> f, also |-> {},
       touched |-> {}, full |-> FALSE]
<1>1. next \in Call
  BY DEF Call
<1>2. left' \in 0..MaxStores
  BY FindingStoreAssumption DEF Store, IInv, TypeOK
<1>3. next.pc = "upsert" => ~(next.name \in Anchored /\ next.claim # NoClaim)
  OBVIOUS
<1>4. next.pc \in {"lookup", "upsert"}
  OBVIOUS
<1>5. call' = [call EXCEPT ![c] = next] /\ UnchangedRows
  BY DEF Store
<1> HIDE DEF next
<1> QED
  BY <1>1, <1>2, <1>3, <1>4, <1>5, MoveKeeps

\* A call that is over.
LEMMA LeaveKeeps ==
  ASSUME IInv, NEW c \in Cycles, Leaves(c), UnchangedRows, UNCHANGED left
  PROVE  IInv'
<1>1. left' \in 0..MaxStores
  BY DEF IInv, TypeOK
<1>2. call' = [call EXCEPT ![c] = Quiet]
  BY DEF Leaves
<1> QED
  BY <1>1, <1>2, QuietIsIdle, MoveKeeps

LEMMA LookupKeeps ==
  ASSUME IInv, NEW c \in Cycles, Lookup(c)
  PROVE  IInv'
<1> DEFINE k == call[c]
<1>1. k \in Call /\ Pc(c) = "lookup"
  BY BusyIsCall DEF Lookup, IInv
<1>2. left' \in 0..MaxStores /\ UnchangedRows
  BY DEF Lookup, IInv, TypeOK
<1> DEFINE near == Near(k.name, k.claim)
           found(top) == {g \in top : TypeOf(g) = TypeOf(k.name)}
<1>3. ASSUME NEW top \in SUBSET near, found(top) = {},
             call' = [call EXCEPT ![c].pc = "upsert", ![c].touched = {},
                                  ![c].full = (top # near)]
      PROVE  IInv'
  <2> DEFINE full == top # near
             next == [k EXCEPT !.pc = "upsert", !.touched = {}, !.full = full]
  <2>3. \A g \in Active :
          (/\ k.name[2][1] \in row[g].about
           /\ TypeOf(g) = TypeOf(k.name) /\ row[g].claim = k.claim) => full
    BY <1>3 DEF Near
  <2>4. full \in BOOLEAN
    OBVIOUS
  <2>2. call' = [call EXCEPT ![c] = next]
    BY <1>3, <1>1 DEF IInv, TypeOK
  <2> HIDE DEF full
  <2>1. /\ next \in Call /\ next.pc = "upsert" /\ next.full = full
        /\ next.name = k.name /\ next.claim = k.claim
    BY <1>1, <2>4 DEF Call
  <2> HIDE DEF next, k
  <2> QED
    BY <1>2, <2>1, <2>2, <2>3, MoveKeeps
<1>4. ASSUME NEW top \in SUBSET near, NEW g \in found(top),
             call' = [call EXCEPT ![c].pc = "merge", ![c].near = g,
                                  ![c].touched = {}]
      PROVE  IInv'
  <2> DEFINE next == [k EXCEPT !.pc = "merge", !.near = g, !.touched = {}]
  <2>1. g \in Findings /\ row[g].status = "active"
    BY DEF Near, Active
  <2>2. next \in Call /\ next.pc = "merge" /\ next.near = g
    BY <1>1, <2>1 DEF Call
  <2>3. call' = [call EXCEPT ![c] = next]
    BY <1>4, <1>1 DEF IInv, TypeOK
  <2> HIDE DEF next, k
  <2> QED
    BY <1>2, <2>1, <2>2, <2>3, MoveKeeps
<1> QED
  BY <1>3, <1>4 DEF Lookup, Nearest

LEMMA RelateKeeps ==
  ASSUME IInv, NEW c \in Cycles, Relate(c)
  PROVE  IInv'
<1> DEFINE k == call[c]
<1>1. k \in Call /\ Pc(c) = "relate"
  BY BusyIsCall DEF Relate, IInv
<1>2. left' \in 0..MaxStores /\ UnchangedRows /\ UNCHANGED left
  BY DEF Relate, IInv, TypeOK
<1>3. CASE Leaves(c)
  BY <1>2, <1>3, LeaveKeeps
<1>4. ASSUME NEW also \in SUBSET Findings,
             call' = [call EXCEPT ![c].pc = "link", ![c].also = also]
      PROVE  IInv'
  <2> DEFINE next == [k EXCEPT !.pc = "link", !.also = also]
  <2>1. next \in Call /\ next.pc = "link" /\ next.name = k.name
    BY <1>1 DEF Call
  <2>2. call' = [call EXCEPT ![c] = next]
    BY <1>4, <1>1 DEF IInv, TypeOK
  <2>3. Linking(c)
    BY <1>1 DEF Linking
  <2> HIDE DEF next
  <2> QED
    BY <1>2, <2>1, <2>2, <2>3, MoveKeeps
<1> QED
  <2>1. \A also : also \in SUBSET {g \in Active : g # k.name
                             /\ row[g].claim \notin {NoClaim, k.claim}}
                    => also \in SUBSET Findings
    BY DEF Active
  <2> QED
    BY <1>3, <1>4, <2>1 DEF Relate

-----------------------------------------------------------------------------
(* The steps that write *)

LEMMA MergeKeeps ==
  ASSUME IInv, NEW c \in Cycles, Merge(c)
  PROVE  IInv'
<1> USE DEF IInv
<1>1. call[c] \in Call /\ Pc(c) = "merge"
  BY BusyIsCall DEF Merge
<1>2. call[c].near \in Findings /\ row[call[c].near].status # "none"
  BY <1>1 DEF Call, FoundKnown
<1>3. /\ UNCHANGED <<row, edges, cross, related, left>>
      /\ Linked(c, call[c].near)
  BY DEF Merge
<1>4. /\ call' \in [Cycles -> Call \cup {Quiet}]
      /\ call'[c].pc = "idle"
      /\ \A d \in Cycles \ {c} : call'[d] = call[d]
  BY QuietIsIdle DEF Merge, Leaves, TypeOK
<1>5. count' \in [Cycles -> Nat] /\ CountIsLinks'
  BY <1>2, <1>3, LinkedKeeps
<1>6. links' \in SUBSET (Cycles \X {f \in Findings : row'[f].status # "none"})
  BY <1>2, <1>3 DEF Linked, TypeOK
<1>7. TypeOK'
  BY <1>3, <1>4, <1>5, <1>6 DEF TypeOK
<1>8. Active' = Active
  BY <1>3 DEF Active
<1>9. FoundKnown' /\ OneLinker' /\ NoEdgeYet' /\ WrittenOnce'
  BY <1>3, <1>4 DEF FoundKnown, OneLinker, Linking, NoEdgeYet, WrittenOnce, Pc
<1>10. DuplicatesOnlyByRace'
  BY <1>3, <1>4, <1>8 DEF DuplicatesOnlyByRace, Pc
<1> QED
  BY <1>5, <1>7, <1>9, <1>10

\* What the other calls remember after a row was written.
LEMMA TouchesKeeps ==
  ASSUME TypeOK, NEW c \in Cycles, NEW f \in Findings, NEW mine \in Call \cup {Quiet},
         Touches(c, f, mine)
  PROVE  /\ call' \in [Cycles -> Call \cup {Quiet}]
         /\ call'[c] = mine
         /\ \A d \in Cycles \ {c} :
              /\ call'[d].pc = call[d].pc
              /\ Pc(d) # "idle" =>
                   /\ call'[d].name = call[d].name
                   /\ call'[d].near = call[d].near
                   /\ call'[d].claim = call[d].claim
                   /\ call'[d].touched = call[d].touched \cup {f}
                   /\ call'[d].full = call[d].full
<1>1. ASSUME NEW d \in Cycles \ {c}, Pc(d) # "idle"
      PROVE  LET t == [call[d] EXCEPT !.touched = @ \cup {f}] IN
               /\ t \in Call
               /\ t.pc = call[d].pc /\ t.name = call[d].name
               /\ t.near = call[d].near /\ t.claim = call[d].claim
               /\ t.touched = call[d].touched \cup {f}
               /\ t.full = call[d].full
  <2>1. call[d] \in Call
    BY <1>1, BusyIsCall
  <2> QED
    BY <2>1 DEF Call
<1> QED
  BY <1>1 DEF Touches, TypeOK

LEMMA UpsertKeeps ==
  ASSUME IInv, NEW c \in Cycles, NEW answered \in BOOLEAN, Upsert(c, answered)
  PROVE  IInv'
<1> USE DEF IInv
<1> DEFINE k == call[c]
           more == answered /\ row[k.name].status = "none" /\ k.claim # NoClaim
           mine == IF more THEN [k EXCEPT !.pc = "relate"] ELSE Quiet
<1>1. k \in Call /\ k.name \in Findings /\ k.claim \in Claims \cup {NoClaim}
  BY BusyIsCall DEF Upsert, Call
<1>2. /\ mine \in Call \cup {Quiet} /\ mine.pc \in {"idle", "relate"}
      /\ mine.pc = "relate" => more /\ mine.name = k.name
  BY <1>1, QuietIsIdle DEF Call
<1>3. /\ row' = [row EXCEPT ![k.name] = Upserted(k)]
      /\ edges' = [edges EXCEPT ![k.name] = EdgesOf(k)]
      /\ Linked(c, k.name)
      /\ UNCHANGED <<cross, related, left>>
  BY DEF Upsert
<1>4. Touches(c, k.name, mine)
  BY DEF Upsert
<1>5. row[k.name].status = "none" => cross[k.name] = 0
  BY <1>1 DEF OneLinker
<1> HIDE DEF mine
<1>6. /\ call' \in [Cycles -> Call \cup {Quiet}]
      /\ call'[c] = mine
      /\ \A d \in Cycles \ {c} :
           /\ call'[d].pc = call[d].pc
           /\ Pc(d) # "idle" =>
                /\ call'[d].name = call[d].name
                /\ call'[d].near = call[d].near
                /\ call'[d].claim = call[d].claim
                /\ call'[d].touched = call[d].touched \cup {k.name}
                /\ call'[d].full = call[d].full
  BY <1>1, <1>2, <1>4, TouchesKeeps
<1>7. /\ row' \in [Findings -> Row]
      /\ row'[k.name].status = "active"
      /\ row'[k.name].about = IF row[k.name].status = "none" THEN k.about
                              ELSE row[k.name].about
      /\ \A f \in Findings \ {k.name} : row'[f] = row[f]
  <2>1. /\ Upserted(k) \in Row /\ Upserted(k).status = "active"
        /\ Upserted(k).about = IF row[k.name].status = "none" THEN k.about
                               ELSE row[k.name].about
    <3>1. row[k.name] \in Row /\ k.about \in SUBSET Entities
      BY <1>1 DEF TypeOK, Call
    <3> HIDE DEF k
    <3> DEFINE about == IF row[k.name].status = "none" THEN k.about
                        ELSE row[k.name].about
    <3>2. about \in SUBSET Entities
      BY <3>1 DEF Row
    <3>3. Upserted(k) = [status |-> "active", claim |-> k.claim, about |-> about]
      BY DEF Upserted
    <3> HIDE DEF about
    <3>4. /\ Upserted(k) \in Row /\ Upserted(k).status = "active"
          /\ Upserted(k).about = about
      BY <1>1, <3>2, <3>3 DEF Row
    <3> QED
      BY <3>4 DEF about
  <2> QED
    BY <1>1, <1>3, <2>1 DEF TypeOK
<1> HIDE DEF k
<1>8. count' \in [Cycles -> Nat] /\ CountIsLinks'
  BY <1>1, <1>3, LinkedKeeps
<1>9. TypeOK'
  <2>1. EdgesOf(k) \in Nat
    BY <1>1 DEF EdgesOf, TypeOK
  <2>2. edges' \in [Findings -> Nat]
    BY <1>3, <2>1 DEF TypeOK
  <2>3. \A f \in Findings : row[f].status # "none" => row'[f].status # "none"
    BY <1>7
  <2>4. links' \in SUBSET (Cycles \X {f \in Findings : row'[f].status # "none"})
    BY <1>1, <1>3, <1>7, <2>3 DEF Linked, TypeOK
  <2> QED
    BY <1>3, <1>6, <1>7, <1>8, <2>2, <2>4 DEF TypeOK
<1>10. FoundKnown'
  <2> SUFFICES ASSUME NEW d \in Cycles, call'[d].pc = "merge"
               PROVE  /\ row'[call'[d].near].status # "none"
                      /\ \/ row'[call'[d].near].status = "active"
                         \/ call'[d].near \in call'[d].touched
    BY DEF FoundKnown, Pc
  <2>1. d # c /\ Pc(d) = "merge"
    BY <1>2, <1>6 DEF Pc
  <2>2. call'[d].near = call[d].near /\ call[d].touched \subseteq call'[d].touched
    BY <1>6, <2>1
  <2>3. call[d].near \in Findings
    BY <2>1, BusyIsCall DEF Call
  <2> QED
    BY <1>7, <2>1, <2>2, <2>3 DEF FoundKnown
<1>11. OneLinker'
  <2>1. \A d \in Cycles \ {c} : Linking(d)' =>
          Linking(d) /\ call'[d].name = call[d].name /\ call[d].name \in Findings
    BY <1>6, BusyIsCall DEF Linking, Pc, Call
  <2>2. Linking(c)' => more /\ call'[c].name = k.name
    BY <1>2, <1>6 DEF Linking, Pc
  <2>3. more => \A d \in Cycles : Linking(d) => call[d].name # k.name
    BY DEF OneLinker
  <2>4. \A f \in Findings : row'[f].status = "none" => cross'[f] = 0
    BY <1>3, <1>7 DEF OneLinker
  <2>5. ASSUME NEW d \in Cycles, Linking(d)'
        PROVE  /\ row'[call'[d].name].status # "none"
               /\ cross'[call'[d].name] = 0
    BY <1>3, <1>5, <1>7, <2>1, <2>2, <2>5 DEF OneLinker
  <2>6. ASSUME NEW d \in Cycles, NEW e \in Cycles \ {d}, Linking(d)', Linking(e)'
        PROVE  call'[e].name # call'[d].name
    BY <2>1, <2>2, <2>3, <2>6 DEF OneLinker
  <2> QED
    BY <2>4, <2>5, <2>6 DEF OneLinker
<1>12. DuplicatesOnlyByRace'
  <2> SUFFICES ASSUME NEW d \in Cycles, call'[d].pc = "upsert",
                      call'[d].name \in Anchored, call'[d].claim # NoClaim,
                      NEW g \in Active', call'[d].name[2][1] \in row'[g].about,
                      TypeOf(g) = TypeOf(call'[d].name),
                      row'[g].claim = call'[d].claim
               PROVE  g \in call'[d].touched \/ call'[d].full
    BY DEF DuplicatesOnlyByRace, Pc
  <2>1. d # c /\ Pc(d) = "upsert"
    BY <1>2, <1>6 DEF Pc
  <2>2. /\ call'[d].name = call[d].name /\ call'[d].claim = call[d].claim
        /\ call'[d].touched = call[d].touched \cup {k.name}
        /\ call'[d].full = call[d].full
    BY <1>6, <2>1
  <2>3. CASE g = k.name
    BY <2>2, <2>3
  <2>4. CASE g # k.name
    <3>1. row'[g] = row[g] /\ g \in Active
      BY <1>7, <2>4 DEF Active
    <3> QED
      BY <2>1, <2>2, <3>1 DEF DuplicatesOnlyByRace
  <2> QED
    BY <2>3, <2>4
<1>13. WrittenOnce'
  <2>1. edges'[k.name] = IF row'[k.name].about # {} THEN 1 ELSE 0
    <3>1. /\ edges'[k.name] = EdgesOf(k)
          /\ edges[k.name] = IF row[k.name].about # {} THEN 1 ELSE 0
      BY <1>1, <1>3 DEF WrittenOnce, TypeOK
    <3>2. row[k.name].status = "none" => row[k.name].about = {}
      BY <1>1 DEF NoEdgeYet
    <3> QED
      BY <1>7, <3>1, <3>2 DEF EdgesOf
  <2>2. \A f \in Findings \ {k.name} : edges'[f] = edges[f]
    BY <1>3 DEF TypeOK
  <2> QED
    BY <1>3, <1>7, <2>1, <2>2 DEF WrittenOnce
<1>14. NoEdgeYet'
  BY <1>7 DEF NoEdgeYet
<1> QED
  BY <1>8, <1>9, <1>10, <1>11, <1>12, <1>13, <1>14

LEMMA LinkKeeps ==
  ASSUME IInv, NEW c \in Cycles, Link(c)
  PROVE  IInv'
<1> USE DEF IInv
<1> DEFINE f == call[c].name
<1>1. f \in Findings /\ call[c].also \in SUBSET Findings /\ Linking(c)
  BY BusyIsCall DEF Link, Call, Linking
<1>2. /\ cross' = [cross EXCEPT ![f] = @ + 1]
      /\ related' = related \cup ({f} \X call[c].also)
      /\ UNCHANGED <<row, edges, links, count, left>>
  BY DEF Link
<1>3. /\ call' \in [Cycles -> Call \cup {Quiet}]
      /\ call'[c].pc = "idle"
      /\ \A d \in Cycles \ {c} : call'[d] = call[d]
  BY QuietIsIdle DEF Link, Leaves, TypeOK
<1>4. cross[f] = 0 /\ row[f].status # "none"
  BY <1>1 DEF OneLinker
<1> HIDE DEF f
<1>5. /\ cross' \in [Findings -> Nat] /\ cross'[f] = 1
      /\ \A g \in Findings \ {f} : cross'[g] = cross[g]
  BY <1>1, <1>2, <1>4 DEF TypeOK
<1>6. TypeOK'
  <2>1. related' \in SUBSET (Findings \X Findings)
    BY <1>1, <1>2 DEF TypeOK
  <2> QED
    BY <1>2, <1>3, <1>5, <2>1 DEF TypeOK
<1>7. OneLinker'
  <2>1. \A d \in Cycles : Linking(d)' =>
          d # c /\ Linking(d) /\ call'[d].name = call[d].name
            /\ call[d].name \in Findings
    BY <1>3, BusyIsCall DEF Linking, Pc, Call
  <2>2. \A d \in Cycles \ {c} : Linking(d) => call[d].name # f
    BY <1>1 DEF OneLinker, f
  <2> QED
    BY <1>2, <1>4, <1>5, <2>1, <2>2 DEF OneLinker
<1>8. FoundKnown' /\ CountIsLinks' /\ NoEdgeYet'
  BY <1>2, <1>3 DEF FoundKnown, CountIsLinks, NoEdgeYet, Pc
<1>9. DuplicatesOnlyByRace'
  <2>1. Active' = Active
    BY <1>2 DEF Active
  <2> QED
    BY <1>2, <1>3, <2>1 DEF DuplicatesOnlyByRace, Pc
<1>10. WrittenOnce'
  BY <1>2, <1>5 DEF WrittenOnce
<1> QED
  BY <1>6, <1>7, <1>8, <1>9, <1>10

LEMMA ArchiveKeeps ==
  ASSUME IInv, NEW f \in Findings, Archive(f)
  PROVE  IInv'
<1> USE DEF IInv
<1>1. /\ row[f].status = "active"
      /\ UNCHANGED <<edges, cross, related, links, count, left>>
  BY DEF Archive, Active
<1>2. /\ row' \in [Findings -> Row]
      /\ row'[f].status = "archived" /\ row'[f].about = row[f].about
      /\ \A g \in Findings \ {f} : row'[g] = row[g]
  BY DEF Archive, TypeOK, Row
<1>3. /\ call' \in [Cycles -> Call \cup {Quiet}]
      /\ \A d \in Cycles :
           /\ call'[d].pc = call[d].pc
           /\ Pc(d) # "idle" =>
                /\ call'[d].name = call[d].name
                /\ call'[d].near = call[d].near
                /\ call'[d].claim = call[d].claim
                /\ call'[d].touched = call[d].touched \cup {f}
                /\ call'[d].full = call[d].full
  <2>1. ASSUME NEW d \in Cycles, Pc(d) # "idle"
        PROVE  LET t == [call[d] EXCEPT !.touched = @ \cup {f}] IN
                 /\ t \in Call
                 /\ t.pc = call[d].pc /\ t.name = call[d].name
                 /\ t.near = call[d].near /\ t.claim = call[d].claim
                 /\ t.touched = call[d].touched \cup {f}
                 /\ t.full = call[d].full
    <3>1. call[d] \in Call
      BY <2>1, BusyIsCall
    <3> QED
      BY <3>1 DEF Call
  <2> QED
    BY <2>1 DEF Archive, TypeOK
<1>4. \A g \in Findings : row'[g].status = "none" <=> row[g].status = "none"
  BY <1>1, <1>2
<1>5. TypeOK'
  BY <1>1, <1>2, <1>3, <1>4 DEF TypeOK
<1>6. FoundKnown'
  <2> SUFFICES ASSUME NEW d \in Cycles, call'[d].pc = "merge"
               PROVE  /\ row'[call'[d].near].status # "none"
                      /\ \/ row'[call'[d].near].status = "active"
                         \/ call'[d].near \in call'[d].touched
    BY DEF FoundKnown, Pc
  <2>1. Pc(d) = "merge"
    BY <1>3 DEF Pc
  <2>2. call[d].near \in Findings
    BY <2>1, BusyIsCall DEF Call
  <2> QED
    BY <1>2, <1>3, <2>1, <2>2 DEF FoundKnown
<1>7. OneLinker'
  <2>1. \A d \in Cycles : Linking(d)' =>
          Linking(d) /\ call'[d].name = call[d].name /\ call[d].name \in Findings
    BY <1>3, BusyIsCall DEF Linking, Pc, Call
  <2> QED
    BY <1>1, <1>4, <2>1 DEF OneLinker
<1>8. DuplicatesOnlyByRace'
  <2>1. \A d \in Cycles : call'[d].pc = "upsert" =>
          /\ Pc(d) = "upsert"
          /\ call'[d].name = call[d].name /\ call'[d].claim = call[d].claim
          /\ call'[d].touched = call[d].touched \cup {f}
          /\ call'[d].full = call[d].full
    BY <1>3 DEF Pc
  <2>2. \A g \in Active' : g \in Active /\ row'[g] = row[g]
    BY <1>2 DEF Active
  <2> QED
    BY <2>1, <2>2 DEF DuplicatesOnlyByRace, Pc
<1>9. CountIsLinks' /\ WrittenOnce' /\ NoEdgeYet'
  <2>1. \A g \in Findings : row'[g].about = row[g].about
    BY <1>2
  <2> QED
    BY <1>1, <1>4, <2>1 DEF CountIsLinks, WrittenOnce, NoEdgeYet
<1> QED
  BY <1>5, <1>6, <1>7, <1>8, <1>9

-----------------------------------------------------------------------------
(* Theorems *)

LEMMA InitIInv == Init => IInv
<1> SUFFICES ASSUME Init PROVE IInv
  OBVIOUS
<1>1. /\ row \in [Findings -> Row]
      /\ \A f \in Findings : row[f].status = "none" /\ row[f].about = {}
  BY DEF Init, Row
<1>2. \A c \in Cycles : Pc(c) = "idle"
  BY QuietIsIdle DEF Init, Pc
<1>3. TypeOK
  BY <1>1, FindingStoreAssumption DEF Init, TypeOK
<1>4. CountIsLinks
  <2>1. \A c \in Cycles : {f \in Findings : <<c, f>> \in links} = {}
    BY DEF Init
  <2> QED
    BY <2>1, FS_EmptySet DEF Init, CountIsLinks
<1>5. FoundKnown /\ OneLinker /\ NoEdgeYet /\ DuplicatesOnlyByRace /\ WrittenOnce
  BY <1>1, <1>2 DEF Init, FoundKnown, OneLinker, Linking, NoEdgeYet,
                    DuplicatesOnlyByRace, WrittenOnce
<1> QED
  BY <1>3, <1>4, <1>5 DEF IInv

LEMMA StutterKeeps ==
  ASSUME IInv, UNCHANGED vars
  PROVE  IInv'
BY DEF IInv, vars, TypeOK, FoundKnown, OneLinker, Linking, NoEdgeYet,
       CountIsLinks, DuplicatesOnlyByRace, WrittenOnce, Active, Pc

LEMMA EmbedFailsKeeps ==
  ASSUME IInv, NEW c \in Cycles, EmbedFails(c)
  PROVE  IInv'
<1>1. left' \in 0..MaxStores
  BY FindingStoreAssumption DEF EmbedFails, IInv, TypeOK
<1>2. UNCHANGED <<row, edges, cross, related, links, count, call>>
  BY DEF EmbedFails, UnchangedRows
<1> QED
  BY <1>1, <1>2 DEF IInv, TypeOK, FoundKnown, OneLinker, Linking, NoEdgeYet,
                    CountIsLinks, DuplicatesOnlyByRace, WrittenOnce, Active, Pc

LEMMA NextIInv == IInv /\ [Next]_vars => IInv'
<1> SUFFICES ASSUME IInv, [Next]_vars PROVE IInv'
  OBVIOUS
<1>1. ASSUME NEW c \in Cycles, NEW f \in Findings,
             NEW claim \in Claims \cup {NoClaim}, NEW about \in SUBSET Entities,
             Store(c, f, claim, about)
      PROVE  IInv'
  BY <1>1, StoreKeeps
<1>2. ASSUME NEW c \in Cycles,
             \/ EmbedFails(c)
             \/ Lookup(c)
             \/ Merge(c)
             \/ Relate(c)
             \/ Link(c)
      PROVE  IInv'
  BY <1>2, EmbedFailsKeeps, LookupKeeps, MergeKeeps, RelateKeeps, LinkKeeps
<1>3. ASSUME NEW c \in Cycles, NEW answered \in BOOLEAN, Upsert(c, answered)
      PROVE  IInv'
  BY <1>3, UpsertKeeps
<1>4. ASSUME NEW c \in Cycles, RollsBack(c) \/ RelateFails(c)
      PROVE  IInv'
  BY <1>4, LeaveKeeps DEF RollsBack, RelateFails
<1>5. ASSUME NEW f \in Findings, Archive(f)
      PROVE  IInv'
  BY <1>5, ArchiveKeeps
<1>6. CASE UNCHANGED vars
  BY <1>6, StutterKeeps
<1> QED
  BY <1>1, <1>2, <1>3, <1>4, <1>5, <1>6 DEF Next

LEMMA Invariance == Spec => []IInv
BY InitIInv, NextIInv, PTL DEF Spec

\* Rows, links and calls keep their types; in particular a cycle is only linked
\* to a finding that was stored, although the row was looked up before.
THEOREM StoreTypeCorrect == Spec => []TypeOK
<1>1. IInv => TypeOK
  BY DEF IInv
<1> QED
  BY <1>1, Invariance, PTL

\* findings_count is the number of links, for any number of cycles that emit
\* the same findings in any order.
THEOREM CounterCountsLinks == Spec => []CountIsLinks
<1>1. IInv => CountIsLinks
  BY DEF IInv
<1> QED
  BY <1>1, Invariance, PTL

\* A claim an active finding on the same entity makes already is upserted again
\* only after a search that was full, or when that finding was written since.
THEOREM DuplicatesNeedARace == Spec => []DuplicatesOnlyByRace
<1>1. IInv => DuplicatesOnlyByRace
  BY DEF IInv
<1> QED
  BY <1>1, Invariance, PTL

\* No finding has its edges written twice or is cross-linked twice.
THEOREM EdgesOnce == Spec => []WrittenOnce
<1>1. IInv => WrittenOnce
  BY DEF IInv
<1> QED
  BY <1>1, Invariance, PTL

\* What a cycle has just stored is active, unless its row was written between
\* the lookup and the merge.
THEOREM StoredIsVisible == Spec => FreshIsVisible
<1>1. IInv /\ [Next]_vars =>
        [\A c \in Cycles :
           /\ Merge(c) => \/ row'[call[c].near].status = "active"
                          \/ call[c].near \in call[c].touched
           /\ \A answered \in BOOLEAN :
                Upsert(c, answered) => row'[call[c].name].status = "active"]_vars
  <2> SUFFICES ASSUME IInv, NEW c \in Cycles
               PROVE  /\ Merge(c) => \/ row'[call[c].near].status = "active"
                                     \/ call[c].near \in call[c].touched
                      /\ \A answered \in BOOLEAN :
                           Upsert(c, answered) =>
                             row'[call[c].name].status = "active"
    OBVIOUS
  <2>1. ASSUME Merge(c)
        PROVE  \/ row'[call[c].near].status = "active"
               \/ call[c].near \in call[c].touched
    BY <2>1 DEF Merge, IInv, FoundKnown
  <2>2. ASSUME NEW answered \in BOOLEAN, Upsert(c, answered)
        PROVE  row'[call[c].name].status = "active"
    <3>1. call[c].name \in Findings
      BY <2>2, BusyIsCall DEF Upsert, IInv, Call
    <3> QED
      BY <2>2, <3>1 DEF Upsert, Upserted, IInv, TypeOK
  <2> QED
    BY <2>1, <2>2
<1> QED
  BY <1>1, Invariance, PTL DEF Spec, FreshIsVisible

-----------------------------------------------------------------------------
(* The mission *)

\* No mission beyond the current one has begun, and 0 never runs.
Fresh ==
  /\ ~state[0].running
  /\ \A m \in Missions : m > current => state[m] = Idle

\* The tasks from the cursor on have not been handed out.
Unstarted ==
  \A k \in Keys : k[2] > state[k[1]].cursor =>
                    task[k].status = "pending" /\ task[k].runs = 0

\* A tick that may still begin counts as if it were out.
TickCredit ==
  Cardinality(InFlight)
    + (IF current = 0 \/ state[current].busy THEN 0 ELSE 1) <= current

\* The writes come in order, so a task that is filled has made all of them.
Written ==
  \A k \in Keys :
    /\ task[k].status \in {"pending", "vote", "update"} => task[k].written = {}
    /\ task[k].status = "audit" => task[k].written = {"update"}
    /\ task[k].status = "emit" => task[k].written = {"update", "audit"}
    /\ task[k].status = "filled" => task[k].written = Writes

\* A counter of every mission.
Counter(o) == [m \in Missions |-> state[m].count[o]]
Completed == [m \in Missions |-> state[m].completed]

Counts ==
  /\ \A o \in Outcomes : Cardinality(Units(Counter(o))) = Cardinality(Ended({o}))
  /\ Cardinality(Units(Completed)) = Cardinality(Ended(Outcomes))

MissionInv == /\ MissionTypeOK /\ Fresh /\ Unstarted /\ NoTaskTwice /\ TickCredit
              /\ Written /\ Counts

-----------------------------------------------------------------------------
(* The operators on one mission object *)

LEMMA IdleType ==
  /\ Idle \in State /\ Idle.cursor = 0 /\ Idle.tasks = 0
         /\ ~Idle.running /\ ~Idle.busy
<1>1. [o \in Outcomes |-> 0] \in [Outcomes -> Nat] /\ 0 \in 0..MaxTasks
  BY BoundsAssumption
<1> QED
  BY <1>1 DEF Idle, State

LEMMA HaltedType ==
  ASSUME NEW s \in State, s.cursor <= s.tasks
  PROVE  /\ Halted(s) \in State
         /\ Halted(s).cursor = s.cursor /\ Halted(s).tasks = s.tasks
         /\ Halted(s).busy = s.busy
         /\ Halted(s).count = s.count /\ Halted(s).completed = s.completed
         /\ ~Halted(s).running
BY DEF State, Halted

LEMMA TickedType ==
  ASSUME NEW s \in State, s.cursor <= s.tasks
  PROVE  /\ Ticked(s) \in State
         /\ Ticked(s).cursor <= Ticked(s).tasks
         /\ Ticked(s).cursor = IF TickRuns(s) THEN s.cursor + 1 ELSE s.cursor
         /\ Ticked(s).busy <=> s.busy \/ TickRuns(s)
         /\ Ticked(s).running => s.running
         /\ Ticked(s).count = s.count /\ Ticked(s).completed = s.completed
<1> USE BoundsAssumption
<1>1. CASE TickRuns(s)
  <2> DEFINE t == [s EXCEPT !.busy = TRUE, !.cursor = @ + 1]
  <2>1. Ticked(s) = t
    BY <1>1 DEF Ticked
  <2>2. s.cursor + 1 \in 0..MaxTasks /\ s.cursor + 1 <= s.tasks /\ s.running
    BY <1>1 DEF State, TickRuns
  <2>3. /\ t \in State /\ t.tasks = s.tasks /\ t.cursor = s.cursor + 1
        /\ t.busy = TRUE /\ t.count = s.count /\ t.completed = s.completed
    BY <2>2 DEF State
  <2> QED
    BY <1>1, <2>1, <2>2, <2>3
<1>2. CASE ~TickRuns(s)
  BY <1>2, HaltedType DEF Ticked, State
<1> QED
  BY <1>1, <1>2

LEMMA CountedType ==
  ASSUME NEW s \in State, s.cursor <= s.tasks, NEW outcome \in Outcomes
  PROVE  /\ Counted(s, outcome) \in State
         /\ Counted(s, outcome).cursor = s.cursor
         /\ Counted(s, outcome).tasks = s.tasks
         /\ ~Counted(s, outcome).busy
         /\ Counted(s, outcome).running => s.running
         /\ Counted(s, outcome).count = [s.count EXCEPT ![outcome] = @ + 1]
         /\ Counted(s, outcome).completed = s.completed + 1
<1> DEFINE t == [s EXCEPT !.busy = FALSE, !.completed = @ + 1,
                          !.count[outcome] = @ + 1]
<1>1. /\ t \in State /\ t.cursor = s.cursor /\ t.tasks = s.tasks
      /\ ~t.busy /\ t.running = s.running
      /\ t.count = [s.count EXCEPT ![outcome] = @ + 1]
      /\ t.completed = s.completed + 1
  <2> DEFINE newCount == [s.count EXCEPT ![outcome] = @ + 1]
  <2>1. newCount \in [Outcomes -> Nat]
    BY DEF State
  <2>2. t = [s EXCEPT !.busy = FALSE, !.completed = @ + 1, !.count = newCount]
    BY DEF State
  <2> HIDE DEF newCount
  <2>3. s.completed + 1 \in Nat
    BY DEF State
  <2> QED
    BY <2>1, <2>2, <2>3 DEF State
<1> HIDE DEF t
<1>2. Counted(s, outcome) = IF t.cursor >= t.tasks THEN Halted(t) ELSE t
  BY DEF Counted, t
<1> QED
  BY <1>1, <1>2, HaltedType

LEMMA KeysFinite == IsFiniteSet(Keys)
<1>1. IsFiniteSet(1..MaxMissions) /\ IsFiniteSet(1..MaxTasks)
  BY BoundsAssumption, FS_Interval
<1> QED
  BY <1>1, FS_Product DEF Keys

LEMMA InFlightFinite == IsFiniteSet(InFlight)
BY KeysFinite, FS_Subset DEF InFlight

-----------------------------------------------------------------------------
(* Counting *)

LEMMA UnitsFinite ==
  ASSUME NEW c \in [Missions -> Nat]
  PROVE  IsFiniteSet(Units(c))
<1> DEFINE block(m) == {m} \X (1..c[m])
           blocks == {block(m) : m \in Missions}
<1>1. IsFiniteSet(Missions)
  BY BoundsAssumption, FS_Interval DEF Missions
<1>2. IsFiniteSet(blocks)
  <2> DEFINE f == [m \in Missions |-> block(m)]
  <2>1. f \in Surjection(Missions, blocks)
    BY DEF Surjection
  <2> QED
    BY <1>1, <2>1, FS_Surjection
<1>3. \A m \in Missions : IsFiniteSet(block(m))
  <2> TAKE m \in Missions
  <2>1. IsFiniteSet({m})
    BY FS_Singleton
  <2>2. IsFiniteSet(1..c[m])
    BY FS_Interval
  <2> QED
    BY <2>1, <2>2, FS_Product
<1>4. \A B \in blocks : IsFiniteSet(B)
  BY <1>3
<1> HIDE DEF block
<1>5. IsFiniteSet(UNION blocks)
  BY <1>2, <1>4, FS_UNION
<1> QED
  BY <1>5 DEF Units, block

\* A counter that goes up by one has one unit more.
LEMMA UnitsGrow ==
  ASSUME NEW c \in [Missions -> Nat], NEW d, NEW m \in Missions,
         d = [c EXCEPT ![m] = @ + 1]
  PROVE  Cardinality(Units(d)) = Cardinality(Units(c)) + 1
<1> DEFINE u == <<m, c[m] + 1>>
<1>1. \A x : x \in Units(c) <=> \E n \in Missions : \E i \in 1..c[n] : x = <<n, i>>
  BY DEF Units
<1>2. \A x : x \in Units(d) <=> \E n \in Missions : \E i \in 1..d[n] : x = <<n, i>>
  BY DEF Units
<1>3. 1..d[m] = (1..c[m]) \cup {c[m] + 1}
  OBVIOUS
<1>4. \A n \in Missions \ {m} : d[n] = c[n]
  OBVIOUS
<1>5. Units(d) = Units(c) \cup {u}
  <2>1. \A n \in Missions : \A i : i \in 1..d[n]
          <=> i \in 1..c[n] \/ (n = m /\ i = c[m] + 1)
    BY <1>3, <1>4
  <2>2. \A x : x \in Units(d) <=> x \in Units(c) \/ x = u
    <3> TAKE x
    <3>1. ASSUME x \in Units(d) PROVE x \in Units(c) \/ x = u
      BY <1>1, <1>2, <2>1, <3>1
    <3>2. ASSUME x \in Units(c) PROVE x \in Units(d)
      BY <1>1, <1>2, <2>1, <3>2
    <3>3. c[m] + 1 \in 1..d[m]
      BY <1>3
    <3>4. u \in Units(d)
      BY <1>2, <3>3
    <3> QED
      BY <3>1, <3>2, <3>4
  <2> QED
    BY <2>2
<1>6. u \notin Units(c)
  BY <1>1
<1> HIDE DEF u
<1> QED
  BY <1>5, <1>6, UnitsFinite, FS_AddElement

LEMMA EndedFinite == \A O : IsFiniteSet(Ended(O))
BY KeysFinite, FS_Subset DEF Ended

\* A step that ends no task and counts none keeps the counts.
LEMMA CountsKept ==
  ASSUME Counts,
         \A m \in Missions : /\ state'[m].count = state[m].count
                             /\ state'[m].completed = state[m].completed,
         \A k \in Keys : \/ task'[k].status = task[k].status
                         \/ {task[k].status, task'[k].status} \cap Outcomes = {}
  PROVE  Counts'
<1>1. ASSUME NEW O \in SUBSET Outcomes
      PROVE  Ended(O)' = Ended(O)
  BY DEF Ended
<1>2. \A o \in Outcomes : Ended({o})' = Ended({o})
  BY <1>1
<1>3. Ended(Outcomes)' = Ended(Outcomes)
  BY <1>1
<1>4. \A o \in Outcomes : Counter(o)' = Counter(o)
  BY DEF Counter
<1>5. Completed' = Completed
  BY DEF Completed
<1> QED
  BY <1>2, <1>3, <1>4, <1>5 DEF Counts

\* A task that ends adds itself to one outcome and one unit to its counter.
LEMMA CountsGrow ==
  ASSUME MissionTypeOK, Counts, NEW m \in Missions, NEW k \in Keys,
         NEW outcome \in Outcomes, task[k].status \notin Outcomes,
         task'[k].status = outcome, \A j \in Keys \ {k} : task'[j] = task[j],
         state'[m].count = [state[m].count EXCEPT ![outcome] = @ + 1],
         state'[m].completed = state[m].completed + 1,
         \A n \in Missions \ {m} : state'[n] = state[n]
  PROVE  Counts'
<1>1. /\ \A o \in Outcomes : Counter(o) \in [Missions -> Nat]
      /\ Completed \in [Missions -> Nat]
  BY DEF MissionTypeOK, State, Counter, Completed
<1>2. ASSUME NEW O \in SUBSET Outcomes, outcome \in O
      PROVE  Cardinality(Ended(O)') = Cardinality(Ended(O)) + 1
  <2>1. Ended(O)' = Ended(O) \cup {k} /\ k \notin Ended(O)
    BY <1>2 DEF Ended
  <2>2. IsFiniteSet(Ended(O))
    BY EndedFinite
  <2>3. Cardinality(Ended(O) \cup {k}) = Cardinality(Ended(O)) + 1
    BY <2>1, <2>2, FS_AddElement
  <2> QED
    BY <2>1, <2>3
<1>3. ASSUME NEW o \in Outcomes
      PROVE  Cardinality(Units(Counter(o)')) = Cardinality(Ended({o})')
  <2>1. CASE o = outcome
    <3>1. Counter(o)' = [Counter(o) EXCEPT ![m] = @ + 1]
      <4>1. state[m].count \in [Outcomes -> Nat]
        BY DEF MissionTypeOK, State
      <4>2. \A n \in Missions :
              state'[n].count[o] = IF n = m THEN state[n].count[o] + 1
                                   ELSE state[n].count[o]
        BY <2>1, <4>1
      <4> QED
        BY <4>2 DEF Counter
    <3>2. Cardinality(Units(Counter(o)')) = Cardinality(Units(Counter(o))) + 1
      BY <1>1, <3>1, UnitsGrow
    <3> QED
      BY <1>2, <2>1, <3>2 DEF Counts
  <2>2. CASE o # outcome
    <3>1. Counter(o)' = Counter(o)
      <4>1. state[m].count \in [Outcomes -> Nat]
        BY DEF MissionTypeOK, State
      <4> QED
        BY <2>2, <4>1 DEF Counter
    <3>2. Ended({o})' = Ended({o})
      BY <2>2 DEF Ended
    <3> QED
      BY <3>1, <3>2 DEF Counts
  <2> QED
    BY <2>1, <2>2
<1>4. Cardinality(Units(Completed')) = Cardinality(Ended(Outcomes)')
  <2>1. Completed' = [Completed EXCEPT ![m] = @ + 1]
    BY DEF Completed
  <2>2. Cardinality(Units(Completed')) = Cardinality(Units(Completed)) + 1
    BY <1>1, <2>1, UnitsGrow
  <2> QED
    BY <1>2, <2>2 DEF Counts
<1> QED
  BY <1>3, <1>4 DEF Counts, Units, Missions

-----------------------------------------------------------------------------
(* The steps that call tick() *)

\* tick() on mission m keeps the types, hands out a task nobody had, and adds
\* at most that one to the tasks in flight.
LEMMA TickKeeps ==
  ASSUME MissionTypeOK, Unstarted, NoTaskTwice, Written, Counts,
         NEW m \in Missions, NEW s \in State, s.cursor <= s.tasks,
         m = 0 => ~s.running,
         s.cursor = state[m].cursor,
         s.count = state[m].count, s.completed = state[m].completed,
         Tick(m, s)
  PROVE  /\ state' \in [Missions -> State]
         /\ \A n \in Missions : state'[n].cursor <= state'[n].tasks
         /\ task' \in [Keys -> Task]
         /\ Unstarted' /\ NoTaskTwice' /\ Written' /\ Counts'
         /\ Cardinality(InFlight')
              <= Cardinality(InFlight) + (IF TickRuns(s) THEN 1 ELSE 0)
<1> USE BoundsAssumption
<1>1. /\ state' \in [Missions -> State]
      /\ \A n \in Missions : state'[n].cursor <= state'[n].tasks
      /\ state'[m].cursor = IF TickRuns(s) THEN s.cursor + 1 ELSE s.cursor
      /\ \A n \in Missions \ {m} : state'[n] = state[n]
      /\ \A n \in Missions : /\ state'[n].count = state[n].count
                             /\ state'[n].completed = state[n].completed
  BY TickedType DEF Tick, MissionTypeOK
<1>2. CASE ~TickRuns(s)
  <2>1. task' = task
    BY <1>2 DEF Tick
  <2>2. InFlight' = InFlight
    BY <2>1 DEF InFlight
  <2>3. Unstarted' /\ NoTaskTwice'
    BY <1>1, <1>2, <2>1 DEF Unstarted, NoTaskTwice, Keys, Missions
  <2>4. Cardinality(InFlight) \in Nat
    BY InFlightFinite, FS_CardinalityType
  <2>5. Written' /\ Counts'
    BY <1>1, <2>1, CountsKept DEF Written
  <2> QED
    BY <1>1, <1>2, <2>1, <2>2, <2>3, <2>4, <2>5 DEF MissionTypeOK
<1>3. CASE TickRuns(s)
  <2> DEFINE k == <<m, s.cursor + 1>>
  <2>1. k \in Keys /\ k[1] = m /\ k[2] = s.cursor + 1
    BY <1>3 DEF TickRuns, State, Keys, Missions
  <2> HIDE DEF k
  <2>2. task[k].status = "pending" /\ task[k].runs = 0 /\ task[k] \in Task
    BY <2>1 DEF Unstarted, MissionTypeOK, State
  <2>3. task' = [task EXCEPT ![k].status = "vote", ![k].runs = @ + 1]
    BY <1>3 DEF Tick, k
  <2>4. /\ task' \in [Keys -> Task]
        /\ task'[k].status = "vote" /\ task'[k].runs = 1
        /\ task'[k].written = task[k].written
        /\ \A j \in Keys \ {k} : task'[j] = task[j]
    BY <2>1, <2>2, <2>3 DEF MissionTypeOK, Task, Researching
  <2>5. Unstarted'
    <3> SUFFICES ASSUME NEW j \in Keys, j[2] > state'[j[1]].cursor
                 PROVE  task'[j].status = "pending" /\ task'[j].runs = 0
      BY DEF Unstarted
    <3>1. j[1] \in Missions /\ j[2] \in Nat
      BY DEF Keys, Missions
    <3>2. /\ state[j[1]].cursor \in Nat /\ s.cursor \in Nat
      BY <3>1 DEF MissionTypeOK, State
    <3>3. j # k
      BY <2>1, <1>1, <1>3, <3>2
    <3>4. j[2] > state[j[1]].cursor
      BY <1>1, <1>3, <3>1, <3>2
    <3> QED
      BY <2>4, <3>3, <3>4 DEF Unstarted
  <2>6. NoTaskTwice'
    BY <2>4 DEF NoTaskTwice
  <2>7. InFlight' = InFlight \cup {k}
    BY <2>1, <2>2, <2>4 DEF InFlight, Researching
  <2>8. Cardinality(InFlight') <= Cardinality(InFlight) + 1
    <3>1. Cardinality(InFlight \cup {k}) = Cardinality(InFlight) + 1
      <4>1. k \notin InFlight
        BY <2>2 DEF InFlight, Researching
      <4> QED
        BY <4>1, InFlightFinite, FS_AddElement
    <3> QED
      BY <2>7, <3>1, InFlightFinite, FS_CardinalityType
  <2>9. Written'
    BY <2>2, <2>4 DEF Written
  <2>10. Counts'
    BY <1>1, <2>2, <2>4, CountsKept DEF Outcomes
  <2> QED
    BY <1>1, <1>3, <2>4, <2>5, <2>6, <2>8, <2>9, <2>10
<1> QED
  BY <1>2, <1>3

LEMMA MissionTicks ==
  ASSUME MissionInv, NEW m \in Missions, IntervalFires(m)
  PROVE  MissionInv'
<1> USE BoundsAssumption
<1> DEFINE s == state[current]
<1>1. /\ current \in Missions /\ s \in State /\ s.cursor <= s.tasks
      /\ current = 0 => ~s.running
      /\ Tick(current, s)
  BY DEF MissionInv, MissionTypeOK, Fresh, IntervalFires
<1> HIDE DEF s
<1>2. /\ state' \in [Missions -> State]
      /\ \A n \in Missions : state'[n].cursor <= state'[n].tasks
      /\ task' \in [Keys -> Task]
      /\ Unstarted' /\ NoTaskTwice' /\ Written' /\ Counts'
      /\ Cardinality(InFlight')
           <= Cardinality(InFlight) + (IF TickRuns(s) THEN 1 ELSE 0)
  BY <1>1, TickKeeps DEF MissionInv, s
<1>3. MissionTypeOK'
  BY <1>2 DEF MissionInv, MissionTypeOK, IntervalFires
<1>4. Fresh'
  <2>1. state' = [state EXCEPT ![current] = Ticked(s)]
    BY <1>1 DEF Tick
  <2>2. Ticked(s).running => s.running
    BY <1>1, TickedType
  <2> QED
    BY <1>1, <2>1, <2>2 DEF MissionInv, MissionTypeOK, Fresh, IntervalFires, Missions, s
<1>5. TickCredit'
  <2>1. /\ state'[current].busy <=> s.busy \/ TickRuns(s)
        /\ current' = current
    BY <1>1, TickedType DEF Tick, IntervalFires, MissionInv, MissionTypeOK
  <2>2. TickRuns(s) => ~s.busy /\ current # 0
    BY <1>1 DEF TickRuns
  <2>3. Cardinality(InFlight) \in Nat /\ Cardinality(InFlight') \in Nat
    <3>1. IsFiniteSet(InFlight')
      BY KeysFinite, FS_Subset DEF InFlight
    <3> QED
      BY <3>1, InFlightFinite, FS_CardinalityType
  <2>4. current \in Nat
    BY <1>1 DEF Missions
  <2> QED
    BY <1>2, <2>1, <2>2, <2>3, <2>4 DEF MissionInv, TickCredit, s
<1> QED
  BY <1>2, <1>3, <1>4, <1>5 DEF MissionInv

\* A new mission: nobody has its tasks, and it brings the credit for one tick.
LEMMA MissionStarts ==
  ASSUME MissionInv, NEW n \in 0..MaxTasks, StartReturns(n)
  PROVE  MissionInv'
<1> USE BoundsAssumption
<1> DEFINE m == current + 1
           s == [Idle EXCEPT !.running = TRUE, !.timer = TRUE, !.tasks = n]
<1>1. /\ current \in Nat /\ m \in Missions /\ m # 0 /\ m > current
      /\ current' = m /\ starting' \in Nat
      /\ stopped' = stopped /\ closed' = closed
  BY DEF MissionInv, MissionTypeOK, StartReturns, Missions
<1>2. state[m] = Idle
  BY <1>1 DEF MissionInv, Fresh
<1>3. /\ s \in State /\ s.cursor = 0 /\ s.tasks = n /\ ~s.busy
      /\ Idle.cursor = 0
      /\ s.count = Idle.count /\ s.completed = Idle.completed
  BY IdleType DEF State
<1>4. Tick(m, s)
  BY DEF StartReturns
<1> HIDE DEF m, s
<1>5. /\ state' \in [Missions -> State]
      /\ \A x \in Missions : state'[x].cursor <= state'[x].tasks
      /\ task' \in [Keys -> Task]
      /\ Unstarted' /\ NoTaskTwice' /\ Written' /\ Counts'
      /\ Cardinality(InFlight')
           <= Cardinality(InFlight) + (IF TickRuns(s) THEN 1 ELSE 0)
  <2>1. /\ s.cursor <= s.tasks /\ s.cursor = state[m].cursor
        /\ s.count = state[m].count /\ s.completed = state[m].completed
    BY <1>2, <1>3
  <2> QED
    BY <1>1, <1>3, <1>4, <2>1, TickKeeps DEF MissionInv
<1>6. MissionTypeOK'
  BY <1>1, <1>5 DEF MissionInv, MissionTypeOK
<1>7. state'[m].busy <=> TickRuns(s)
  BY <1>1, <1>3, <1>4, TickedType DEF Tick, MissionInv, MissionTypeOK
<1>8. Fresh'
  <2>1. \A x \in Missions \ {m} : state'[x] = state[x]
    BY <1>4 DEF Tick, MissionInv, MissionTypeOK
  <2> QED
    BY <1>1, <2>1 DEF MissionInv, Fresh, Missions
<1>9. TickCredit'
  <2>1. Cardinality(InFlight) \in Nat /\ Cardinality(InFlight') \in Nat
    <3>1. IsFiniteSet(InFlight')
      BY KeysFinite, FS_Subset DEF InFlight
    <3> QED
      BY <3>1, InFlightFinite, FS_CardinalityType
  <2>2. Cardinality(InFlight) <= current
    BY <1>1, <2>1 DEF MissionInv, TickCredit
  <2> QED
    BY <1>1, <1>5, <1>7, <2>1, <2>2 DEF TickCredit, m
<1> QED
  BY <1>5, <1>6, <1>8, <1>9 DEF MissionInv

-----------------------------------------------------------------------------
(* The other steps *)

LEMMA RequestKeeps ==
  ASSUME MissionInv, CallStart \/ StartFails \/ UNCHANGED missionVars
  PROVE  MissionInv'
<1>1. /\ UNCHANGED <<current, state, task, stopped, closed>>
      /\ starting' \in Nat
  BY DEF MissionInv, MissionTypeOK, CallStart, StartFails, missionVars
<1>2. Counts'
  BY <1>1, CountsKept DEF MissionInv
<1> QED
  BY <1>1, <1>2
     DEF MissionInv, MissionTypeOK, Fresh, Unstarted, NoTaskTwice, TickCredit,
         InFlight, Written

LEMMA MissionStops ==
  ASSUME MissionInv, Stop \/ Close
  PROVE  MissionInv'
<1> USE BoundsAssumption
<1>1. /\ state' = [state EXCEPT ![current] = Halted(state[current])]
      /\ UNCHANGED <<current, task>>
      /\ stopped' \in SUBSET Missions /\ starting' \in Nat
      /\ closed' \in BOOLEAN
  BY DEF MissionInv, MissionTypeOK, Stop, Close
<1>2. /\ state' \in [Missions -> State]
      /\ \A m \in Missions : /\ state'[m].cursor = state[m].cursor
                             /\ state'[m].tasks = state[m].tasks
                             /\ state'[m].busy = state[m].busy
                             /\ state'[m].count = state[m].count
                             /\ state'[m].completed = state[m].completed
      /\ \A m \in Missions \ {current} : state'[m] = state[m]
      /\ ~state'[current].running
  BY <1>1, HaltedType DEF MissionInv, MissionTypeOK
<1>3. MissionTypeOK'
  BY <1>1, <1>2 DEF MissionInv, MissionTypeOK
<1>4. Fresh'
  BY <1>1, <1>2 DEF MissionInv, MissionTypeOK, Fresh, Missions
<1>5. Unstarted' /\ NoTaskTwice'
  BY <1>1, <1>2 DEF MissionInv, Unstarted, NoTaskTwice, Keys, Missions
<1>6. TickCredit'
  BY <1>1, <1>2 DEF MissionInv, MissionTypeOK, TickCredit, InFlight
<1>7. Written' /\ Counts'
  BY <1>1, <1>2, CountsKept DEF MissionInv, Written
<1> QED
  BY <1>3, <1>4, <1>5, <1>6, <1>7 DEF MissionInv

\* A task moves from one await of the worker to the next.
LEMMA WorkKeeps ==
  ASSUME MissionInv, NEW k \in Keys, VotesAgree(k) \/ WriteSucceeds(k)
  PROVE  MissionInv'
<1>1. PICK t \in Task : /\ task' = [task EXCEPT ![k] = t]
                        /\ t.status \in Researching
                        /\ t.runs = task[k].runs
                        /\ t.status = "update" => t.written = {}
                        /\ t.status = "audit" => t.written = {"update"}
                        /\ t.status = "emit" => t.written = {"update", "audit"}
                        /\ t.status # "vote"
  <2>1. CASE VotesAgree(k)
    <3> DEFINE t == [task[k] EXCEPT !.status = "update"]
    <3>1. /\ t \in Task /\ t.status = "update" /\ t.runs = task[k].runs
          /\ t.written = {}
      BY <2>1 DEF MissionInv, MissionTypeOK, Task, Researching, Written, VotesAgree
    <3>2. task' = [task EXCEPT ![k] = t]
      BY <2>1 DEF MissionInv, MissionTypeOK, VotesAgree
    <3> QED
      BY <3>1, <3>2 DEF Researching
  <2>2. CASE WriteSucceeds(k)
    <3> DEFINE w == task[k].status
               t == [task[k] EXCEPT !.status = FillNext(w),
                                    !.written = @ \cup {w}]
    <3>1. w \in {"update", "audit"} /\ task[k] \in Task
      BY <2>2 DEF MissionInv, MissionTypeOK, WriteSucceeds
    <3>2. /\ t \in Task /\ t.runs = task[k].runs
          /\ t.status = FillNext(w) /\ t.written = task[k].written \cup {w}
      BY <3>1 DEF Task, Researching, Writes, FillNext
    <3>4. /\ w = "update" => task[k].written = {}
          /\ w = "audit" => task[k].written = {"update"}
      BY DEF MissionInv, Written
    <3>3. task' = [task EXCEPT ![k] = t]
      BY <2>2, <3>1 DEF WriteSucceeds, MissionInv, MissionTypeOK
    <3>5. /\ t.status \in {"audit", "emit"}
          /\ t.status = "audit" => t.written = {"update"}
          /\ t.status = "emit" => t.written = {"update", "audit"}
      BY <3>1, <3>2, <3>4 DEF FillNext
    <3> HIDE DEF t
    <3> QED
      BY <3>2, <3>3, <3>5 DEF Researching
  <2> QED
    BY <2>1, <2>2
<1>2. /\ UNCHANGED <<current, state, starting, stopped, closed>>
      /\ task[k].status \in Researching
  BY DEF VotesAgree, WriteSucceeds, Researching
<1>3. /\ task' \in [Keys -> Task]
      /\ \A j \in Keys : /\ task'[j].runs = task[j].runs
                         /\ (task'[j].status \in Researching
                               <=> task[j].status \in Researching)
                         /\ task[j].status = "pending"
                              => task'[j].status = "pending"
  BY <1>1, <1>2 DEF MissionInv, MissionTypeOK, Researching
<1>4. InFlight' = InFlight
  BY <1>3 DEF InFlight
<1>5. /\ task'[k].status \in Researching
      /\ \A j \in Keys \ {k} : task'[j] = task[j]
  BY <1>1 DEF MissionInv, MissionTypeOK
<1>6. Written'
  BY <1>1, <1>5 DEF MissionInv, MissionTypeOK, Written, Researching
<1>7. Counts'
  BY <1>2, <1>5, CountsKept DEF MissionInv, Researching, Outcomes
<1> QED
  BY <1>2, <1>3, <1>4, <1>6, <1>7
     DEF MissionInv, MissionTypeOK, Fresh, Unstarted, NoTaskTwice, TickCredit

\* A task that ends leaves InFlight, and the current mission gets at most the
\* credit of that one tick back, whichever mission the task belonged to.
LEMMA EndKeeps ==
  ASSUME MissionInv, NEW k \in Keys, NEW outcome \in Outcomes,
         NEW written \in SUBSET Writes,
         task[k].status \in Researching, TaskEnds(k, outcome, written),
         outcome = "filled" => written = Writes
  PROVE  MissionInv'
<1> USE BoundsAssumption
<1> DEFINE s == state[current]
<1>1. /\ current \in Missions /\ current \in Nat
      /\ s \in State /\ s.cursor <= s.tasks
      /\ UNCHANGED <<current, starting, stopped, closed>>
      /\ state' = [state EXCEPT ![current] = Counted(s, outcome)]
  BY DEF MissionInv, MissionTypeOK, TaskEnds, Missions
<1> HIDE DEF s
<1>2. /\ state' \in [Missions -> State]
      /\ \A m \in Missions : /\ state'[m].cursor = state[m].cursor
                             /\ state'[m].tasks = state[m].tasks
                             /\ state'[m].running => state[m].running
      /\ \A m \in Missions \ {current} : state'[m] = state[m]
      /\ state'[current].count = [s.count EXCEPT ![outcome] = @ + 1]
      /\ state'[current].completed = s.completed + 1
  BY <1>1, CountedType DEF MissionInv, MissionTypeOK, s
<1>3. /\ task' \in [Keys -> Task]
      /\ task'[k].status = outcome /\ task'[k].written = written
      /\ \A j \in Keys : task'[j].runs = task[j].runs
      /\ \A j \in Keys \ {k} : task'[j] = task[j]
  BY DEF MissionInv, MissionTypeOK, Task, TaskEnds
<1>4. InFlight' = InFlight \ {k} /\ k \in InFlight
  BY <1>3 DEF InFlight, Researching, Outcomes
<1>5. MissionTypeOK'
  BY <1>1, <1>2, <1>3 DEF MissionInv, MissionTypeOK
<1>6. Fresh'
  BY <1>1, <1>2 DEF MissionInv, Fresh, Missions
<1>7. Unstarted'
  <2> SUFFICES ASSUME NEW j \in Keys, j[2] > state'[j[1]].cursor
               PROVE  task'[j].status = "pending" /\ task'[j].runs = 0
    BY DEF Unstarted
  <2>1. j[2] > state[j[1]].cursor
    BY <1>2 DEF Keys, Missions
  <2>2. task[j].status = "pending" /\ task[j].runs = 0
    BY <2>1 DEF MissionInv, Unstarted
  <2> QED
    BY <1>3, <2>2 DEF Researching
<1>8. NoTaskTwice'
  BY <1>3 DEF MissionInv, NoTaskTwice
<1>9. TickCredit'
  <2>1. Cardinality(InFlight') = Cardinality(InFlight) - 1
    BY <1>4, InFlightFinite, FS_RemoveElement
  <2>2. Cardinality(InFlight) \in Nat
    BY InFlightFinite, FS_CardinalityType
  <2>3. Cardinality(InFlight) <= current
    BY <1>1, <2>2 DEF MissionInv, TickCredit
  <2> QED
    BY <1>1, <2>1, <2>2, <2>3 DEF TickCredit
<1>10. Written'
  BY <1>3 DEF MissionInv, Written, Outcomes
<1>11. Counts'
  <2>1. task[k].status \notin Outcomes
    BY DEF Researching, Outcomes
  <2>2. /\ state'[current].count = [state[current].count EXCEPT ![outcome] = @ + 1]
        /\ state'[current].completed = state[current].completed + 1
    BY <1>2 DEF s
  <2> QED
    BY <1>1, <1>2, <1>3, <2>1, <2>2, CountsGrow DEF MissionInv
<1> QED
  BY <1>5, <1>6, <1>7, <1>8, <1>9, <1>10, <1>11 DEF MissionInv

LEMMA RunTaskKeeps ==
  ASSUME MissionInv, NEW k \in Keys, RunTask(k)
  PROVE  MissionInv'
<1>1. task[k].written \in SUBSET Writes
  BY DEF MissionInv, MissionTypeOK, Task
<1>2. CASE VotesAgree(k) \/ WriteSucceeds(k)
  BY <1>2, WorkKeeps
<1>3. CASE NoValue(k)
  BY <1>1, <1>3, EndKeeps DEF NoValue, Outcomes, Researching
<1>4. CASE FillApplied(k)
  <2>1. /\ task[k].written \cup {"emit"} \in SUBSET Writes
        /\ task[k].written \cup {"emit"} = Writes
    BY <1>4 DEF MissionInv, Written, FillApplied, Writes
  <2> QED
    BY <1>4, <2>1, EndKeeps DEF FillApplied, Outcomes, Researching
<1>5. CASE CallRejects(k)
  <2>1. PICK landed \in SUBSET ({task[k].status} \cap Writes) :
          TaskEnds(k, "error", task[k].written \cup landed)
    BY <1>5 DEF CallRejects
  <2>2. task[k].written \cup landed \in SUBSET Writes
    BY <1>1
  <2> QED
    BY <1>5, <2>1, <2>2, EndKeeps DEF CallRejects, Outcomes
<1> QED
  BY <1>2, <1>3, <1>4, <1>5 DEF RunTask

-----------------------------------------------------------------------------
(* Theorems *)

LEMMA MissionInitially ==
  ASSUME MissionInit
  PROVE  MissionInv
<1> USE BoundsAssumption
<1>1. Idle \in State /\ Idle.cursor = 0 /\ Idle.tasks = 0 /\ ~Idle.running
  BY IdleType
<1>2. 0 \in Missions
  BY DEF Missions
<1>3. MissionTypeOK
  <2>1. [status |-> "pending", written |-> {}, runs |-> 0] \in Task
    BY DEF Task
  <2>2. /\ state \in [Missions -> State]
        /\ \A m \in Missions : state[m].cursor <= state[m].tasks
    BY <1>1 DEF MissionInit
  <2>3. task \in [Keys -> Task]
    BY <2>1 DEF MissionInit
  <2> QED
    BY <1>2, <2>2, <2>3 DEF MissionInit, MissionTypeOK
<1>4. Fresh /\ Unstarted /\ NoTaskTwice
  BY <1>1, <1>2 DEF MissionInit, Fresh, Unstarted, NoTaskTwice, Keys, Missions
<1>5. InFlight = {}
  BY DEF MissionInit, InFlight, Researching
<1>6. TickCredit
  BY <1>5, FS_EmptySet DEF MissionInit, TickCredit
<1>7. Written
  BY DEF MissionInit, Written
<1>8. Counts
  <2>1. /\ \A O \in SUBSET Outcomes : Ended(O) = {}
        /\ Cardinality({}) = 0
    BY FS_EmptySet DEF MissionInit, Ended, Outcomes
  <2>2. \A c : (\A m \in Missions : c[m] = 0) => Units(c) = {}
    BY DEF Units
  <2>3. /\ \A o \in Outcomes : \A m \in Missions : Counter(o)[m] = 0
        /\ \A m \in Missions : Completed[m] = 0
    BY DEF MissionInit, Idle, Counter, Completed
  <2>4. /\ \A o \in Outcomes : Units(Counter(o)) = {} /\ Ended({o}) = {}
        /\ Units(Completed) = {} /\ Ended(Outcomes) = {}
    BY <2>1, <2>2, <2>3
  <2> QED
    BY <2>1, <2>4 DEF Counts
<1> QED
  BY <1>3, <1>4, <1>6, <1>7, <1>8 DEF MissionInv

LEMMA MissionSteps ==
  ASSUME MissionInv, [MissionNext]_missionVars
  PROVE  MissionInv'
<1>1. ASSUME NEW m \in Missions, IntervalFires(m) PROVE MissionInv'
  BY <1>1, MissionTicks
<1>2. ASSUME NEW n \in 0..MaxTasks, StartReturns(n) PROVE MissionInv'
  BY <1>2, MissionStarts
<1>3. CASE CallStart \/ StartFails \/ UNCHANGED missionVars
  BY <1>3, RequestKeeps
<1>4. CASE Stop \/ Close
  BY <1>4, MissionStops
<1>5. ASSUME NEW k \in Keys, RunTask(k) PROVE MissionInv'
  BY <1>5, RunTaskKeeps
<1> QED
  BY <1>1, <1>2, <1>3, <1>4, <1>5 DEF MissionNext

LEMMA MissionInvariance == MissionSpec => []MissionInv
<1>1. MissionInit => MissionInv
  BY MissionInitially
<1>2. MissionInv /\ [MissionNext]_missionVars => MissionInv'
  BY MissionSteps
<1> QED
  BY <1>1, <1>2, PTL DEF MissionSpec

\* Every variable keeps its type and no cursor passes the end of its tasks,
\* however start(), stop(), shutdown and returning ticks interleave.
THEOREM MissionTypeCorrect == MissionSpec => []MissionTypeOK
<1>1. MissionInv => MissionTypeOK
  BY DEF MissionInv
<1> QED
  BY <1>1, MissionInvariance, PTL

\* No task is handed to the worker twice, for any number of missions.
THEOREM EachTaskAtMostOnce == MissionSpec => []NoTaskTwice
<1>1. MissionInv => NoTaskTwice
  BY DEF MissionInv
<1> QED
  BY <1>1, MissionInvariance, PTL

\* There are never more tasks out than missions have begun; in particular the
\* ticks of the first mission do not overlap.
THEOREM TicksAreBounded == MissionSpec => []OverlapBounded
<1>1. MissionInv => OverlapBounded
  <2> SUFFICES ASSUME MissionInv PROVE OverlapBounded
    OBVIOUS
  <2>1. Cardinality(InFlight) \in Nat /\ current \in Nat
    BY BoundsAssumption, InFlightFinite, FS_CardinalityType DEF MissionInv,
       MissionTypeOK, Missions
  <2> QED
    BY <2>1 DEF MissionInv, TickCredit, OverlapBounded
<1> QED
  BY <1>1, MissionInvariance, PTL

\* Each task that has ended is in one counter of one mission, whichever mission
\* the tick that ran it returned to, and a task counted as filled has made all
\* three writes.
THEOREM EachTaskIsCountedOnce == MissionSpec => []CountedOnce
<1>1. MissionInv => CountedOnce
  BY DEF MissionInv, Counts, Counter, Completed, CountedOnce, Written, Ended
<1> QED
  BY <1>1, MissionInvariance, PTL
================================================================================

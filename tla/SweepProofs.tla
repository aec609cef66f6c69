---------------------------- MODULE SweepProofs ----------------------------
(***************************************************************************)
(* What holds of a sweep suggestion beyond one request, for any constants: *)
(* of the indexes that list it (SweepIndex) and of its resolution          *)
(* (Resolution).                                                           *)
(*                                                                         *)
(* SweepIndex, for any number of rows, listings and reviews and any batch  *)
(* size: IInv says who owes a row to an index: a row that an index lacks,  *)
(* once a rebuild is due or done, is still ahead of, or in the hands of, a *)
(* call that is rebuilding (Cover).  JInv says what a listing alone may    *)
(* rely on: it has no rival, nobody deletes behind it, and the pending     *)
(* rows it began with are in the index or in its hands.                    *)
(*                                                                         *)
(* Resolution, for any number of requests, actions, failures and expiries: *)
(* ResolutionInv adds to what is promised what each place in resolve()     *)
(* remembers.                                                              *)
(***************************************************************************)
EXTENDS SweepIndex, Resolution, SequenceTheorems, FiniteSetTheorems, TLAPS

\* The row is among those that are left when k rows were read from the end.
Ahead(x, k) == \E i \in DOMAIN all : all[i] = x /\ Len(all) - i >= k

\* The call will put the row into an index, if kept is what it has for it.
Cover(l, x, kept) ==
  /\ l.refill = "legacy"
  /\ \/ l.pc \in {"scan", "drop"}
     \/ l.pc = "ids" /\ Ahead(x, l.start)
     \/ l.pc = "rows" /\ (x \in l.ids \/ (l.more /\ Ahead(x, l.start + Batch)))
     \/ l.pc = "index" /\ (x \in kept \/ (l.more /\ Ahead(x, l.start + Batch)))

\* A rebuild has been done or is under way.
Due == rebuilt \/ \E c \in Calls : call[c].refill = "legacy"

AllOwed ==
  Due => \A x \in Live : \/ x \in ranked["all"]
                         \/ \E c \in Calls : Cover(call[c], x, call[c].ids)
ReviewedOwed ==
  Due => \A x \in InRow("reviewed") :
           \/ x \in ranked["reviewed"]
           \/ \E c \in Calls : Cover(call[c], x, call[c].reviewed)

\* Only a rebuild deletes more than the pending index, and it starts at the end.
Placed(l) ==
  /\ l.pc \in {"idle", "counts", "sample", "members", "page", "fetch"}
       => l.refill # "legacy"
  /\ l.refill # "legacy" => l.scopes \subseteq {"pending"}
  /\ l.pc \notin {"ids", "rows", "index"} => l.start = 0

AllPlaced == \A c \in Calls : Placed(call[c])

\* Every row is listed, and what a review has read was stored.
AllListed == Live \subseteq Members(all)
ReadIsStored == \A r \in Reviewers : review[r] # 0 => row[review[r]] # "absent"

IInv ==
  TypeOK /\ AllListed /\ ReadIsStored /\ AllPlaced /\ AllOwed /\ ReviewedOwed

-----------------------------------------------------------------------------
(* Helpers *)

LEMMA AllIsSeq ==
  ASSUME TypeOK
  PROVE  /\ Len(all) \in Nat /\ DOMAIN all = 1..Len(all)
         /\ Members(all) \subseteq Ids
BY LenProperties, ElementOfSeq DEF TypeOK, Members

LEMMA LiveAndReviewed ==
  /\ InRow("reviewed") \subseteq Live /\ InRow("pending") \subseteq Live
  /\ Live \subseteq Ids
BY DEF InRow, Live

LEMMA ListedIsAhead ==
  ASSUME TypeOK, AllListed, NEW x \in Live
  PROVE  Ahead(x, 0)
<1>1. PICK i \in DOMAIN all : all[i] = x
  BY DEF AllListed, Members
<1> QED
  BY <1>1, AllIsSeq DEF Ahead

\* A row that is appended moves no row closer to the end of a rebuild.
LEMMA AheadStays ==
  ASSUME TypeOK, NEW y \in Ids, all' = Append(all, y), NEW x, NEW k \in Nat,
         Ahead(x, k)
  PROVE  Ahead(x, k)'
<1>1. PICK i \in DOMAIN all : all[i] = x /\ Len(all) - i >= k
  BY DEF Ahead
<1>2. /\ Len(all') = Len(all) + 1 /\ DOMAIN all' = 1..(Len(all) + 1)
      /\ all'[i] = all[i] /\ i \in 1..Len(all) /\ Len(all) \in Nat
  BY <1>1, AllIsSeq DEF TypeOK
<1> QED
  BY <1>1, <1>2 DEF Ahead

LEMMA IdleType == Idle \in Call /\ Placed(Idle) /\ Idle.refill = "none"
BY DEF Idle, Call, Scopes, Placed

LEMMA PagingType ==
  ASSUME NEW l \in Call
  PROVE  /\ Paging(l) \in Call /\ Placed(Paging(l)) /\ Paging(l).refill = "none"
BY DEF Paging, Idle, Call, Scopes, Placed

LEMMA DroppingType ==
  ASSUME NEW l \in Call, NEW scopes \in SUBSET Scopes,
         NEW from \in {"legacy", "pending", "none"}
  PROVE  LET d == Dropping(l, scopes, from) IN
           /\ d \in Call /\ d.pc = "scan" /\ d.refill = from /\ d.scopes = scopes
           /\ d.start = l.start
BY DEF Dropping, Call

LEMMA UnsureType ==
  ASSUME NEW l \in Call
  PROVE  LET u == Unsure(l) IN
           /\ u \in Call /\ u.pc = l.pc /\ u.scopes = l.scopes
           /\ u.refill = l.refill /\ u.start = l.start /\ u.ids = l.ids
           /\ u.reviewed = l.reviewed /\ u.more = l.more
BY DEF Unsure, Call

\* Two calls that differ in their history only.
Same(l, m) ==
  /\ l.pc = m.pc /\ l.scopes = m.scopes /\ l.refill = m.refill
  /\ l.start = m.start /\ l.ids = m.ids /\ l.reviewed = m.reviewed
  /\ l.more = m.more

-----------------------------------------------------------------------------
(* The steps of list() *)

\* What a call owes before a step it owes or has given after it, or it has just
\* taken over everything.
Carries(c, next) ==
  \/ /\ (rebuilt' \/ next.refill = "legacy") => Due
     /\ \A x \in Live :
          (x \in ranked["all"] \/ Cover(call[c], x, call[c].ids))
            => (x \in ranked'["all"] \/ Cover(next, x, next.ids))
     /\ \A x \in InRow("reviewed") :
          (x \in ranked["reviewed"] \/ Cover(call[c], x, call[c].reviewed))
            => (x \in ranked'["reviewed"] \/ Cover(next, x, next.reviewed))
  \/ \A x \in Live : Cover(next, x, next.ids) /\ Cover(next, x, next.reviewed)

LEMMA CallKeeps ==
  ASSUME IInv, NEW c \in Calls, NEW next \in Call, Placed(next),
         UNCHANGED <<row, all, pending, review>>,
         ranked' \in [Scopes -> SUBSET Ids], rebuilt' \in BOOLEAN,
         rebuilt => rebuilt',
         call' \in [Calls -> Call], call'[c] = next,
         \A d \in Calls \ {c} : Same(call'[d], call[d]),
         Carries(c, next)
  PROVE  IInv'
<1> USE DEF IInv
<1>1. TypeOK'
  BY DEF TypeOK
<1>2. AllListed' /\ ReadIsStored'
  BY DEF AllListed, ReadIsStored, Live
<1>3. AllPlaced'
  BY DEF AllPlaced, Placed, Same
<1>4. \A x, k : Ahead(x, k)' <=> Ahead(x, k)
  BY DEF Ahead
<1>5. Live' = Live /\ \A s : InRow(s)' = InRow(s)
  BY DEF Live, InRow
<1>6. \A x : /\ Cover(call[c], x, call[c].ids)' <=> Cover(next, x, next.ids)
             /\ Cover(call[c], x, call[c].reviewed)'
                  <=> Cover(next, x, next.reviewed)
  BY <1>4 DEF Cover
<1>7. \A x : \A d \in Calls \ {c} :
        /\ Cover(call[d], x, call[d].ids) => Cover(call[d], x, call[d].ids)'
        /\ Cover(call[d], x, call[d].reviewed)
             => Cover(call[d], x, call[d].reviewed)'
  BY <1>4 DEF Cover, Same
<1>8. CASE \A x \in Live : Cover(next, x, next.ids) /\ Cover(next, x, next.reviewed)
  <2>1. AllOwed'
    BY <1>5, <1>6, <1>8 DEF AllOwed
  <2>2. ReviewedOwed'
    BY <1>5, <1>6, <1>8, LiveAndReviewed DEF ReviewedOwed
  <2> QED
    BY <1>1, <1>2, <1>3, <2>1, <2>2
<1>9. CASE /\ (rebuilt' \/ next.refill = "legacy") => Due
           /\ \A x \in Live :
                (x \in ranked["all"] \/ Cover(call[c], x, call[c].ids))
                  => (x \in ranked'["all"] \/ Cover(next, x, next.ids))
           /\ \A x \in InRow("reviewed") :
                (x \in ranked["reviewed"] \/ Cover(call[c], x, call[c].reviewed))
                  => (x \in ranked'["reviewed"] \/ Cover(next, x, next.reviewed))
  <2>1. Due' => Due
    BY <1>9 DEF Due, Same
  <2>2. AllOwed'
    <3> SUFFICES ASSUME Due', NEW x \in Live, x \notin ranked'["all"]
                 PROVE  \E d \in Calls : Cover(call[d], x, call[d].ids)'
      BY <1>5 DEF AllOwed
    <3>1. CASE x \in ranked["all"] \/ Cover(call[c], x, call[c].ids)
      BY <1>6, <1>9, <3>1
    <3>2. CASE \E d \in Calls \ {c} : Cover(call[d], x, call[d].ids)
      BY <1>7, <3>2
    <3> QED
      BY <2>1, <3>1, <3>2 DEF AllOwed
  <2>3. ReviewedOwed'
    <3> SUFFICES ASSUME Due', NEW x \in InRow("reviewed"), x \notin ranked'["reviewed"]
                 PROVE  \E d \in Calls : Cover(call[d], x, call[d].reviewed)'
      BY <1>5 DEF ReviewedOwed
    <3>1. CASE x \in ranked["reviewed"] \/ Cover(call[c], x, call[c].reviewed)
      BY <1>6, <1>9, <3>1
    <3>2. CASE \E d \in Calls \ {c} : Cover(call[d], x, call[d].reviewed)
      BY <1>7, <3>2
    <3> QED
      BY <2>1, <3>1, <3>2 DEF ReviewedOwed
  <2> QED
    BY <1>1, <1>2, <1>3, <2>2, <2>3
<1> QED
  BY <1>8, <1>9 DEF Carries

\* A step of a call that writes nothing.
LEMMA StepKeeps ==
  ASSUME IInv, NEW c \in Calls, NEW next \in Call, Placed(next), Step(c, next),
         Carries(c, next)
  PROVE  IInv'
<1>1. /\ UNCHANGED <<row, all, pending, review, ranked, rebuilt>>
      /\ call' = [call EXCEPT ![c] = next]
  BY DEF Step
<1>2. /\ call' \in [Calls -> Call] /\ call'[c] = next
      /\ \A d \in Calls \ {c} : Same(call'[d], call[d])
      /\ ranked' \in [Scopes -> SUBSET Ids] /\ rebuilt' \in BOOLEAN
  BY <1>1 DEF IInv, TypeOK, Same
<1> QED
  BY <1>1, <1>2, CallKeeps

\* A step that has nothing to do with a rebuild.
LEMMA AsideKeeps ==
  ASSUME IInv, NEW c \in Calls, NEW next \in Call, Placed(next), Step(c, next),
         call[c].refill # "legacy", next.refill # "legacy"
  PROVE  IInv'
<1>1. Carries(c, next)
  BY DEF Carries, Cover, Due, Step
<1> QED
  BY <1>1, StepKeeps

LEMMA BeginKeeps ==
  ASSUME IInv, NEW c \in Calls, NEW s \in Scopes, Begin(c, s)
  PROVE  IInv'
<1> USE DEF IInv
<1> DEFINE others == {d \in Calls \ {c} : call[d].pc # "idle"}
           mine == [Idle EXCEPT !.scope = s, !.sure = (others = {}),
                                !.since = IF others = {} THEN InRow("pending") ELSE {}]
           next == Repaired(mine)
<1>1. /\ call[c].pc = "idle"
      /\ call' = [d \in Calls |-> IF d = c THEN next
                                  ELSE IF d \in others THEN Unsure(call[d])
                                  ELSE call[d]]
      /\ UNCHANGED <<row, all, pending, ranked, review, rebuilt>>
  BY DEF Begin
<1>2. /\ mine \in Call /\ mine.refill = "none" /\ mine.scopes = {}
      /\ mine.start = 0 /\ mine.scope = s
  BY LiveAndReviewed DEF Idle, Call, Scopes
<1> HIDE DEF mine
<1>3. /\ next \in Call /\ Placed(next)
      /\ next.refill = "legacy" => next.pc = "scan"
  <2>1. CASE ranked["all"] = {} /\ all # <<>>
    BY <1>2, <2>1, DroppingType DEF Repaired, Placed, Scopes
  <2>2. CASE ~(ranked["all"] = {} /\ all # <<>>) /\ s = "pending"
    <3>1. next = [mine EXCEPT !.pc = "counts"]
      BY <1>2, <2>2 DEF Repaired
    <3> QED
      BY <1>2, <3>1 DEF Call, Placed
  <2>3. CASE ~(ranked["all"] = {} /\ all # <<>>) /\ s # "pending"
    <3>1. next = Paging(mine)
      BY <1>2, <2>3 DEF Repaired
    <3> QED
      BY <1>2, <3>1, PagingType
  <2> QED
    BY <2>1, <2>2, <2>3
<1> HIDE DEF next
<1>4. /\ call' \in [Calls -> Call] /\ call'[c] = next
      /\ \A d \in Calls \ {c} : Same(call'[d], call[d])
  <2>1. \A d \in Calls : /\ call[d] \in Call /\ Unsure(call[d]) \in Call
                         /\ Same(Unsure(call[d]), call[d])
    BY UnsureType DEF TypeOK, Same
  <2> QED
    BY <1>1, <1>3, <2>1 DEF Same
<1>5. Carries(c, next)
  <2>1. CASE next.refill = "legacy"
    BY <1>3, <2>1 DEF Carries, Cover
  <2>2. CASE next.refill # "legacy"
    BY <1>1, <2>2 DEF Carries, Cover, Due
  <2> QED
    BY <2>1, <2>2
<1>6. ranked' \in [Scopes -> SUBSET Ids] /\ rebuilt' \in BOOLEAN
  BY <1>1 DEF TypeOK
<1> QED
  BY <1>1, <1>3, <1>4, <1>5, <1>6, CallKeeps

\* The checks of the pending index.
LEMMA CheckKeeps ==
  ASSUME IInv, NEW c \in Calls, Counts(c) \/ Sample(c) \/ Compare(c)
  PROVE  IInv'
<1> USE DEF IInv
<1> DEFINE l == call[c]
           pend(m, from) == Dropping(m, {"pending"}, from)
<1>1. /\ l \in Call /\ l.refill # "legacy" /\ l.start = 0
      /\ l.scopes \subseteq {"pending"}
  BY DEF TypeOK, AllPlaced, Placed, Counts, Sample, Compare
<1>2. ASSUME NEW m \in Call, m.start = 0, NEW from \in {"pending", "none"}
      PROVE  pend(m, from) \in Call /\ Placed(pend(m, from))
             /\ pend(m, from).refill # "legacy"
  BY <1>2, DroppingType DEF Placed, Scopes
<1>3. Paging(l) \in Call /\ Placed(Paging(l)) /\ Paging(l).refill # "legacy"
  BY <1>1, PagingType
<1> HIDE DEF l
<1>4. CASE Counts(c)
  <2>1. LET n == [l EXCEPT !.pc = "sample"] IN
          n \in Call /\ Placed(n) /\ n.refill # "legacy"
    BY <1>1 DEF Call, Placed
  <2>2. Counted(l) \in Call /\ Placed(Counted(l)) /\ Counted(l).refill # "legacy"
    BY <1>1, <1>2, <1>3, <2>1 DEF Counted
  <2> QED
    BY <1>1, <1>4, <2>2, AsideKeeps DEF Counts, l
<1>5. CASE Sample(c)
  <2> DEFINE top == Top(ranked["pending"], SampleSize)
             n == [l EXCEPT !.pc = "members", !.ids = top]
  <2>1. top \in SUBSET Ids
    BY DEF Top, TypeOK, Scopes
  <2> HIDE DEF top
  <2>2. n \in Call /\ Placed(n) /\ n.refill # "legacy"
    BY <1>1, <2>1 DEF Call, Placed
  <2> HIDE DEF n
  <2>3. Unsure(n) \in Call /\ Placed(Unsure(n)) /\ Unsure(n).refill # "legacy"
    BY <2>2, UnsureType DEF Placed
  <2>4. \/ Step(c, pend(l, "pending"))
        \/ Step(c, n)
        \/ Step(c, Unsure(n))
    BY <1>5 DEF Sample, top, n, l
  <2>5. pend(l, "pending") \in Call /\ Placed(pend(l, "pending"))
        /\ pend(l, "pending").refill # "legacy"
    BY <1>1, <1>2
  <2> QED
    BY <1>1, <2>2, <2>3, <2>4, <2>5, AsideKeeps DEF l
<1>6. CASE Compare(c)
  <2> DEFINE n == [l EXCEPT !.ids = {}]
  <2>1. n \in Call /\ n.start = 0
    BY <1>1 DEF Call
  <2>2. pend(n, "pending") \in Call /\ Placed(pend(n, "pending"))
        /\ pend(n, "pending").refill # "legacy"
    BY <1>2, <2>1
  <2>3. Step(c, Paging(l)) \/ Step(c, pend(n, "pending"))
    BY <1>6 DEF Compare, l
  <2> QED
    BY <1>1, <1>3, <2>2, <2>3, AsideKeeps DEF l
<1> QED
  BY <1>4, <1>5, <1>6

LEMMA ScanKeeps ==
  ASSUME IInv, NEW c \in Calls, Scan(c)
  PROVE  IInv'
<1> USE DEF IInv
<1> DEFINE l == call[c]
           next == [l EXCEPT !.pc = "drop", !.scopes = {s \in @ : ranked[s] # {}}]
<1>1. l \in Call /\ l.pc = "scan" /\ Placed(l) /\ Step(c, next)
  BY DEF TypeOK, AllPlaced, Scan
<1>2. /\ next \in Call /\ next.pc = "drop" /\ next.refill = l.refill
      /\ next.start = l.start /\ next.scopes \subseteq l.scopes
  BY <1>1 DEF Call
<1> HIDE DEF next
<1>3. Placed(next)
  BY <1>1, <1>2 DEF Placed
<1>4. Carries(c, next)
  BY <1>1, <1>2 DEF Carries, Cover, Due, Step
<1> QED
  BY <1>1, <1>2, <1>3, <1>4, StepKeeps

LEMMA DropKeeps ==
  ASSUME IInv, NEW c \in Calls, Drop(c)
  PROVE  IInv'
<1> USE DEF IInv
<1> DEFINE l == call[c]
           next == IF l.refill = "none" THEN Paging(l)
                   ELSE [l EXCEPT !.pc = "ids", !.scopes = {}]
<1>1. l \in Call /\ l.pc = "drop" /\ Placed(l)
  BY DEF TypeOK, AllPlaced, Drop
<1>2. /\ ranked' = [s \in Scopes |-> IF s \in l.scopes THEN {} ELSE ranked[s]]
      /\ call' = [call EXCEPT ![c] = next]
      /\ UNCHANGED <<row, all, pending, review, rebuilt>>
  BY DEF Drop
<1>3. /\ next \in Call /\ Placed(next)
      /\ next.refill = "legacy" <=> l.refill = "legacy"
      /\ next.refill = "legacy" => next.pc = "ids" /\ next.start = 0
  <2>1. CASE l.refill = "none"
    BY <1>1, <2>1, PagingType
  <2>2. CASE l.refill # "none"
    <3>1. next = [l EXCEPT !.pc = "ids", !.scopes = {}]
      BY <2>2
    <3> QED
      BY <1>1, <3>1 DEF Call, Placed
  <2> QED
    BY <2>1, <2>2
<1> HIDE DEF next
<1>4. /\ ranked' \in [Scopes -> SUBSET Ids]
      /\ l.refill # "legacy" => /\ ranked'["all"] = ranked["all"]
                                /\ ranked'["reviewed"] = ranked["reviewed"]
  BY <1>1, <1>2 DEF TypeOK, Scopes, Placed
<1>5. Carries(c, next)
  <2>1. CASE l.refill = "legacy"
    <3>1. \A x \in Live : Ahead(x, 0)
      BY ListedIsAhead
    <3> QED
      BY <1>3, <2>1, <3>1 DEF Carries, Cover
  <2>2. CASE l.refill # "legacy"
    BY <1>2, <1>3, <1>4, <2>2 DEF Carries, Cover, Due
  <2> QED
    BY <2>1, <2>2
<1>6. /\ call' \in [Calls -> Call] /\ call'[c] = next
      /\ \A d \in Calls \ {c} : Same(call'[d], call[d])
      /\ rebuilt' \in BOOLEAN
  BY <1>2, <1>3 DEF TypeOK, Same
<1> QED
  BY <1>2, <1>3, <1>4, <1>5, <1>6, CallKeeps

LEMMA ReadIdsKeeps ==
  ASSUME IInv, NEW c \in Calls, ReadIds(c)
  PROVE  IInv'
<1> USE DEF IInv
<1> DEFINE l == call[c]
           batch == {all[i] : i \in {j \in DOMAIN all :
                                       Len(all) - j \in l.start..(l.start + Batch - 1)}}
           more == l.refill = "legacy" /\ Len(all) - l.start >= Batch
           next == [l EXCEPT !.pc = "rows", !.more = more,
                             !.ids = IF l.refill = "legacy" THEN batch ELSE pending]
<1>1. l \in Call /\ l.pc = "ids" /\ Placed(l) /\ l.start \in Nat
  BY DEF TypeOK, AllPlaced, ReadIds, Call
<1>2. Batch \in Nat \ {0}
  BY SweepIndexAssumption
<1>3. UNCHANGED <<row, all, pending, ranked, review>>
  BY DEF ReadIds
<1>4. Len(all) \in Nat /\ DOMAIN all = 1..Len(all) /\ Members(all) \subseteq Ids
  BY AllIsSeq
<1>5. \A x : Ahead(x, l.start) => x \in batch \/ (Ahead(x, l.start + Batch)
                                                /\ Len(all) - l.start >= Batch)
  <2> SUFFICES ASSUME NEW i \in DOMAIN all, Len(all) - i >= l.start
               PROVE  \/ all[i] \in batch
                      \/ Ahead(all[i], l.start + Batch) /\ Len(all) - l.start >= Batch
    BY DEF Ahead
  <2>1. CASE Len(all) - i <= l.start + Batch - 1
    BY <1>1, <1>2, <1>4, <2>1
  <2>2. CASE Len(all) - i > l.start + Batch - 1
    BY <1>1, <1>2, <1>4, <2>2 DEF Ahead
  <2> QED
    BY <1>1, <1>2, <1>4, <2>1, <2>2
<1>6. CASE l.refill = "legacy" /\ batch = {}
  <2>1. call' = [call EXCEPT ![c] = Paging(l)] /\ rebuilt' = TRUE
    BY <1>6 DEF ReadIds
  <2>2. Paging(l) \in Call /\ Placed(Paging(l)) /\ Paging(l).refill = "none"
    BY <1>1, PagingType
  <2>3. \A x : ~Ahead(x, l.start)
    <3> SUFFICES ASSUME NEW i \in DOMAIN all, Len(all) - i >= l.start PROVE FALSE
      BY DEF Ahead
    <3>1. Len(all) - l.start \in DOMAIN all
          /\ Len(all) - (Len(all) - l.start) \in l.start..(l.start + Batch - 1)
      BY <1>1, <1>2, <1>4
    <3>2. all[Len(all) - l.start] \in batch
      BY <3>1
    <3> QED
      BY <1>6, <3>2
  <2>4. Carries(c, Paging(l))
    BY <1>1, <1>3, <1>6, <2>2, <2>3 DEF Carries, Cover, Due
  <2>5. /\ call' \in [Calls -> Call] /\ call'[c] = Paging(l)
        /\ \A d \in Calls \ {c} : Same(call'[d], call[d])
        /\ ranked' \in [Scopes -> SUBSET Ids]
    BY <1>3, <2>1, <2>2 DEF TypeOK, Same
  <2> QED
    BY <1>3, <2>1, <2>2, <2>4, <2>5, CallKeeps
<1>7. CASE ~(l.refill = "legacy" /\ batch = {})
  <2>1. batch \subseteq Ids /\ pending \subseteq Ids
    BY <1>4 DEF Members, TypeOK
  <2> HIDE DEF batch
  <2>2. call' = [call EXCEPT ![c].pc = "rows",
                   ![c].ids = IF l.refill = "legacy" THEN batch ELSE pending,
                   ![c].more = more]
        /\ rebuilt' = rebuilt
    BY <1>7 DEF ReadIds, batch
  <2> HIDE DEF more
  <2>3. more \in BOOLEAN
    BY DEF more
  <2>4. call' = [call EXCEPT ![c] = next]
    BY <2>2 DEF TypeOK
  <2>5. /\ next \in Call /\ next.pc = "rows" /\ next.refill = l.refill
        /\ next.scopes = l.scopes /\ next.start = l.start /\ next.more = more
        /\ l.refill = "legacy" => next.ids = batch
    BY <1>1, <2>1, <2>3 DEF Call
  <2> HIDE DEF next
  <2>6. Step(c, next)
    BY <1>3, <2>2, <2>4 DEF Step
  <2>7. Placed(next)
    BY <1>1, <2>5 DEF Placed
  <2>8. Carries(c, next)
    <3>1. \A x : Cover(l, x, l.ids) \/ Cover(l, x, l.reviewed)
                   => Cover(next, x, next.ids) /\ Cover(next, x, next.reviewed)
      BY <1>1, <1>5, <2>5 DEF Cover, more
    <3>2. \A x \in Live : Cover(l, x, l.ids) => Cover(next, x, next.ids)
      BY <3>1
    <3>3. \A x \in InRow("reviewed") :
            Cover(l, x, l.reviewed) => Cover(next, x, next.reviewed)
      BY <3>1
    <3> QED
      BY <1>3, <2>2, <2>5, <3>2, <3>3 DEF Carries, Due
  <2> QED
    BY <2>5, <2>6, <2>7, <2>8, StepKeeps
<1> QED
  BY <1>6, <1>7

LEMMA ReadRowsKeeps ==
  ASSUME IInv, NEW c \in Calls, ReadRows(c)
  PROVE  IInv'
<1> USE DEF IInv
<1> DEFINE l == call[c]
           kept == IF l.refill = "legacy" THEN l.ids \cap InRow("reviewed") ELSE {}
           next == [l EXCEPT !.pc = "index", !.ids = @ \cap Live, !.reviewed = kept]
<1>1. l \in Call /\ l.pc = "rows" /\ Placed(l) /\ Step(c, next)
  BY DEF TypeOK, AllPlaced, ReadRows
<1>2. kept \in SUBSET Ids
  BY LiveAndReviewed
<1> HIDE DEF kept
<1>3. /\ next \in Call /\ next.pc = "index" /\ next.refill = l.refill
      /\ next.scopes = l.scopes /\ next.start = l.start /\ next.more = l.more
      /\ next.ids = l.ids \cap Live /\ next.reviewed = kept
  BY <1>1, <1>2 DEF Call
<1> HIDE DEF next
<1>4. Placed(next)
  BY <1>1, <1>3 DEF Placed
<1>5. Carries(c, next)
  <2>1. \A x \in Live : Cover(l, x, l.ids) => Cover(next, x, next.ids)
    BY <1>1, <1>3 DEF Cover
  <2>2. \A x \in InRow("reviewed") :
          Cover(l, x, l.reviewed) => Cover(next, x, next.reviewed)
    BY <1>1, <1>3 DEF Cover, kept
  <2> QED
    BY <1>1, <1>3, <2>1, <2>2 DEF Carries, Due, Step
<1> QED
  BY <1>1, <1>3, <1>4, <1>5, StepKeeps

LEMMA IndexKeeps ==
  ASSUME IInv, NEW c \in Calls, Index(c)
  PROVE  IInv'
<1> USE DEF IInv
<1> DEFINE l == call[c]
           next == IF l.more THEN [l EXCEPT !.pc = "ids", !.start = @ + Batch,
                                            !.ids = {}, !.reviewed = {},
                                            !.more = FALSE]
                   ELSE Paging(l)
<1>1. /\ l \in Call /\ l.pc = "index" /\ Placed(l) /\ l.start \in Nat
      /\ l.ids \subseteq Ids /\ l.reviewed \subseteq Ids
      /\ Batch \in Nat
  BY SweepIndexAssumption DEF TypeOK, AllPlaced, Index, Call
<1>2. /\ ranked' = Indexed(l)
      /\ call' = [call EXCEPT ![c] = next]
      /\ rebuilt' = (rebuilt \/ (l.refill = "legacy" /\ ~l.more))
      /\ UNCHANGED <<row, all, pending, review>>
  BY DEF Index
<1>3. /\ next \in Call /\ Placed(next)
      /\ next.refill = "legacy" => l.refill = "legacy"
      /\ l.more => /\ next.refill = l.refill /\ next.pc = "ids"
                   /\ next.start = l.start + Batch
  <2>1. CASE l.more
    <3>1. next = [l EXCEPT !.pc = "ids", !.start = @ + Batch, !.ids = {},
                           !.reviewed = {}, !.more = FALSE]
      BY <2>1
    <3>2. l.start + Batch \in Nat
      BY <1>1
    <3> QED
      BY <1>1, <3>1, <3>2 DEF Call, Placed
  <2>2. CASE ~l.more
    BY <1>1, <2>2, PagingType
  <2> QED
    BY <2>1, <2>2
<1> HIDE DEF next, l
<1>4. /\ ranked' \in [Scopes -> SUBSET Ids]
      /\ ranked["all"] \subseteq ranked'["all"]
      /\ ranked["reviewed"] \subseteq ranked'["reviewed"]
      /\ l.refill = "legacy" => /\ l.ids \subseteq ranked'["all"]
                                /\ l.reviewed \subseteq ranked'["reviewed"]
  BY <1>1, <1>2 DEF Indexed, TypeOK, Scopes
<1>5. Carries(c, next)
  <2>1. \A x \in Live : Cover(l, x, l.ids) =>
                          x \in ranked'["all"] \/ Cover(next, x, next.ids)
    BY <1>1, <1>3, <1>4 DEF Cover
  <2>2. \A x \in InRow("reviewed") : Cover(l, x, l.reviewed) =>
          x \in ranked'["reviewed"] \/ Cover(next, x, next.reviewed)
    BY <1>1, <1>3, <1>4 DEF Cover
  <2>3. (rebuilt' \/ next.refill = "legacy") => Due
    BY <1>2, <1>3 DEF Due, l
  <2> QED
    BY <1>4, <2>1, <2>2, <2>3 DEF Carries, l
<1>6. /\ call' \in [Calls -> Call] /\ call'[c] = next
      /\ \A d \in Calls \ {c} : Same(call'[d], call[d])
  BY <1>2, <1>3 DEF TypeOK, Same
<1>7. rebuilt' \in BOOLEAN /\ (rebuilt => rebuilt')
  BY <1>2 DEF TypeOK
<1> QED
  BY <1>2, <1>3, <1>4, <1>5, <1>6, <1>7, CallKeeps

LEMMA AnswerKeeps ==
  ASSUME IInv, NEW c \in Calls, Page(c) \/ Fetch(c)
  PROVE  IInv'
<1> USE DEF IInv
<1>1. /\ call[c] \in Call /\ Placed(call[c]) /\ call[c].pc \in {"page", "fetch"}
      /\ call[c].refill # "legacy" /\ call[c].scope \in Scopes
  BY DEF TypeOK, AllPlaced, Placed, Page, Fetch, Call
<1>2. CASE Page(c)
  <2> DEFINE next == [call[c] EXCEPT !.pc = "fetch", !.ids = ranked[call[c].scope]]
  <2>1. next \in Call /\ Placed(next) /\ next.refill # "legacy"
    BY <1>1, <1>2 DEF TypeOK, Call, Placed, Page
  <2>2. Step(c, next)
    BY <1>2 DEF Page
  <2> HIDE DEF next
  <2> QED
    BY <1>1, <2>1, <2>2, AsideKeeps
<1>3. CASE Fetch(c)
  BY <1>1, <1>3, IdleType, AsideKeeps DEF Fetch
<1> QED
  BY <1>2, <1>3

-----------------------------------------------------------------------------
(* The writers *)

LEMMA InsertKeeps ==
  ASSUME IInv, NEW x \in Ids, Insert(x)
  PROVE  IInv'
<1> USE DEF IInv
<1>1. /\ row[x] = "absent"
      /\ row' = [row EXCEPT ![x] = "pending"]
      /\ all' = Append(all, x) /\ pending' = pending \cup {x}
      /\ ranked' = [ranked EXCEPT !["all"] = @ \cup {x}, !["pending"] = @ \cup {x}]
      /\ UNCHANGED <<call, review, rebuilt>>
  BY DEF Insert, Listed, InRow
<1>2. /\ all' \in Seq(Ids) /\ Members(all') = Members(all) \cup {x}
  <2>1. /\ all' \in Seq(Ids) /\ Len(all') = Len(all) + 1
        /\ DOMAIN all' = 1..(Len(all) + 1)
        /\ all'[Len(all) + 1] = x
        /\ \A i \in 1..Len(all) : all'[i] = all[i]
    BY <1>1, AllIsSeq DEF TypeOK
  <2>2. Len(all) \in Nat /\ DOMAIN all = 1..Len(all)
    BY AllIsSeq
  <2>3. DOMAIN all' = DOMAIN all \cup {Len(all) + 1}
    BY <2>1, <2>2
  <2> QED
    BY <2>1, <2>2, <2>3 DEF Members
<1>3. /\ row' \in [Ids -> {"absent", "pending", "reviewed", "expired"}]
      /\ row'[x] = "pending"
      /\ \A y \in Ids \ {x} : row'[y] = row[y]
  BY <1>1 DEF TypeOK
<1>4. Live' = Live \cup {x} /\ InRow("reviewed")' = InRow("reviewed")
  BY <1>1, <1>3 DEF Live, InRow
<1>5. /\ ranked' \in [Scopes -> SUBSET Ids]
      /\ ranked'["all"] = ranked["all"] \cup {x}
      /\ ranked'["reviewed"] = ranked["reviewed"]
  BY <1>1 DEF TypeOK, Scopes
<1>6. TypeOK'
  BY <1>1, <1>2, <1>3, <1>5 DEF TypeOK
<1>7. AllListed' /\ AllPlaced'
  BY <1>1, <1>2, <1>4 DEF AllListed, AllPlaced
<1>8. ReadIsStored'
  BY <1>1, <1>3 DEF ReadIsStored, TypeOK
<1>9. Due' <=> Due
  BY <1>1 DEF Due
<1>10. \A y : \A c \in Calls : \A kept :
         Cover(call[c], y, kept) => Cover(call[c], y, kept)'
  <2>1. \A c \in Calls : call[c].start \in Nat /\ call[c].start + Batch \in Nat
    BY SweepIndexAssumption DEF TypeOK, Call
  <2>2. \A y : \A k \in Nat : Ahead(y, k) => Ahead(y, k)'
    BY <1>1, AheadStays
  <2> QED
    BY <1>1, <2>1, <2>2 DEF Cover
<1>11. AllOwed'
  <2> SUFFICES ASSUME Due', NEW y \in Live', y \notin ranked'["all"]
               PROVE  \E c \in Calls : Cover(call[c], y, call[c].ids)'
    BY DEF AllOwed
  <2>1. PICK c \in Calls : Cover(call[c], y, call[c].ids)
    BY <1>4, <1>5, <1>9 DEF AllOwed
  <2>2. Cover(call[c], y, call[c].ids)'
    BY <1>1, <1>10, <2>1
  <2> QED
    BY <2>2
<1>12. ReviewedOwed'
  <2> SUFFICES ASSUME Due', NEW y \in InRow("reviewed"), y \notin ranked'["reviewed"]
               PROVE  \E c \in Calls : Cover(call[c], y, call[c].reviewed)'
    BY <1>4 DEF ReviewedOwed
  <2>1. PICK c \in Calls : Cover(call[c], y, call[c].reviewed)
    BY <1>5, <1>9 DEF ReviewedOwed
  <2>2. Cover(call[c], y, call[c].reviewed)'
    BY <1>1, <1>10, <2>1
  <2> QED
    BY <2>2
<1> QED
  BY <1>6, <1>7, <1>8, <1>11, <1>12

\* Rows change and the calls owe what they owed.
LEMMA RowsKeep ==
  ASSUME IInv, UNCHANGED <<all, rebuilt>>,
         row' \in [Ids -> {"absent", "pending", "reviewed", "expired"}],
         pending' \in SUBSET pending, ranked' \in [Scopes -> SUBSET Ids],
         review' \in [Reviewers -> Ids \cup {0}],
         call' \in [Calls -> Call], \A c \in Calls : Same(call'[c], call[c]),
         ReadIsStored', Live' \subseteq Live, ranked["all"] \subseteq ranked'["all"],
         ranked["reviewed"] \subseteq ranked'["reviewed"],
         InRow("reviewed")' \subseteq InRow("reviewed") \cup ranked'["reviewed"]
  PROVE  IInv'
<1> USE DEF IInv
<1>1. TypeOK'
  BY DEF TypeOK
<1>2. AllListed' /\ AllPlaced'
  BY DEF AllListed, AllPlaced, Placed, Same, Members
<1>3. Due' <=> Due
  BY DEF Due, Same
<1>4. \A y : \A c \in Calls :
        /\ Cover(call[c], y, call[c].ids) => Cover(call[c], y, call[c].ids)'
        /\ Cover(call[c], y, call[c].reviewed)
             => Cover(call[c], y, call[c].reviewed)'
  <2>1. \A y, k : Ahead(y, k)' <=> Ahead(y, k)
    BY DEF Ahead
  <2> QED
    BY <2>1 DEF Cover, Same
<1>5. AllOwed'
  BY <1>3, <1>4 DEF AllOwed
<1>6. ReviewedOwed'
  BY <1>3, <1>4 DEF ReviewedOwed
<1> QED
  BY <1>1, <1>2, <1>5, <1>6

LEMMA ExpireKeeps ==
  ASSUME IInv, NEW x \in Ids, Expire(x)
  PROVE  IInv'
<1> USE DEF IInv
<1>1. /\ row' = [row EXCEPT ![x] = "expired"]
      /\ UNCHANGED <<all, pending, ranked, call, review, rebuilt>>
  BY DEF Expire
<1>2. /\ row' \in [Ids -> {"absent", "pending", "reviewed", "expired"}]
      /\ row'[x] = "expired"
      /\ \A y \in Ids \ {x} : row'[y] = row[y]
  BY <1>1 DEF TypeOK
<1>3. Live' \subseteq Live /\ InRow("reviewed")' \subseteq InRow("reviewed")
  BY <1>2 DEF Live, InRow
<1>4. ReadIsStored'
  BY <1>1, <1>2 DEF ReadIsStored, TypeOK
<1>5. \A c \in Calls : Same(call'[c], call[c])
  BY <1>1 DEF Same
<1> QED
  BY <1>1, <1>2, <1>3, <1>4, <1>5, RowsKeep DEF TypeOK

LEMMA ReviewReadKeeps ==
  ASSUME IInv, NEW r \in Reviewers, NEW x \in Ids, ReviewRead(r, x)
  PROVE  IInv'
<1> USE DEF IInv
<1>1. /\ x \in Live /\ review' = [review EXCEPT ![r] = x]
      /\ UNCHANGED <<row, all, pending, ranked, call, rebuilt>>
  BY DEF ReviewRead
<1>2. review' \in [Reviewers -> Ids \cup {0}] /\ ReadIsStored'
  BY <1>1 DEF ReadIsStored, TypeOK, Live
<1>3. Live' = Live /\ InRow("reviewed")' = InRow("reviewed")
  BY <1>1 DEF Live, InRow
<1>4. \A c \in Calls : Same(call'[c], call[c])
  BY <1>1 DEF Same
<1> QED
  BY <1>1, <1>2, <1>3, <1>4, RowsKeep DEF TypeOK

LEMMA ReviewWriteKeeps ==
  ASSUME IInv, NEW r \in Reviewers, ReviewWrite(r)
  PROVE  IInv'
<1> USE DEF IInv
<1> DEFINE x == review[r]
<1>1. /\ x # 0
      /\ row' = [row EXCEPT ![x] = IF @ = "expired" THEN @ ELSE "reviewed"]
      /\ pending' = pending \ {x}
      /\ ranked' = [ranked EXCEPT !["pending"] = @ \ {x},
                                  !["reviewed"] = @ \cup {x}]
      /\ review' = [review EXCEPT ![r] = 0]
      /\ call' = [c \in Calls |-> IF x \in pending \/ call[c].pc = "idle"
                                  THEN call[c] ELSE Unsure(call[c])]
      /\ UNCHANGED <<all, rebuilt>>
  BY DEF ReviewWrite, Unindexed
<1>2. x \in Ids /\ row[x] \in {"pending", "reviewed", "expired"}
  BY <1>1 DEF TypeOK, ReadIsStored
<1> HIDE DEF x
<1>3. /\ row' \in [Ids -> {"absent", "pending", "reviewed", "expired"}]
      /\ row'[x] = IF row[x] = "expired" THEN "expired" ELSE "reviewed"
      /\ \A y \in Ids \ {x} : row'[y] = row[y]
  BY <1>1, <1>2 DEF TypeOK
<1>4. /\ ranked' \in [Scopes -> SUBSET Ids]
      /\ ranked'["all"] = ranked["all"]
      /\ ranked'["reviewed"] = ranked["reviewed"] \cup {x}
  BY <1>1, <1>2 DEF TypeOK, Scopes
<1>5. /\ Live' \subseteq Live
      /\ InRow("reviewed")' \subseteq InRow("reviewed") \cup ranked'["reviewed"]
  BY <1>2, <1>3, <1>4 DEF Live, InRow
<1>6. review' \in [Reviewers -> Ids \cup {0}] /\ ReadIsStored'
  BY <1>1, <1>2, <1>3 DEF ReadIsStored, TypeOK
<1>7. call' \in [Calls -> Call] /\ \A c \in Calls : Same(call'[c], call[c])
  <2>1. \A c \in Calls : /\ call[c] \in Call /\ Unsure(call[c]) \in Call
                         /\ Same(Unsure(call[c]), call[c])
    BY UnsureType DEF TypeOK, Same
  <2> QED
    BY <1>1, <2>1 DEF Same
<1> QED
  BY <1>1, <1>3, <1>4, <1>5, <1>6, <1>7, RowsKeep

-----------------------------------------------------------------------------
(* Theorems *)

LEMMA InitIInv == Init => IInv
<1> SUFFICES ASSUME Init PROVE IInv
  OBVIOUS
<1>1. /\ Legacy \subseteq Ids /\ Cardinality(Legacy) \in Nat
  BY SweepIndexAssumption, FS_Subset, FS_CardinalityType
<1>2. /\ all \in [1..Cardinality(Legacy) -> Legacy] /\ Members(all) = Legacy
  BY DEF Init, LegacyOrders
<1>3. all \in Seq(Ids)
  BY <1>1, <1>2
<1>4. /\ row \in [Ids -> {"absent", "pending", "reviewed", "expired"}]
      /\ Live \subseteq Legacy
  BY DEF Init, Live
<1>5. pending \subseteq Members(all)
  BY <1>2, <1>4, LiveAndReviewed DEF Init
<1>6. /\ call \in [Calls -> Call]
      /\ \A c \in Calls : Placed(call[c]) /\ call[c].refill = "none"
  BY IdleType DEF Init
<1>7. TypeOK
  BY <1>3, <1>4, <1>5, <1>6 DEF Init, TypeOK
<1>8. AllListed /\ ReadIsStored /\ AllPlaced
  BY <1>2, <1>4, <1>6 DEF Init, AllListed, ReadIsStored, AllPlaced
<1>9. Due => Live = {}
  BY <1>4, <1>6 DEF Init, Due
<1>10. AllOwed /\ ReviewedOwed
  BY <1>9, LiveAndReviewed DEF AllOwed, ReviewedOwed
<1> QED
  BY <1>7, <1>8, <1>10 DEF IInv

LEMMA StutterKeeps ==
  ASSUME IInv, UNCHANGED vars
  PROVE  IInv'
<1>1. UNCHANGED <<row, all, pending, ranked, call, review, rebuilt>>
  BY DEF vars
<1>2. Live' = Live /\ InRow("reviewed")' = InRow("reviewed") /\ ReadIsStored'
  BY <1>1 DEF Live, InRow, IInv, ReadIsStored
<1>3. \A c \in Calls : Same(call'[c], call[c])
  BY <1>1 DEF Same
<1> QED
  BY <1>1, <1>2, <1>3, RowsKeep DEF IInv, TypeOK

LEMMA NextIInv == IInv /\ [Next]_vars => IInv'
<1> SUFFICES ASSUME IInv, [Next]_vars PROVE IInv'
  OBVIOUS
<1>1. ASSUME NEW x \in Ids, Insert(x) \/ Expire(x) PROVE IInv'
  BY <1>1, InsertKeeps, ExpireKeeps
<1>2. ASSUME NEW r \in Reviewers, NEW x \in Ids, ReviewRead(r, x) PROVE IInv'
  BY <1>2, ReviewReadKeeps
<1>3. ASSUME NEW r \in Reviewers, ReviewWrite(r) PROVE IInv'
  BY <1>3, ReviewWriteKeeps
<1>4. ASSUME NEW c \in Calls, NEW s \in Asked, Begin(c, s) PROVE IInv'
  BY <1>4, BeginKeeps, SweepIndexAssumption DEF Scopes
<1>5. ASSUME NEW c \in Calls, Advance(c) PROVE IInv'
  BY <1>5, CheckKeeps, ScanKeeps, DropKeeps, ReadIdsKeeps, ReadRowsKeeps,
     IndexKeeps, AnswerKeeps DEF Advance
<1>6. CASE UNCHANGED vars
  BY <1>6, StutterKeeps
<1> QED
  BY <1>1, <1>2, <1>3, <1>4, <1>5, <1>6 DEF Next

LEMMA Invariance == Spec => []IInv
BY InitIInv, NextIInv, PTL DEF Spec

\* Indexes and calls keep their types; in particular a pending id is always
\* among the listed ones a rebuild would find.
THEOREM IndexTypeCorrect == Spec => []TypeOK
<1>1. IInv => TypeOK
  BY DEF IInv
<1> QED
  BY <1>1, Invariance, PTL

\* However many listings rebuild at once, delete what another has filled, and
\* read while rows are inserted, reviewed and expire: when the last of them has
\* ended, no row is missing from the index of all rows or the reviewed ones.
THEOREM RebuildsLoseNothing == Spec => []RebuiltIndexIsWhole
<1>1. IInv => RebuiltIndexIsWhole
  <2> SUFFICES ASSUME IInv, rebuilt, \A c \in Calls : call[c].pc = "idle"
               PROVE  /\ Live \subseteq ranked["all"]
                      /\ InRow("reviewed") \subseteq ranked["reviewed"]
    BY DEF RebuiltIndexIsWhole
  <2>1. \A c \in Calls : \A x, kept : ~Cover(call[c], x, kept)
    BY DEF Cover
  <2> QED
    BY <2>1 DEF IInv, AllOwed, ReviewedOwed, Due
<1> QED
  BY <1>1, Invariance, PTL

-----------------------------------------------------------------------------
(* A listing that overlaps no other *)

\* Where the pending index stands to the set of the pending ids when their sizes
\* were found equal: reviews take ids out of both, inserts put ids into both.
Balanced ==
  Cardinality(pending \ ranked["pending"]) <= Cardinality(ranked["pending"] \ pending)

Wanted(l) == l.since \cap InRow("pending")

\* What the listing has made sure of, by the place it is in.
Good(l) ==
  /\ l.pc = "sample" => Balanced
  /\ l.pc = "members" => Balanced /\ ranked["pending"] \ pending \subseteq l.ids
  /\ (l.pc \in {"scan", "drop"} /\ l.refill = "none") => Wanted(l) = {}
  /\ (l.pc \in {"rows", "index"} /\ l.refill = "pending") => Wanted(l) \subseteq l.ids
  /\ l.refill = "legacy" => \A x \in Wanted(l) : \/ x \in ranked["pending"]
                                                \/ Cover(l, x, l.ids \ l.reviewed)
  /\ l.pc = "page" => Wanted(l) \subseteq ranked["pending"]
  /\ l.pc = "fetch" => Wanted(l) \subseteq l.ids

Lone(l) == l.pc # "idle" /\ l.scope = "pending" /\ l.sure

Stored == {x \in Ids : row[x] # "absent"}

OnlyStored ==
  /\ pending \subseteq Stored /\ ranked["pending"] \subseteq Stored
  /\ \A c \in Calls : /\ call[c].since \subseteq Stored
                      /\ call[c].pc = "index" => call[c].ids \subseteq Stored

PendingIsListed == InRow("pending") \subseteq pending

Alone ==
  \A c \in Calls : (call[c].pc # "idle" /\ call[c].sure)
                     => \A d \in Calls \ {c} : call[d].pc = "idle"

LoneIsGood == \A c \in Calls : Lone(call[c]) => Good(call[c])

\* A call that fills an index knows from what, and only a rebuild has batches.
Fills(l) ==
  /\ l.pc \in {"ids", "rows", "index"} => l.refill # "none"
  /\ l.pc \in {"rows", "index"} => (l.more => l.refill = "legacy")

AllFill == \A c \in Calls : Fills(call[c])

JInv == OnlyStored /\ PendingIsListed /\ AllFill /\ Alone /\ LoneIsGood

LEMMA PendingFinite ==
  ASSUME TypeOK
  PROVE  IsFiniteSet(pending) /\ IsFiniteSet(ranked["pending"])
<1>1. pending \subseteq Ids /\ ranked["pending"] \subseteq Ids
  BY AllIsSeq DEF TypeOK, Scopes
<1> QED
  BY <1>1, SweepIndexAssumption, FS_Subset

\* The sizes agree: neither set has more of its own than the other.
LEMMA EqualIsBalanced ==
  ASSUME TypeOK, Cardinality(ranked["pending"]) = Cardinality(pending)
  PROVE  Balanced
<1> DEFINE P == pending
           R == ranked["pending"]
<1>1. IsFiniteSet(P) /\ IsFiniteSet(R)
  BY PendingFinite
<1>2. /\ Cardinality(P \ R) = Cardinality(P) - Cardinality(P \cap R)
      /\ Cardinality(R \ P) = Cardinality(R) - Cardinality(R \cap P)
  BY <1>1, FS_Difference
<1>3. P \cap R = R \cap P
  OBVIOUS
<1>4. Cardinality(P) \in Nat /\ Cardinality(P \cap R) \in Nat
  BY <1>1, FS_Subset, FS_CardinalityType
<1> QED
  BY <1>2, <1>3, <1>4 DEF Balanced

\* With nothing of its own left in the index, the set has nothing of its own.
LEMMA BalancedIsCovered ==
  ASSUME TypeOK, Balanced, ranked["pending"] \subseteq pending
  PROVE  pending \subseteq ranked["pending"]
<1> DEFINE D == pending \ ranked["pending"]
<1>1. ranked["pending"] \ pending = {}
  OBVIOUS
<1>2. IsFiniteSet(D) /\ Cardinality(D) \in Nat
  BY PendingFinite, FS_Subset, FS_CardinalityType
<1>3. Cardinality(D) <= 0
  BY <1>1, FS_EmptySet DEF Balanced
<1>4. D = {}
  BY <1>2, <1>3, FS_EmptySet
<1> QED
  BY <1>4

\* The call that moves is the only one under way, or claims nothing.
LEMMA OwnStepKeeps ==
  ASSUME IInv, JInv, NEW c \in Calls, NEW next \in Call,
         UNCHANGED <<row, pending>>, ranked' \in [Scopes -> SUBSET Ids],
         call' = [call EXCEPT ![c] = next],
         call[c].pc # "idle",
         ranked'["pending"] \subseteq Stored,
         next.since \subseteq call[c].since, Fills(next),
         next.pc = "index" => next.ids \subseteq Stored,
         (next.pc # "idle" /\ next.sure) => call[c].sure,
         (Lone(call[c]) /\ Lone(next)) => Good(call[c])',
         Lone(next) => Lone(call[c])
  PROVE  JInv'
<1> USE DEF JInv
<1>1. /\ call'[c] = next
      /\ \A d \in Calls \ {c} : call'[d] = call[d]
  BY DEF IInv, TypeOK
<1>2. Stored' = Stored /\ InRow("pending")' = InRow("pending")
  BY DEF Stored, InRow
<1>3. OnlyStored'
  BY <1>1, <1>2 DEF OnlyStored
<1>4. PendingIsListed'
  BY <1>2 DEF PendingIsListed
<1>5. Alone' /\ AllFill'
  BY <1>1 DEF Alone, AllFill, Fills
<1>6. LoneIsGood'
  <2> SUFFICES ASSUME NEW d \in Calls, Lone(call'[d])
               PROVE  Good(call[d])'
    BY DEF LoneIsGood, Lone
  <2>1. CASE d = c
    BY <1>1, <2>1 DEF Good, Wanted, Cover, Balanced
  <2>2. CASE d # c
    BY <1>1, <2>2 DEF Lone, Alone
  <2> QED
    BY <2>1, <2>2
<1> QED
  BY <1>3, <1>4, <1>5, <1>6

\* A step of the call that writes nothing.
LEMMA OwnMoveKeeps ==
  ASSUME IInv, JInv, NEW c \in Calls, NEW next \in Call, Step(c, next),
         call[c].pc # "idle", next.since \subseteq call[c].since, Fills(next),
         next.pc = "index" => next.ids \subseteq Stored,
         (next.pc # "idle" /\ next.sure) => call[c].sure,
         Lone(next) => Lone(call[c]),
         (Lone(call[c]) /\ Lone(next)) => Good(next)
  PROVE  JInv'
<1>1. /\ UNCHANGED <<row, all, pending, ranked, review, rebuilt>>
      /\ call' = [call EXCEPT ![c] = next]
  BY DEF Step
<1>2. ranked' \in [Scopes -> SUBSET Ids] /\ ranked'["pending"] \subseteq Stored
  BY <1>1 DEF IInv, TypeOK, JInv, OnlyStored
<1>3. call'[c] = next
  BY <1>1 DEF IInv, TypeOK
<1>4. Good(next) => Good(call[c])'
  BY <1>1, <1>3 DEF Good, Wanted, InRow, Cover, Ahead, Balanced
<1> QED
  BY <1>1, <1>2, <1>4, OwnStepKeeps

\* What paging and a deletion remember of the call.
LEMMA PagingKeeps ==
  ASSUME NEW l \in Call
  PROVE  LET n == Paging(l) IN
           /\ n.pc = "page" /\ n.scope = l.scope /\ n.since = l.since
           /\ n.sure = l.sure /\ n.refill = "none"
BY DEF Paging, Idle, Call

LEMMA DroppingKeeps ==
  ASSUME NEW l \in Call, NEW scopes, NEW from
  PROVE  LET n == Dropping(l, scopes, from) IN
           /\ n.pc = "scan" /\ n.refill = from /\ n.scope = l.scope
           /\ n.since = l.since /\ n.sure = l.sure
BY DEF Dropping, Call

LEMMA LoneBegin ==
  ASSUME IInv, JInv, NEW c \in Calls, NEW s \in Scopes, Begin(c, s)
  PROVE  JInv'
<1> USE DEF JInv
<1> DEFINE others == {d \in Calls \ {c} : call[d].pc # "idle"}
           since == IF others = {} THEN InRow("pending") ELSE {}
           mine == [Idle EXCEPT !.scope = s, !.sure = (others = {}), !.since = since]
           next == Repaired(mine)
<1>1. /\ call' = [d \in Calls |-> IF d = c THEN next
                                  ELSE IF d \in others THEN Unsure(call[d])
                                  ELSE call[d]]
      /\ UNCHANGED <<row, all, pending, ranked, review, rebuilt>>
  BY DEF Begin
<1>2. /\ mine \in Call /\ mine.scope = s /\ mine.sure = (others = {})
      /\ mine.since = since
  BY LiveAndReviewed DEF Idle, Call, Scopes
<1>3. since \subseteq Stored
  BY DEF InRow, Stored
<1> HIDE DEF mine, since
<1>4. /\ next.since = since /\ next.scope = s /\ next.sure = (others = {})
      /\ next.pc \in {"scan", "counts", "page"}
      /\ next.pc = "page" => s # "pending"
      /\ next.pc = "scan" => next.refill = "legacy"
      /\ next.pc = "counts" => next.refill # "legacy"
  <2>1. CASE ranked["all"] = {} /\ all # <<>>
    BY <1>2, <2>1, DroppingKeeps DEF Repaired
  <2>2. CASE ~(ranked["all"] = {} /\ all # <<>>) /\ s = "pending"
    <3>1. next = [mine EXCEPT !.pc = "counts"]
      BY <1>2, <2>2 DEF Repaired
    <3>2. mine.refill = "none"
      BY DEF mine, Idle
    <3> QED
      BY <1>2, <2>2, <3>1, <3>2 DEF Call
  <2>3. CASE ~(ranked["all"] = {} /\ all # <<>>) /\ s # "pending"
    BY <1>2, <2>3, PagingKeeps DEF Repaired
  <2> QED
    BY <2>1, <2>2, <2>3
<1> HIDE DEF next
<1>5. \A d \in others : /\ Unsure(call[d]).sure = FALSE
                        /\ Unsure(call[d]).since = {}
                        /\ Unsure(call[d]).pc = call[d].pc
                        /\ Unsure(call[d]).ids = call[d].ids
  BY DEF Unsure, IInv, TypeOK, Call
<1>6. /\ call'[c] = next
      /\ \A d \in others : call'[d] = Unsure(call[d])
      /\ \A d \in Calls \ {c} : d \notin others => call'[d] = call[d] /\ call[d].pc = "idle"
  BY <1>1
<1>7. Stored' = Stored /\ InRow("pending")' = InRow("pending")
  BY <1>1 DEF Stored, InRow
<1>8. OnlyStored' /\ AllFill'
  <2>1. OnlyStored'
    BY <1>1, <1>3, <1>4, <1>5, <1>6, <1>7 DEF OnlyStored
  <2>2. Fills(next)
    BY <1>4 DEF Fills
  <2>3. \A d \in others : Fills(Unsure(call[d]))
    BY UnsureType DEF IInv, TypeOK, AllFill, Fills
  <2>4. \A d \in Calls : Fills(call'[d])
    BY <1>6, <2>2, <2>3 DEF AllFill
  <2> QED
    BY <2>1, <2>4 DEF AllFill, Fills
<1>9. PendingIsListed'
  BY <1>1, <1>7 DEF PendingIsListed
<1>10. Alone'
  <2> SUFFICES ASSUME NEW d \in Calls, call'[d].pc # "idle", call'[d].sure,
                      NEW e \in Calls \ {d}
               PROVE  call'[e].pc = "idle"
    BY DEF Alone
  <2>1. d = c
    <3>1. CASE d \in others
      BY <1>5, <1>6, <3>1
    <3>2. CASE d \notin others /\ d # c
      BY <1>6, <3>2
    <3> QED
      BY <3>1, <3>2
  <2>2. others = {}
    BY <1>4, <1>6, <2>1
  <2> QED
    BY <1>6, <2>1, <2>2
<1>11. LoneIsGood'
  <2> SUFFICES ASSUME NEW d \in Calls, Lone(call'[d])
               PROVE  Good(call[d])'
    BY DEF LoneIsGood, Lone
  <2>1. d = c
    BY <1>5, <1>6 DEF Lone
  <2>2. next.scope = "pending" /\ next.pc \in {"scan", "counts"}
    BY <1>4, <1>6, <2>1 DEF Lone
  <2> QED
    BY <1>4, <1>6, <2>1, <2>2 DEF Good, Cover
<1> QED
  BY <1>8, <1>9, <1>10, <1>11

LEMMA LoneChecks ==
  ASSUME IInv, JInv, NEW c \in Calls, Counts(c) \/ Sample(c) \/ Compare(c)
  PROVE  JInv'
<1> DEFINE l == call[c]
           pend(m, from) == Dropping(m, {"pending"}, from)
<1>1. /\ l \in Call /\ l.pc \in {"counts", "sample", "members"}
      /\ l.refill # "legacy"
  BY DEF IInv, TypeOK, AllPlaced, Placed, Counts, Sample, Compare
<1>2. TypeOK /\ (Lone(l) => Good(l)) /\ PendingIsListed
  BY DEF IInv, JInv, LoneIsGood
<1>3. \A m \in Call : /\ pend(m, "pending") \in Call /\ pend(m, "none") \in Call
                      /\ Paging(m) \in Call
  BY DroppingType, PagingType DEF Scopes
<1>4. \A m \in Call : Good(pend(m, "pending"))
  BY DroppingKeeps DEF Good
<1>5. CASE Counts(c)
  <2>1. CASE pending = {}
    <3> DEFINE n == pend(l, "none")
    <3>1. /\ n.pc = "scan" /\ n.refill = "none" /\ n.scope = l.scope
          /\ n.since = l.since /\ n.sure = l.sure
      BY <1>1, DroppingKeeps
    <3>2. Wanted(n) = {}
      BY <1>2, <2>1 DEF Wanted, PendingIsListed
    <3>3. Good(n)
      BY <3>1, <3>2 DEF Good
    <3>4. Step(c, n) /\ n \in Call
      BY <1>1, <1>3, <1>5, <2>1 DEF Counts, Counted
    <3> HIDE DEF n
    <3> QED
      BY <1>1, <3>1, <3>3, <3>4, OwnMoveKeeps DEF Lone, Fills
  <2>2. CASE pending # {} /\ Cardinality(ranked["pending"]) = Cardinality(pending)
    <3> DEFINE n == [l EXCEPT !.pc = "sample"]
    <3>1. /\ n \in Call /\ n.pc = "sample" /\ n.scope = l.scope /\ n.since = l.since
          /\ n.sure = l.sure /\ n.refill = l.refill
      BY <1>1 DEF Call
    <3>2. Good(n)
      BY <1>1, <1>2, <2>2, <3>1, EqualIsBalanced DEF Good
    <3>3. Step(c, n)
      BY <1>5, <2>2 DEF Counts, Counted
    <3> HIDE DEF n
    <3> QED
      BY <1>1, <3>1, <3>2, <3>3, OwnMoveKeeps DEF Lone, Fills
  <2>3. CASE pending # {} /\ Cardinality(ranked["pending"]) # Cardinality(pending)
    <3> DEFINE n == pend(l, "pending")
    <3>1. /\ n.pc = "scan" /\ n.scope = l.scope /\ n.since = l.since
          /\ n.sure = l.sure /\ n \in Call /\ Good(n)
      BY <1>1, <1>3, <1>4, DroppingKeeps
    <3>2. Step(c, n)
      BY <1>5, <2>3 DEF Counts, Counted
    <3> HIDE DEF n
    <3> QED
      BY <1>1, <3>1, <3>2, OwnMoveKeeps DEF Lone, Fills
  <2> QED
    BY <2>1, <2>2, <2>3
<1>6. CASE Sample(c)
  <2> DEFINE top == Top(ranked["pending"], SampleSize)
             n == [l EXCEPT !.pc = "members", !.ids = top]
             drop == pend(l, "pending")
  <2>1. top \in SUBSET Ids
    BY DEF Top, IInv, TypeOK, Scopes
  <2>2. \/ Step(c, drop)
        \/ top = ranked["pending"] /\ Step(c, n)
        \/ Step(c, Unsure(n))
    BY <1>6 DEF Sample
  <2> HIDE DEF top
  <2>3. /\ n \in Call /\ n.pc = "members" /\ n.scope = l.scope /\ n.since = l.since
        /\ n.sure = l.sure /\ n.refill = l.refill /\ n.ids = top
    BY <1>1, <2>1 DEF Call
  <2> HIDE DEF n
  <2>4. CASE Step(c, drop)
    <3>1. /\ drop.pc = "scan" /\ drop.scope = l.scope /\ drop.since = l.since
          /\ drop.sure = l.sure /\ drop \in Call /\ Good(drop)
      BY <1>1, <1>3, <1>4, DroppingKeeps
    <3> HIDE DEF drop
    <3> QED
      BY <1>1, <2>4, <3>1, OwnMoveKeeps DEF Lone, Fills
  <2>5. CASE top = ranked["pending"] /\ Step(c, n)
    <3>1. (Lone(l) /\ l.pc = "sample") => Good(n)
      BY <1>1, <1>2, <2>3, <2>5 DEF Good
    <3>2. l.pc = "sample"
      BY <1>6 DEF Sample
    <3> QED
      BY <1>1, <2>3, <2>5, <3>1, <3>2, OwnMoveKeeps DEF Lone, Fills
  <2>6. CASE Step(c, Unsure(n))
    <3>1. /\ Unsure(n) \in Call /\ Unsure(n).sure = FALSE /\ Unsure(n).since = {}
          /\ Unsure(n).pc = "members"
      BY <2>3 DEF Unsure, Call
    <3> QED
      BY <1>1, <2>6, <3>1, OwnMoveKeeps DEF Lone, Fills
  <2> QED
    BY <2>2, <2>4, <2>5, <2>6
<1>7. CASE Compare(c)
  <2>1. CASE l.ids \subseteq pending
    <3> DEFINE n == Paging(l)
    <3>1. /\ n.pc = "page" /\ n.scope = l.scope /\ n.since = l.since
          /\ n.sure = l.sure /\ n.refill = "none" /\ n \in Call
      BY <1>1, <1>3, PagingKeeps
    <3>2. Step(c, n) /\ l.pc = "members"
      BY <1>7, <2>1 DEF Compare
    <3> HIDE DEF n
    <3>3. Lone(l) => Good(n)
      <4> SUFFICES ASSUME Lone(l) PROVE Wanted(n) \subseteq ranked["pending"]
        BY <3>1 DEF Good
      <4>1. Balanced /\ ranked["pending"] \ pending \subseteq l.ids
        BY <1>2, <3>2 DEF Good
      <4>2. pending \subseteq ranked["pending"]
        BY <1>2, <2>1, <4>1, BalancedIsCovered
      <4> QED
        BY <1>2, <4>2 DEF Wanted, PendingIsListed
    <3> QED
      BY <1>1, <3>1, <3>2, <3>3, OwnMoveKeeps DEF Lone, Fills
  <2>2. CASE ~(l.ids \subseteq pending)
    <3> DEFINE m == [l EXCEPT !.ids = {}]
               n == pend(m, "pending")
    <3>1. m \in Call /\ m.scope = l.scope /\ m.since = l.since /\ m.sure = l.sure
      BY <1>1 DEF Call
    <3>2. Step(c, n)
      BY <1>7, <2>2 DEF Compare
    <3> HIDE DEF m
    <3>3. /\ n.pc = "scan" /\ n.scope = l.scope /\ n.since = l.since
          /\ n.sure = l.sure /\ n \in Call /\ Good(n)
      BY <1>3, <1>4, <3>1, DroppingKeeps
    <3> HIDE DEF n
    <3> QED
      BY <1>1, <3>2, <3>3, OwnMoveKeeps DEF Lone, Fills
  <2> QED
    BY <2>1, <2>2
<1> QED
  BY <1>5, <1>6, <1>7

\* Listing, deleting and refilling.
LEMMA LoneScan ==
  ASSUME IInv, JInv, NEW c \in Calls, Scan(c)
  PROVE  JInv'
<1> DEFINE l == call[c]
           n == [l EXCEPT !.pc = "drop", !.scopes = {s \in @ : ranked[s] # {}}]
<1>1. /\ l \in Call /\ l.pc = "scan" /\ Step(c, n)
      /\ Lone(l) => Good(l)
  BY DEF IInv, TypeOK, Scan, JInv, LoneIsGood
<1>2. /\ n \in Call /\ n.pc = "drop" /\ n.scope = l.scope /\ n.since = l.since
      /\ n.sure = l.sure /\ n.refill = l.refill
  BY <1>1 DEF Call
<1> HIDE DEF n
<1>3. Lone(l) => Good(n)
  BY <1>1, <1>2 DEF Good, Wanted, Cover
<1> QED
  BY <1>1, <1>2, <1>3, OwnMoveKeeps DEF Lone, Fills

LEMMA LoneDrop ==
  ASSUME IInv, JInv, NEW c \in Calls, Drop(c)
  PROVE  JInv'
<1> USE DEF JInv
<1> DEFINE l == call[c]
           next == IF l.refill = "none" THEN Paging(l)
                   ELSE [l EXCEPT !.pc = "ids", !.scopes = {}]
<1>1. /\ l \in Call /\ l.pc = "drop" /\ Placed(l)
      /\ Lone(l) => Good(l)
  BY DEF IInv, TypeOK, AllPlaced, Drop, LoneIsGood
<1>2. /\ ranked' = [s \in Scopes |-> IF s \in l.scopes THEN {} ELSE ranked[s]]
      /\ call' = [call EXCEPT ![c] = next]
      /\ UNCHANGED <<row, all, pending, review, rebuilt>>
  BY DEF Drop
<1>3. /\ next \in Call /\ next.scope = l.scope /\ next.since = l.since
      /\ next.sure = l.sure /\ next.refill = l.refill
      /\ next.pc = IF l.refill = "none" THEN "page" ELSE "ids"
      /\ next.refill = "legacy" => next.start = 0
  <2>1. CASE l.refill = "none"
    BY <1>1, <2>1, PagingType, PagingKeeps
  <2>2. CASE l.refill # "none"
    <3>1. next = [l EXCEPT !.pc = "ids", !.scopes = {}]
      BY <2>2
    <3> QED
      BY <1>1, <2>2, <3>1 DEF Call, Placed
  <2> QED
    BY <2>1, <2>2
<1>6. call'[c] = next
  BY <1>2 DEF IInv, TypeOK
<1> HIDE DEF next
<1>4. /\ ranked' \in [Scopes -> SUBSET Ids]
      /\ ranked'["pending"] \subseteq Stored
  BY <1>2 DEF IInv, TypeOK, Scopes, OnlyStored
<1>5. Lone(l) => Good(call[c])'
  <2> SUFFICES ASSUME Lone(l) PROVE Good(call[c])'
    OBVIOUS
  <2>1. CASE l.refill = "none"
    <3>1. Wanted(l) = {}
      BY <1>1, <2>1 DEF Good
    <3>2. Wanted(call[c])' = {}
      BY <1>2, <1>3, <1>6, <3>1 DEF Wanted, InRow
    <3> QED
      BY <1>3, <1>6, <2>1, <3>2 DEF Good
  <2>2. CASE l.refill = "pending"
    BY <1>3, <1>6, <2>2 DEF Good
  <2>3. CASE l.refill = "legacy"
    <3>1. \A x \in InRow("pending") : Ahead(x, 0)
      BY LiveAndReviewed, ListedIsAhead DEF IInv
    <3>2. \A x \in Wanted(call[c])' : Ahead(x, 0)'
      BY <1>2, <3>1 DEF Wanted, InRow, Ahead
    <3> QED
      BY <1>3, <1>6, <2>3, <3>2 DEF Good, Cover
  <2> QED
    BY <1>1, <2>1, <2>2, <2>3 DEF Call
<1> QED
  BY <1>1, <1>2, <1>3, <1>4, <1>5, OwnStepKeeps DEF Lone, Fills

LEMMA LoneReadIds ==
  ASSUME IInv, JInv, NEW c \in Calls, ReadIds(c)
  PROVE  JInv'
<1> DEFINE l == call[c]
           batch == {all[i] : i \in {j \in DOMAIN all :
                                       Len(all) - j \in l.start..(l.start + Batch - 1)}}
           more == l.refill = "legacy" /\ Len(all) - l.start >= Batch
           next == [l EXCEPT !.pc = "rows", !.more = more,
                             !.ids = IF l.refill = "legacy" THEN batch ELSE pending]
<1>1. /\ l \in Call /\ l.pc = "ids" /\ l.start \in Nat /\ Fills(l)
      /\ Lone(l) => Good(l)
  BY DEF IInv, TypeOK, ReadIds, Call, JInv, AllFill, LoneIsGood
<1>2. Batch \in Nat \ {0}
  BY SweepIndexAssumption
<1>3. UNCHANGED <<row, all, pending, ranked, review>>
  BY DEF ReadIds
<1>4. Len(all) \in Nat /\ DOMAIN all = 1..Len(all) /\ Members(all) \subseteq Ids
  BY AllIsSeq DEF IInv
<1>5. \A x : Ahead(x, l.start) => x \in batch \/ (Ahead(x, l.start + Batch)
                                                /\ Len(all) - l.start >= Batch)
  <2> SUFFICES ASSUME NEW i \in DOMAIN all, Len(all) - i >= l.start
               PROVE  \/ all[i] \in batch
                      \/ Ahead(all[i], l.start + Batch) /\ Len(all) - l.start >= Batch
    BY DEF Ahead
  <2>1. CASE Len(all) - i <= l.start + Batch - 1
    BY <1>1, <1>2, <1>4, <2>1
  <2>2. CASE Len(all) - i > l.start + Batch - 1
    BY <1>1, <1>2, <1>4, <2>2 DEF Ahead
  <2> QED
    BY <1>1, <1>2, <1>4, <2>1, <2>2
<1>6. ranked' \in [Scopes -> SUBSET Ids] /\ ranked'["pending"] \subseteq Stored
  BY <1>3 DEF IInv, TypeOK, JInv, OnlyStored
<1>7. CASE l.refill = "legacy" /\ batch = {}
  <2> DEFINE n == Paging(l)
  <2>1. call' = [call EXCEPT ![c] = n]
    BY <1>7 DEF ReadIds
  <2>2. /\ n \in Call /\ n.pc = "page" /\ n.scope = l.scope /\ n.since = l.since
        /\ n.sure = l.sure /\ n.refill = "none"
    BY <1>1, PagingType, PagingKeeps
  <2>7. call'[c] = n
    BY <2>1 DEF IInv, TypeOK
  <2> HIDE DEF n
  <2>3. \A x : ~Ahead(x, l.start)
    <3> SUFFICES ASSUME NEW i \in DOMAIN all, Len(all) - i >= l.start PROVE FALSE
      BY DEF Ahead
    <3>1. Len(all) - l.start \in DOMAIN all
          /\ Len(all) - (Len(all) - l.start) \in l.start..(l.start + Batch - 1)
      BY <1>1, <1>2, <1>4
    <3>2. all[Len(all) - l.start] \in batch
      BY <3>1
    <3> QED
      BY <1>7, <3>2
  <2>4. Lone(l) => Wanted(l) \subseteq ranked["pending"]
    BY <1>1, <1>7, <2>3 DEF Good, Cover
  <2>5. Lone(l) => Wanted(call[c])' \subseteq ranked'["pending"]
    BY <1>3, <2>2, <2>4, <2>7 DEF Wanted, InRow
  <2>6. Lone(l) => Good(call[c])'
    BY <2>2, <2>5, <2>7 DEF Good
  <2> QED
    BY <1>1, <1>3, <1>6, <2>1, <2>2, <2>6, OwnStepKeeps DEF Lone, Fills
<1>8. CASE ~(l.refill = "legacy" /\ batch = {})
  <2>1. batch \subseteq Ids /\ pending \subseteq Ids
    BY <1>4 DEF Members, IInv, TypeOK
  <2> HIDE DEF batch
  <2>2. call' = [call EXCEPT ![c].pc = "rows",
                   ![c].ids = IF l.refill = "legacy" THEN batch ELSE pending,
                   ![c].more = more]
    BY <1>8 DEF ReadIds, batch
  <2> HIDE DEF more
  <2>3. more \in BOOLEAN
    BY DEF more
  <2>4. call' = [call EXCEPT ![c] = next]
    BY <2>2 DEF IInv, TypeOK
  <2>5. /\ next \in Call /\ next.pc = "rows" /\ next.refill = l.refill
        /\ next.scope = l.scope /\ next.since = l.since /\ next.sure = l.sure
        /\ next.start = l.start /\ next.more = more /\ next.reviewed = l.reviewed
        /\ next.ids = IF l.refill = "legacy" THEN batch ELSE pending
    BY <1>1, <2>1, <2>3 DEF Call
  <2>8. call'[c] = next
    BY <2>4 DEF IInv, TypeOK
  <2> HIDE DEF next
  <2>6. Fills(next)
    BY <1>1, <2>5 DEF Fills, more
  <2>7. Lone(l) => Good(call[c])'
    <3> SUFFICES ASSUME Lone(l) PROVE Good(call[c])'
      OBVIOUS
    <3>1. Wanted(call[c])' = Wanted(l)
      BY <1>3, <2>5, <2>8 DEF Wanted, InRow
    <3>2. l.refill = "pending" => Wanted(l) \subseteq next.ids
      BY <2>5 DEF Wanted, JInv, PendingIsListed
    <3>3. l.refill = "legacy" =>
            \A x \in Wanted(l) : \/ x \in ranked["pending"]
                                 \/ x \in next.ids
                                 \/ next.more /\ Ahead(x, next.start + Batch)
      BY <1>1, <1>5, <2>5 DEF Good, Cover, more
    <3>4. \A x, k : Ahead(x, k)' <=> Ahead(x, k)
      BY <1>3 DEF Ahead
    <3> QED
      BY <1>3, <2>5, <2>8, <3>1, <3>2, <3>3, <3>4 DEF Good, Cover
  <2> QED
    BY <1>1, <1>3, <1>6, <2>4, <2>5, <2>6, <2>7, OwnStepKeeps DEF Lone
<1> QED
  BY <1>7, <1>8

LEMMA LoneReadRows ==
  ASSUME IInv, JInv, NEW c \in Calls, ReadRows(c)
  PROVE  JInv'
<1> DEFINE l == call[c]
           kept == IF l.refill = "legacy" THEN l.ids \cap InRow("reviewed") ELSE {}
           n == [l EXCEPT !.pc = "index", !.ids = @ \cap Live, !.reviewed = kept]
<1>1. /\ l \in Call /\ l.pc = "rows" /\ Step(c, n)
      /\ Lone(l) => Good(l)
      /\ Fills(l)
  BY DEF IInv, TypeOK, ReadRows, JInv, LoneIsGood, AllFill
<1>2. kept \in SUBSET Ids /\ kept \cap InRow("pending") = {}
  BY LiveAndReviewed DEF InRow
<1> HIDE DEF kept
<1>3. /\ n \in Call /\ n.pc = "index" /\ n.scope = l.scope /\ n.since = l.since
      /\ n.sure = l.sure /\ n.refill = l.refill /\ n.start = l.start
      /\ n.more = l.more /\ n.ids = l.ids \cap Live /\ n.reviewed = kept
  BY <1>1, <1>2 DEF Call
<1> HIDE DEF n
<1>4. n.ids \subseteq Stored
  BY <1>3 DEF Live, Stored
<1>5. Lone(l) => Good(n)
  <2> SUFFICES ASSUME Lone(l) PROVE Good(n)
    OBVIOUS
  <2>1. Wanted(n) = Wanted(l) /\ Wanted(l) \subseteq InRow("pending")
    BY <1>3 DEF Wanted
  <2>2. \A x \in Wanted(l) : x \in Live /\ x \notin kept
    BY <1>2, <2>1, LiveAndReviewed
  <2>3. l.refill = "pending" => Wanted(n) \subseteq n.ids
    BY <1>1, <1>3, <2>1, <2>2 DEF Good
  <2>4. l.refill = "legacy" =>
          \A x \in Wanted(n) : x \in ranked["pending"]
                                 \/ Cover(n, x, n.ids \ n.reviewed)
    BY <1>1, <1>3, <2>1, <2>2 DEF Good, Cover
  <2> QED
    BY <1>3, <2>3, <2>4 DEF Good
<1> QED
  BY <1>1, <1>3, <1>4, <1>5, OwnMoveKeeps DEF Lone, Fills

LEMMA LoneIndex ==
  ASSUME IInv, JInv, NEW c \in Calls, Index(c)
  PROVE  JInv'
<1> USE DEF JInv
<1> DEFINE l == call[c]
           next == IF l.more THEN [l EXCEPT !.pc = "ids", !.start = @ + Batch,
                                            !.ids = {}, !.reviewed = {},
                                            !.more = FALSE]
                   ELSE Paging(l)
<1>1. /\ l \in Call /\ l.pc = "index" /\ l.start \in Nat
      /\ l.ids \subseteq Ids /\ l.reviewed \subseteq Ids
      /\ Batch \in Nat
      /\ Lone(l) => Good(l)
  BY SweepIndexAssumption DEF IInv, TypeOK, Index, Call, LoneIsGood
<1>2. /\ ranked' = Indexed(l)
      /\ call' = [call EXCEPT ![c] = next]
      /\ UNCHANGED <<row, all, pending, review>>
      /\ l.ids \subseteq Stored
  BY <1>1 DEF Index, OnlyStored
<1>3. /\ next \in Call /\ next.scope = l.scope /\ next.since = l.since
      /\ next.sure = l.sure
      /\ l.more => /\ next.pc = "ids" /\ next.refill = l.refill
                   /\ next.start = l.start + Batch
      /\ ~l.more => next.pc = "page" /\ next.refill = "none"
  <2>1. CASE l.more
    <3>1. next = [l EXCEPT !.pc = "ids", !.start = @ + Batch, !.ids = {},
                           !.reviewed = {}, !.more = FALSE]
      BY <2>1
    <3>2. l.start + Batch \in Nat
      BY <1>1
    <3> QED
      BY <1>1, <2>1, <3>1, <3>2 DEF Call
  <2>2. CASE ~l.more
    BY <1>1, <2>2, PagingType, PagingKeeps
  <2> QED
    BY <2>1, <2>2
<1>8. call'[c] = next
  BY <1>2 DEF IInv, TypeOK
<1> HIDE DEF next, l
<1>4. /\ ranked' \in [Scopes -> SUBSET Ids]
      /\ ranked'["pending"] =
           ranked["pending"] \cup IF l.refill = "legacy" THEN l.ids \ l.reviewed
                                  ELSE l.ids
  BY <1>1, <1>2 DEF IInv, Indexed, TypeOK, Scopes
<1>5. ranked'["pending"] \subseteq Stored
  BY <1>2, <1>4 DEF OnlyStored
<1>6. (Lone(l) /\ (l.more => l.refill = "legacy") /\ l.refill # "none")
        => Good(call[c])'
  <2> SUFFICES ASSUME Lone(l), l.more => l.refill = "legacy", l.refill # "none"
               PROVE  Good(call[c])'
    OBVIOUS
  <2>1. Wanted(call[c])' = Wanted(l)
    BY <1>2, <1>3, <1>8 DEF Wanted, InRow
  <2>2. CASE l.refill = "pending"
    <3>1. Wanted(l) \subseteq ranked'["pending"]
      BY <1>1, <1>4, <2>2 DEF Good
    <3> QED
      BY <1>3, <1>8, <2>1, <2>2, <3>1 DEF Good
  <2>3. CASE l.refill = "legacy"
    <3>1. \A x \in Wanted(l) : \/ x \in ranked'["pending"]
                               \/ l.more /\ Ahead(x, l.start + Batch)
      BY <1>1, <1>4, <2>3 DEF Good, Cover
    <3>2. \A x, k : Ahead(x, k)' <=> Ahead(x, k)
      BY <1>2 DEF Ahead
    <3>3. CASE l.more
      BY <1>3, <1>8, <2>1, <2>3, <3>1, <3>2, <3>3 DEF Good, Cover
    <3>4. CASE ~l.more
      BY <1>3, <1>8, <2>1, <3>1, <3>4 DEF Good
    <3> QED
      BY <3>3, <3>4
  <2> QED
    BY <1>1, <2>2, <2>3 DEF Call
<1>7. (l.more => l.refill = "legacy") /\ l.refill # "none"
  BY <1>1 DEF AllFill, Fills, l
<1> QED
  BY <1>1, <1>2, <1>3, <1>4, <1>5, <1>6, <1>7, OwnStepKeeps DEF Lone, Fills, l

LEMMA LonePage ==
  ASSUME IInv, JInv, NEW c \in Calls, Page(c) \/ Fetch(c)
  PROVE  JInv'
<1> DEFINE l == call[c]
<1>1. /\ l \in Call /\ l.pc \in {"page", "fetch"} /\ l.refill # "legacy"
      /\ Lone(l) => Good(l)
  BY DEF IInv, TypeOK, AllPlaced, Placed, Page, Fetch, JInv, LoneIsGood
<1>2. CASE Page(c)
  <2> DEFINE n == [l EXCEPT !.pc = "fetch", !.ids = ranked[l.scope]]
  <2>1. Step(c, n) /\ l.pc = "page"
    BY <1>2 DEF Page
  <2>2. /\ n \in Call /\ n.pc = "fetch" /\ n.scope = l.scope /\ n.since = l.since
        /\ n.sure = l.sure /\ n.refill = l.refill /\ n.ids = ranked[l.scope]
    BY <1>1 DEF IInv, TypeOK, Call
  <2> HIDE DEF n
  <2>3. Lone(l) => Good(n)
    BY <1>1, <2>1, <2>2 DEF Good, Wanted, Lone
  <2> QED
    BY <1>1, <2>1, <2>2, <2>3, OwnMoveKeeps DEF Lone, Fills
<1>3. CASE Fetch(c)
  <2>1. Step(c, Idle) /\ Idle \in Call /\ Idle.pc = "idle" /\ Idle.since = {}
    BY <1>3, IdleType DEF Fetch, Idle
  <2> QED
    BY <1>1, <2>1, OwnMoveKeeps DEF Lone, Fills
<1> QED
  BY <1>1, <1>2, <1>3


\* The writers.
LEMMA LoneInsert ==
  ASSUME IInv, JInv, NEW x \in Ids, Insert(x)
  PROVE  JInv'
<1> USE DEF JInv
<1>1. /\ row[x] = "absent" /\ row' = [row EXCEPT ![x] = "pending"]
      /\ all' = Append(all, x) /\ pending' = pending \cup {x}
      /\ ranked' = [ranked EXCEPT !["all"] = @ \cup {x}, !["pending"] = @ \cup {x}]
      /\ UNCHANGED <<call, review, rebuilt>>
  BY DEF Insert, Listed, InRow
<1>2. row'[x] = "pending" /\ \A y \in Ids \ {x} : row'[y] = row[y]
  BY <1>1 DEF IInv, TypeOK
<1>3. /\ Stored' = Stored \cup {x} /\ x \notin Stored
      /\ InRow("pending")' = InRow("pending") \cup {x}
  BY <1>1, <1>2 DEF Stored, InRow
<1>4. ranked'["pending"] = ranked["pending"] \cup {x}
  BY <1>1 DEF IInv, TypeOK, Scopes
<1>5. OnlyStored'
  BY <1>1, <1>3, <1>4 DEF OnlyStored
<1>6. PendingIsListed' /\ AllFill' /\ Alone'
  BY <1>1, <1>3 DEF PendingIsListed, AllFill, Fills, Alone
<1>7. LoneIsGood'
  <2> SUFFICES ASSUME NEW c \in Calls, Lone(call[c]) PROVE Good(call[c])'
    BY <1>1 DEF LoneIsGood, Lone
  <2> DEFINE l == call[c]
  <2>1. Good(l) /\ l \in Call /\ l.start \in Nat /\ l.start + Batch \in Nat
    BY SweepIndexAssumption DEF LoneIsGood, IInv, TypeOK, Call
  <2>2. Wanted(l)' = Wanted(l)
    BY <1>1, <1>3 DEF Wanted, OnlyStored
  <2>3. Balanced' <=> Balanced
    <3>1. /\ x \notin pending /\ x \notin ranked["pending"]
      BY <1>3 DEF OnlyStored
    <3>2. /\ pending' \ ranked'["pending"] = pending \ ranked["pending"]
          /\ ranked'["pending"] \ pending' = ranked["pending"] \ pending
      BY <1>1, <1>4, <3>1
    <3> QED
      BY <3>2 DEF Balanced
  <2>4. ranked'["pending"] \ pending' \subseteq ranked["pending"] \ pending
    BY <1>1, <1>4
  <2>5. \A y : \A k \in Nat : Ahead(y, k) => Ahead(y, k)'
    BY <1>1, AheadStays DEF IInv
  <2>6. \A y, kept : Cover(l, y, kept) => Cover(l, y, kept)'
    BY <1>1, <2>1, <2>5 DEF Cover
  <2>7. l.refill = "legacy" => \A y \in Wanted(l)' :
          y \in ranked'["pending"] \/ Cover(l, y, l.ids \ l.reviewed)'
    <3>1. \A y : Cover(l, y, l.ids \ l.reviewed)
                    => Cover(l, y, l.ids \ l.reviewed)'
      BY <1>1, <2>6
    <3> QED
      BY <1>4, <2>1, <2>2, <3>1 DEF Good
  <2> QED
    BY <1>1, <1>4, <2>1, <2>2, <2>3, <2>4, <2>7 DEF Good
<1> QED
  BY <1>5, <1>6, <1>7

LEMMA LoneExpire ==
  ASSUME IInv, JInv, NEW x \in Ids, Expire(x)
  PROVE  JInv'
<1> USE DEF JInv
<1>1. /\ x \in Live /\ row' = [row EXCEPT ![x] = "expired"]
      /\ UNCHANGED <<all, pending, ranked, call, review, rebuilt>>
  BY DEF Expire
<1>2. row'[x] = "expired" /\ \A y \in Ids \ {x} : row'[y] = row[y]
  BY <1>1 DEF IInv, TypeOK
<1>3. Stored' = Stored /\ InRow("pending")' \subseteq InRow("pending")
  BY <1>1, <1>2 DEF Stored, InRow, Live
<1>4. OnlyStored' /\ PendingIsListed' /\ AllFill' /\ Alone'
  BY <1>1, <1>3 DEF OnlyStored, PendingIsListed, AllFill, Fills, Alone
<1>5. LoneIsGood'
  <2> SUFFICES ASSUME NEW c \in Calls, Lone(call[c]) PROVE Good(call[c])'
    BY <1>1 DEF LoneIsGood, Lone
  <2>1. Good(call[c])
    BY DEF LoneIsGood
  <2>2. Wanted(call[c])' \subseteq Wanted(call[c])
    BY <1>1, <1>3 DEF Wanted
  <2>3. \A y, kept : Cover(call[c], y, kept) => Cover(call[c], y, kept)'
    BY <1>1 DEF Cover, Ahead
  <2> QED
    BY <1>1, <2>1, <2>2, <2>3 DEF Good, Balanced
<1> QED
  BY <1>4, <1>5

LEMMA LoneReviewRead ==
  ASSUME IInv, JInv, UNCHANGED <<row, all, pending, ranked, call>>
  PROVE  JInv'
<1>1. Stored' = Stored /\ InRow("pending")' = InRow("pending")
  BY DEF Stored, InRow
<1>2. OnlyStored' /\ PendingIsListed' /\ AllFill' /\ Alone'
  BY <1>1 DEF JInv, OnlyStored, PendingIsListed, AllFill, Fills, Alone
<1>3. \A c \in Calls : Good(call[c]) => Good(call[c])'
  BY <1>1 DEF Good, Wanted, Cover, Ahead, Balanced
<1> QED
  BY <1>2, <1>3 DEF JInv, LoneIsGood, Lone

\* A review that takes its id out of both sets leaves them balanced.
LEMMA ReviewBalances ==
  ASSUME TypeOK, NEW x \in pending, Balanced,
         pending' = pending \ {x}, ranked'["pending"] = ranked["pending"] \ {x}
  PROVE  Balanced'
<1> DEFINE D == pending \ ranked["pending"]
           E == pending' \ ranked'["pending"]
<1>1. ranked'["pending"] \ pending' = ranked["pending"] \ pending
  OBVIOUS
<1>2. E \subseteq D /\ IsFiniteSet(D)
  BY PendingFinite, FS_Subset
<1>3. Cardinality(E) <= Cardinality(D) /\ IsFiniteSet(E)
  BY <1>2, FS_Subset
<1>4. /\ Cardinality(E) \in Nat /\ Cardinality(D) \in Nat
      /\ Cardinality(ranked["pending"] \ pending) \in Nat
  BY <1>2, <1>3, PendingFinite, FS_Subset, FS_CardinalityType
<1> QED
  BY <1>1, <1>3, <1>4 DEF Balanced

LEMMA LoneReviewWrite ==
  ASSUME IInv, JInv, NEW r \in Reviewers, ReviewWrite(r)
  PROVE  JInv'
<1> USE DEF JInv
<1> DEFINE x == review[r]
           pass(c) == x \in pending \/ call[c].pc = "idle"
<1>1. /\ x # 0
      /\ row' = [row EXCEPT ![x] = IF @ = "expired" THEN @ ELSE "reviewed"]
      /\ pending' = pending \ {x}
      /\ ranked' = [ranked EXCEPT !["pending"] = @ \ {x},
                                  !["reviewed"] = @ \cup {x}]
      /\ call' = [c \in Calls |-> IF pass(c) THEN call[c] ELSE Unsure(call[c])]
      /\ UNCHANGED all
  BY DEF ReviewWrite, Unindexed
<1>2. x \in Ids /\ row[x] # "absent"
  BY <1>1 DEF IInv, TypeOK, ReadIsStored
<1> HIDE DEF x
<1>3. /\ row'[x] = IF row[x] = "expired" THEN "expired" ELSE "reviewed"
      /\ \A y \in Ids \ {x} : row'[y] = row[y]
  BY <1>1, <1>2 DEF IInv, TypeOK
<1>4. Stored' = Stored /\ InRow("pending")' = InRow("pending") \ {x}
  BY <1>2, <1>3 DEF Stored, InRow
<1>5. ranked'["pending"] = ranked["pending"] \ {x}
  BY <1>1 DEF IInv, TypeOK, Scopes
<1>6. \A c \in Calls :
        /\ pass(c) => call'[c] = call[c]
        /\ ~pass(c) => call'[c].sure = FALSE
        /\ call'[c].pc = call[c].pc /\ call'[c].refill = call[c].refill
        /\ call'[c].more = call[c].more /\ call'[c].ids = call[c].ids
        /\ call'[c].since \subseteq call[c].since
        /\ call'[c].sure => call[c].sure
  <2>1. \A c \in Calls :
          LET u == Unsure(call[c]) IN
            /\ u.sure = FALSE /\ u.since = {} /\ u.pc = call[c].pc
            /\ u.refill = call[c].refill /\ u.more = call[c].more
            /\ u.ids = call[c].ids
    BY DEF Unsure, IInv, TypeOK, Call
  <2> HIDE DEF pass
  <2> QED
    BY <1>1, <2>1
<1>7. OnlyStored'
  BY <1>1, <1>4, <1>5, <1>6 DEF OnlyStored
<1>8. PendingIsListed'
  BY <1>1, <1>4 DEF PendingIsListed
<1>9. AllFill' /\ Alone'
  BY <1>6 DEF AllFill, Fills, Alone
<1>10. LoneIsGood'
  <2> SUFFICES ASSUME NEW c \in Calls, Lone(call'[c]) PROVE Good(call[c])'
    BY DEF LoneIsGood, Lone
  <2>1. call'[c] = call[c] /\ x \in pending
    BY <1>6 DEF Lone
  <2>2. Good(call[c])
    BY <2>1 DEF LoneIsGood
  <2>3. Wanted(call[c])' = Wanted(call[c]) \ {x}
    BY <1>4, <2>1 DEF Wanted
  <2>4. \A y, kept : Cover(call[c], y, kept) => Cover(call[c], y, kept)'
    BY <1>1, <2>1 DEF Cover, Ahead
  <2>5. Balanced => Balanced'
    BY <1>1, <1>5, <2>1, ReviewBalances DEF IInv
  <2>6. ranked'["pending"] \ pending' \subseteq ranked["pending"] \ pending
    BY <1>1, <1>5, <2>1
  <2> QED
    BY <1>5, <2>1, <2>2, <2>3, <2>4, <2>5, <2>6 DEF Good
<1> QED
  BY <1>7, <1>8, <1>9, <1>10

LEMMA LoneInit == Init => JInv
<1> SUFFICES ASSUME Init PROVE JInv
  OBVIOUS
<1>1. \A c \in Calls : call[c] = Idle
  BY DEF Init
<1>2. Idle.pc = "idle" /\ Idle.since = {}
  BY DEF Idle
<1>3. pending = InRow("pending") /\ ranked["pending"] = {}
  BY DEF Init, Scopes
<1>4. InRow("pending") \subseteq Stored
  BY DEF InRow, Stored
<1> QED
  BY <1>1, <1>2, <1>3, <1>4
     DEF JInv, OnlyStored, PendingIsListed, AllFill, Fills, Alone, LoneIsGood, Lone

LEMMA LoneNext == IInv /\ JInv /\ [Next]_vars => JInv'
<1> SUFFICES ASSUME IInv, JInv, [Next]_vars PROVE JInv'
  OBVIOUS
<1>1. ASSUME NEW x \in Ids, Insert(x) \/ Expire(x) PROVE JInv'
  BY <1>1, LoneInsert, LoneExpire
<1>2. ASSUME NEW r \in Reviewers, NEW x \in Ids, ReviewRead(r, x) PROVE JInv'
  BY <1>2, LoneReviewRead DEF ReviewRead
<1>3. ASSUME NEW r \in Reviewers, ReviewWrite(r) PROVE JInv'
  BY <1>3, LoneReviewWrite
<1>4. ASSUME NEW c \in Calls, NEW s \in Asked, Begin(c, s) PROVE JInv'
  BY <1>4, LoneBegin, SweepIndexAssumption DEF Scopes
<1>5. ASSUME NEW c \in Calls, Advance(c) PROVE JInv'
  BY <1>5, LoneChecks, LoneScan, LoneDrop, LoneReadIds, LoneReadRows,
     LoneIndex, LonePage DEF Advance
<1>6. CASE UNCHANGED vars
  BY <1>6, LoneReviewRead DEF vars
<1> QED
  BY <1>1, <1>2, <1>3, <1>4, <1>5, <1>6 DEF Next

\* A listing of the pending rows that overlaps no other shows every row that
\* was pending all along, whatever the index looked like when it began: either
\* it took the index after comparing it whole, or it filled it again.
THEOREM LoneListingShowsAll == Spec => []LoneListingIsComplete
<1>1. JInv => LoneListingIsComplete
  <2> SUFFICES ASSUME JInv, NEW c \in Calls,
                      call[c].pc = "fetch", call[c].scope = "pending", call[c].sure
               PROVE  call[c].since \cap InRow("pending") \subseteq Answer(call[c])
    BY DEF LoneListingIsComplete
  <2>1. Wanted(call[c]) \subseteq call[c].ids
    BY DEF JInv, LoneIsGood, Lone, Good
  <2>2. Answer(call[c]) = call[c].ids \cap InRow("pending")
    BY DEF Answer
  <2> QED
    BY <2>1, <2>2 DEF Wanted
<1>2. Spec => []JInv
  BY Invariance, LoneInit, LoneNext, PTL DEF Spec
<1> QED
  BY <1>1, <1>2, PTL

-----------------------------------------------------------------------------
(* The resolution *)

(***************************************************************************)
(* The inductive invariant adds what each place in the code remembers: a   *)
(* call that still has to release the lock has left the second check, a    *)
(* call past the first check has seen a review, and a call about to store  *)
(* a terminal outcome has promoted it.                                     *)
(***************************************************************************)

ReleaseAfterCheck ==
  \A c \in releasing : pc[c] \in {"dispatch", "promote", "persist", "end"}

ReviewedBeforeResolve ==
  /\ \A c \in Requests :
       pc[c] \in {"lock", "recheck", "dispatch", "promote", "persist"}
         => accepted # "unset"
  /\ NothingBeforeReview

PromotedBeforeStored ==
  /\ \A c \in Requests :
       pc[c] = "persist" /\ Outcome(c) \in Terminal => c \in promoted
  /\ TerminalWasPromoted

ResolutionInv ==
  /\ ResolutionTypeOK
  /\ ReleaseAfterCheck
  /\ HolderOwnsLock
  /\ ReviewedBeforeResolve
  /\ PromotedBeforeStored

-----------------------------------------------------------------------------
\* Every outcome is a status of the row.
LEMMA OutcomeIsStatus ==
  ASSUME NEW c
  PROVE  Outcome(c) \in Status
  BY DEF Outcome, Status, Terminal, NeedsSelection

LEMMA ResolutionInitially == ResolutionInit => ResolutionInv
<1>1. SUFFICES ASSUME ResolutionInit PROVE ResolutionInv
  OBVIOUS
<1>2. ResolutionTypeOK
  <2>1. selecting \in SUBSET Requests
    BY <1>1, LimitsAssumption DEF ResolutionInit
  <2>2. /\ pc \in [Requests -> PC]
        /\ action \in [Requests -> 1..(NumActions + 1)]
    BY <1>1, ActionsAssumption DEF ResolutionInit, PC
  <2>3. QED
    BY <1>1, <2>1, <2>2 DEF ResolutionInit, ResolutionTypeOK, Status, Terminal
<1>3. ReleaseAfterCheck /\ HolderOwnsLock
  BY <1>1 DEF ResolutionInit, ReleaseAfterCheck, HolderOwnsLock, Holding
<1>4. ReviewedBeforeResolve
  BY <1>1 DEF ResolutionInit, ReviewedBeforeResolve, NothingBeforeReview
<1>5. PromotedBeforeStored
  BY <1>1 DEF ResolutionInit, PromotedBeforeStored, TerminalWasPromoted, Terminal
<1>6. QED
  BY <1>2, <1>3, <1>4, <1>5 DEF ResolutionInv

\* Every step keeps the types.
LEMMA RowTypeStep == ResolutionInv /\ [ResolutionNext]_resolutionVars => ResolutionTypeOK'
<1> SUFFICES ASSUME ResolutionInv, [ResolutionNext]_resolutionVars PROVE ResolutionTypeOK'
  OBVIOUS
<1> USE DEF ResolutionInv, ResolutionTypeOK, Goto, rowVars, tallyVars,
            boundVars, PC, Status, Terminal
<1>1. CASE ResolutionNext
  <2>1. ASSUME NEW c \in Requests, NEW b \in BOOLEAN, Review(c, b)
       PROVE  ResolutionTypeOK'
    BY <2>1 DEF Review
  <2>2. ASSUME NEW c \in Requests, Resubmit(c)
       PROVE  ResolutionTypeOK'
    BY <2>2 DEF Resubmit
  <2>3. ASSUME NEW c \in Requests, Check(c)
       PROVE  ResolutionTypeOK'
    BY <2>3 DEF Check, Preflight
  <2>4. ASSUME NEW c \in Requests, ClaimLock(c)
       PROVE  ResolutionTypeOK'
    BY <2>4 DEF ClaimLock
  <2>5. ASSUME NEW c \in Requests, Recheck(c)
       PROVE  ResolutionTypeOK'
    BY <2>5 DEF Recheck, Preflight
  <2>6. ASSUME NEW c \in Requests, Dispatch(c)
       PROVE  ResolutionTypeOK'
    <3>1. action' \in [Requests -> 1..(NumActions + 1)]
      <4>1. action[c] + 1 \in 1..(NumActions + 1)
        BY <2>6, ActionsAssumption DEF Dispatch, Actions
      <4>2. QED
        BY <2>6, <4>1 DEF Dispatch
    <3>2. /\ landed' \in SUBSET Actions
          /\ affected' \in SUBSET Requests
          /\ failed' \in SUBSET Requests
          /\ asked' \in SUBSET Requests
      BY <2>6 DEF Dispatch
    <3>3. QED
      BY <2>6, <3>1, <3>2 DEF Dispatch
  <2>7. ASSUME NEW c \in Requests, Tally(c)
       PROVE  ResolutionTypeOK'
    BY <2>7 DEF Tally, Actions
  <2>8. ASSUME NEW c \in Requests, Promote(c)
       PROVE  ResolutionTypeOK'
    BY <2>8 DEF Promote
  <2>9. ASSUME NEW c \in Requests, Persist(c)
       PROVE  ResolutionTypeOK'
    BY <2>9, OutcomeIsStatus DEF Persist
  <2>10. ASSUME NEW c \in Requests, Release(c)
       PROVE  ResolutionTypeOK'
    BY <2>10 DEF Release
  <2>11. ASSUME NEW c \in Requests, CallFails(c)
       PROVE  ResolutionTypeOK'
    BY <2>11 DEF CallFails, Fault
  <2>12. ASSUME NEW c \in Requests, ReleaseFails(c)
       PROVE  ResolutionTypeOK'
    BY <2>12 DEF ReleaseFails, Fault
  <2>13. ASSUME NEW c \in Requests, Crash(c)
       PROVE  ResolutionTypeOK'
    BY <2>13 DEF Crash, Fault
  <2>14. CASE LockExpires
    BY <2>14 DEF LockExpires
  <2>15. QED
    BY <1>1, <2>1, <2>2, <2>3, <2>4, <2>5, <2>6, <2>7, <2>8, <2>9, <2>10,
       <2>11, <2>12, <2>13, <2>14
       DEF ResolutionNext, Request, Resolve
<1>2. CASE UNCHANGED resolutionVars
  BY <1>2 DEF resolutionVars
<1>3. QED
  BY <1>1, <1>2

\* A release is only ever left behind by the second check.
LEMMA ReleaseAfterCheckStep == ResolutionInv /\ [ResolutionNext]_resolutionVars => ReleaseAfterCheck'
<1> SUFFICES ASSUME ResolutionInv, [ResolutionNext]_resolutionVars PROVE ReleaseAfterCheck'
  OBVIOUS
<1> USE DEF ResolutionInv, ResolutionTypeOK, Goto, rowVars, tallyVars,
            boundVars, PC, ReleaseAfterCheck
<1>1. CASE ResolutionNext
  <2>1. ASSUME NEW c \in Requests, NEW b \in BOOLEAN, Review(c, b)
       PROVE  ReleaseAfterCheck'
    BY <2>1 DEF Review
  <2>2. ASSUME NEW c \in Requests, Resubmit(c)
       PROVE  ReleaseAfterCheck'
    BY <2>2 DEF Resubmit
  <2>3. ASSUME NEW c \in Requests, Check(c)
       PROVE  ReleaseAfterCheck'
    BY <2>3 DEF Check, Preflight
  <2>4. ASSUME NEW c \in Requests, ClaimLock(c)
       PROVE  ReleaseAfterCheck'
    BY <2>4 DEF ClaimLock
  <2>5. ASSUME NEW c \in Requests, Recheck(c)
       PROVE  ReleaseAfterCheck'
    BY <2>5 DEF Recheck, Preflight
  <2>6. ASSUME NEW c \in Requests, Dispatch(c)
       PROVE  ReleaseAfterCheck'
    BY <2>6 DEF Dispatch, Answers, Actions
  <2>7. ASSUME NEW c \in Requests, Tally(c)
       PROVE  ReleaseAfterCheck'
    BY <2>7 DEF Tally, Actions
  <2>8. ASSUME NEW c \in Requests, Promote(c)
       PROVE  ReleaseAfterCheck'
    BY <2>8 DEF Promote
  <2>9. ASSUME NEW c \in Requests, Persist(c)
       PROVE  ReleaseAfterCheck'
    BY <2>9 DEF Persist
  <2>10. ASSUME NEW c \in Requests, Release(c)
       PROVE  ReleaseAfterCheck'
    BY <2>10 DEF Release
  <2>11. ASSUME NEW c \in Requests, CallFails(c)
       PROVE  ReleaseAfterCheck'
    BY <2>11 DEF CallFails, Fault
  <2>12. ASSUME NEW c \in Requests, ReleaseFails(c)
       PROVE  ReleaseAfterCheck'
    BY <2>12 DEF ReleaseFails, Fault
  <2>13. ASSUME NEW c \in Requests, Crash(c)
       PROVE  ReleaseAfterCheck'
    BY <2>13 DEF Crash, Fault
  <2>14. CASE LockExpires
    BY <2>14 DEF LockExpires
  <2>15. QED
    BY <1>1, <2>1, <2>2, <2>3, <2>4, <2>5, <2>6, <2>7, <2>8, <2>9, <2>10,
       <2>11, <2>12, <2>13, <2>14
       DEF ResolutionNext, Request, Resolve
<1>2. CASE UNCHANGED resolutionVars
  BY <1>2 DEF resolutionVars
<1>3. QED
  BY <1>1, <1>2

\* NX admits one holder, and a holder stays one until it releases.
LEMMA HolderOwnsLockStep == ResolutionInv /\ [ResolutionNext]_resolutionVars => HolderOwnsLock'
<1> SUFFICES ASSUME ResolutionInv, [ResolutionNext]_resolutionVars PROVE HolderOwnsLock'
  OBVIOUS
<1> USE DEF ResolutionInv, ResolutionTypeOK, Goto, rowVars, tallyVars,
            boundVars, PC, ReleaseAfterCheck, HolderOwnsLock, Holding
<1>1. CASE ResolutionNext
  <2>1. ASSUME NEW c \in Requests, NEW b \in BOOLEAN, Review(c, b)
       PROVE  HolderOwnsLock'
    BY <2>1 DEF Review
  <2>2. ASSUME NEW c \in Requests, Resubmit(c)
       PROVE  HolderOwnsLock'
    BY <2>2 DEF Resubmit
  <2>3. ASSUME NEW c \in Requests, Check(c)
       PROVE  HolderOwnsLock'
    BY <2>3 DEF Check, Preflight
  <2>4. ASSUME NEW c \in Requests, ClaimLock(c)
       PROVE  HolderOwnsLock'
    BY <2>4, NobodyAssumption DEF ClaimLock
  <2>5. ASSUME NEW c \in Requests, Recheck(c)
       PROVE  HolderOwnsLock'
    BY <2>5 DEF Recheck, Preflight
  <2>6. ASSUME NEW c \in Requests, Dispatch(c)
       PROVE  HolderOwnsLock'
    BY <2>6 DEF Dispatch, Answers, Actions
  <2>7. ASSUME NEW c \in Requests, Tally(c)
       PROVE  HolderOwnsLock'
    BY <2>7 DEF Tally, Actions
  <2>8. ASSUME NEW c \in Requests, Promote(c)
       PROVE  HolderOwnsLock'
    BY <2>8 DEF Promote
  <2>9. ASSUME NEW c \in Requests, Persist(c)
       PROVE  HolderOwnsLock'
    BY <2>9 DEF Persist
  <2>10. ASSUME NEW c \in Requests, Release(c)
       PROVE  HolderOwnsLock'
    BY <2>10, NobodyAssumption DEF Release
  <2>11. ASSUME NEW c \in Requests, CallFails(c)
       PROVE  HolderOwnsLock'
    BY <2>11 DEF CallFails, Fault
  <2>12. ASSUME NEW c \in Requests, ReleaseFails(c)
       PROVE  HolderOwnsLock'
    BY <2>12 DEF ReleaseFails, Fault
  <2>13. ASSUME NEW c \in Requests, Crash(c)
       PROVE  HolderOwnsLock'
    BY <2>13 DEF Crash, Fault
  <2>14. CASE LockExpires
    BY <2>14, NobodyAssumption DEF LockExpires
  <2>15. QED
    BY <1>1, <2>1, <2>2, <2>3, <2>4, <2>5, <2>6, <2>7, <2>8, <2>9, <2>10,
       <2>11, <2>12, <2>13, <2>14
       DEF ResolutionNext, Request, Resolve
<1>2. CASE UNCHANGED resolutionVars
  BY <1>2 DEF resolutionVars
<1>3. QED
  BY <1>1, <1>2

\* The first check remembers that a reviewer has accepted.
LEMMA ReviewedBeforeResolveStep == ResolutionInv /\ [ResolutionNext]_resolutionVars => ReviewedBeforeResolve'
<1> SUFFICES ASSUME ResolutionInv, [ResolutionNext]_resolutionVars PROVE ReviewedBeforeResolve'
  OBVIOUS
<1> USE DEF ResolutionInv, ResolutionTypeOK, Goto, rowVars, tallyVars,
            boundVars, PC, ReviewedBeforeResolve, NothingBeforeReview
<1>1. CASE ResolutionNext
  <2>1. ASSUME NEW c \in Requests, NEW b \in BOOLEAN, Review(c, b)
       PROVE  ReviewedBeforeResolve'
    BY <2>1 DEF Review
  <2>2. ASSUME NEW c \in Requests, Resubmit(c)
       PROVE  ReviewedBeforeResolve'
    BY <2>2 DEF Resubmit
  <2>3. ASSUME NEW c \in Requests, Check(c)
       PROVE  ReviewedBeforeResolve'
    BY <2>3 DEF Check, Preflight
  <2>4. ASSUME NEW c \in Requests, ClaimLock(c)
       PROVE  ReviewedBeforeResolve'
    BY <2>4 DEF ClaimLock
  <2>5. ASSUME NEW c \in Requests, Recheck(c)
       PROVE  ReviewedBeforeResolve'
    BY <2>5 DEF Recheck, Preflight
  <2>6. ASSUME NEW c \in Requests, Dispatch(c)
       PROVE  ReviewedBeforeResolve'
    BY <2>6 DEF Dispatch, Answers, Actions
  <2>7. ASSUME NEW c \in Requests, Tally(c)
       PROVE  ReviewedBeforeResolve'
    BY <2>7 DEF Tally, Actions
  <2>8. ASSUME NEW c \in Requests, Promote(c)
       PROVE  ReviewedBeforeResolve'
    BY <2>8 DEF Promote
  <2>9. ASSUME NEW c \in Requests, Persist(c)
       PROVE  ReviewedBeforeResolve'
    BY <2>9 DEF Persist
  <2>10. ASSUME NEW c \in Requests, Release(c)
       PROVE  ReviewedBeforeResolve'
    BY <2>10 DEF Release
  <2>11. ASSUME NEW c \in Requests, CallFails(c)
       PROVE  ReviewedBeforeResolve'
    BY <2>11 DEF CallFails, Fault
  <2>12. ASSUME NEW c \in Requests, ReleaseFails(c)
       PROVE  ReviewedBeforeResolve'
    BY <2>12 DEF ReleaseFails, Fault
  <2>13. ASSUME NEW c \in Requests, Crash(c)
       PROVE  ReviewedBeforeResolve'
    BY <2>13 DEF Crash, Fault
  <2>14. CASE LockExpires
    BY <2>14 DEF LockExpires
  <2>15. QED
    BY <1>1, <2>1, <2>2, <2>3, <2>4, <2>5, <2>6, <2>7, <2>8, <2>9, <2>10,
       <2>11, <2>12, <2>13, <2>14
       DEF ResolutionNext, Request, Resolve
<1>2. CASE UNCHANGED resolutionVars
  BY <1>2 DEF resolutionVars
<1>3. QED
  BY <1>1, <1>2

\* The tallies a call promoted are the tallies it stores.
LEMMA PromotedBeforeStoredStep == ResolutionInv /\ [ResolutionNext]_resolutionVars => PromotedBeforeStored'
<1> SUFFICES ASSUME ResolutionInv, [ResolutionNext]_resolutionVars PROVE PromotedBeforeStored'
  OBVIOUS
<1> USE DEF ResolutionInv, ResolutionTypeOK, Goto, rowVars, tallyVars,
            boundVars, PC, PromotedBeforeStored, TerminalWasPromoted, Outcome,
            NeedsSelection, Terminal
<1>1. CASE ResolutionNext
  <2>1. ASSUME NEW c \in Requests, NEW b \in BOOLEAN, Review(c, b)
       PROVE  PromotedBeforeStored'
    BY <2>1 DEF Review
  <2>2. ASSUME NEW c \in Requests, Resubmit(c)
       PROVE  PromotedBeforeStored'
    BY <2>2 DEF Resubmit
  <2>3. ASSUME NEW c \in Requests, Check(c)
       PROVE  PromotedBeforeStored'
    BY <2>3 DEF Check, Preflight
  <2>4. ASSUME NEW c \in Requests, ClaimLock(c)
       PROVE  PromotedBeforeStored'
    BY <2>4 DEF ClaimLock
  <2>5. ASSUME NEW c \in Requests, Recheck(c)
       PROVE  PromotedBeforeStored'
    BY <2>5 DEF Recheck, Preflight
  <2>6. ASSUME NEW c \in Requests, Dispatch(c)
       PROVE  PromotedBeforeStored'
    BY <2>6 DEF Dispatch, Answers, Actions
  <2>7. ASSUME NEW c \in Requests, Tally(c)
       PROVE  PromotedBeforeStored'
    BY <2>7 DEF Tally, Actions
  <2>8. ASSUME NEW c \in Requests, Promote(c)
       PROVE  PromotedBeforeStored'
    BY <2>8 DEF Promote
  <2>9. ASSUME NEW c \in Requests, Persist(c)
       PROVE  PromotedBeforeStored'
    BY <2>9 DEF Persist
  <2>10. ASSUME NEW c \in Requests, Release(c)
       PROVE  PromotedBeforeStored'
    BY <2>10 DEF Release
  <2>11. ASSUME NEW c \in Requests, CallFails(c)
       PROVE  PromotedBeforeStored'
    BY <2>11 DEF CallFails, Fault
  <2>12. ASSUME NEW c \in Requests, ReleaseFails(c)
       PROVE  PromotedBeforeStored'
    BY <2>12 DEF ReleaseFails, Fault
  <2>13. ASSUME NEW c \in Requests, Crash(c)
       PROVE  PromotedBeforeStored'
    BY <2>13 DEF Crash, Fault
  <2>14. CASE LockExpires
    BY <2>14 DEF LockExpires
  <2>15. QED
    BY <1>1, <2>1, <2>2, <2>3, <2>4, <2>5, <2>6, <2>7, <2>8, <2>9, <2>10,
       <2>11, <2>12, <2>13, <2>14
       DEF ResolutionNext, Request, Resolve
<1>2. CASE UNCHANGED resolutionVars
  BY <1>2 DEF resolutionVars
<1>3. QED
  BY <1>1, <1>2

LEMMA ResolutionSteps == ResolutionInv /\ [ResolutionNext]_resolutionVars => ResolutionInv'
  BY RowTypeStep, ReleaseAfterCheckStep, HolderOwnsLockStep,
     ReviewedBeforeResolveStep, PromotedBeforeStoredStep DEF ResolutionInv

-----------------------------------------------------------------------------
\* The inductive invariant holds in every reachable state.
LEMMA ResolutionInvariance == ResolutionSpec => []ResolutionInv
  BY ResolutionInitially, ResolutionSteps, PTL DEF ResolutionSpec

\* The variables of the suggestion and of its calls keep their types.
THEOREM ResolutionTypeCorrect == ResolutionSpec => []ResolutionTypeOK
<1>1. ResolutionInv => ResolutionTypeOK
  BY DEF ResolutionInv
<1>2. QED
  BY <1>1, ResolutionInvariance, PTL

\* claimResolutionLock() keeps two calls from being between claim and release
\* as long as no holder outlives its TTL.
THEOREM LockIsExclusive == ResolutionSpec => []HolderOwnsLock
<1>1. ResolutionInv => HolderOwnsLock
  BY DEF ResolutionInv
<1>2. QED
  BY <1>1, ResolutionInvariance, PTL

\* resolve() touches nothing before the suggestion is reviewed.
THEOREM ReviewComesFirst == ResolutionSpec => []NothingBeforeReview
<1>1. ResolutionInv => NothingBeforeReview
  BY DEF ResolutionInv, ReviewedBeforeResolve
<1>2. QED
  BY <1>1, ResolutionInvariance, PTL

\* updateResolution() never stores success or partial without a promotion.
THEOREM PromotionComesFirst == ResolutionSpec => []TerminalWasPromoted
<1>1. ResolutionInv => TerminalWasPromoted
  BY DEF ResolutionInv, PromotedBeforeStored
<1>2. QED
  BY <1>1, ResolutionInvariance, PTL

\* releaseResolutionLock() compares tokens: only the holder or the TTL frees
\* the lock.
THEOREM ReleaseNeedsToken == ResolutionSpec => OnlyOwnerReleases
<1>1. ASSUME ResolutionTypeOK, [ResolutionNext]_resolutionVars, NEW c \in Requests, lock = c, lock' # c
      PROVE  (c \in releasing /\ c \notin releasing') \/ LockExpires
  <2>1. PICK d \in Requests : ClaimLock(d) \/ Release(d) \/ LockExpires
    BY <1>1 DEF ResolutionNext, resolutionVars, Request, Review, Resubmit, Resolve, Check, Recheck,
                Dispatch, Tally, Promote, Persist, CallFails, ReleaseFails, Crash
  <2>2. CASE ClaimLock(d)
    BY <1>1, <2>2, NobodyAssumption DEF ClaimLock
  <2>3. CASE Release(d)
    BY <1>1, <2>3 DEF Release
  <2>4. QED
    BY <2>1, <2>2, <2>3
<1>2. ResolutionTypeOK /\ [ResolutionNext]_resolutionVars =>
        [\A c \in Requests :
           lock = c /\ lock' # c => \/ c \in releasing /\ c \notin releasing'
                                    \/ LockExpires]_resolutionVars
  BY <1>1
<1>3. QED
  BY <1>2, ResolutionTypeCorrect, PTL DEF ResolutionSpec, OnlyOwnerReleases
=============================================================================

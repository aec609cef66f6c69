----------------------------- MODULE SweepIndex -----------------------------
(***************************************************************************)
(* The Redis indexes of the sweep suggestions: SweepRepository.            *)
(*                                                                         *)
(* A suggestion is a hash with a time to live.  Its id is kept in a sorted *)
(* set of all rows, in a set of the pending ones, and in one ranked index  *)
(* per scope that list() pages through.  list() first repairs the ranked   *)
(* indexes: when there is none it rebuilds the three from the rows an      *)
(* older version left, and when the pending one does not look like the     *)
(* pending set it deletes it and fills it again.  Every await of a repair  *)
(* is a point where an insert, a review or another listing runs.           *)
(*                                                                         *)
(* Ids are ordered by their score.  A category or severity index follows   *)
(* the index of its scope command by command and is left out.  A pipeline  *)
(* is one step: it is written at once on the one connection of a process.  *)
(***************************************************************************)
EXTENDS Naturals, FiniteSets, Sequences

CONSTANTS Ids,         \* suggestions, a higher score is a larger number
          Legacy,      \* the rows stored before there were ranked indexes
          Calls,       \* calls of list() that may overlap
          Reviewers,   \* calls of review() that may overlap
          SampleSize,  \* 20: how many ids of the pending index are compared
          Asked,       \* the scopes callers ask for
          Batch        \* 500: rows of the legacy index read at a time

ASSUME SweepIndexAssumption ==
  /\ Ids \subseteq Nat /\ IsFiniteSet(Ids) /\ Legacy \subseteq Ids
  /\ IsFiniteSet(Reviewers)
  /\ Asked \subseteq {"all", "pending", "reviewed"}
  /\ SampleSize \in Nat \ {0} /\ Batch \in Nat \ {0}

VARIABLES
  row,       \* the hash of every suggestion
  all,       \* sweep:index:all, the oldest row first
  pending,   \* sweep:index:pending
  ranked,    \* sweep:index:ranked:<scope>
  call,      \* the calls of list()
  review,    \* the row a call of review() has read, or 0
  rebuilt    \* history: a rebuild has run to its end, or none is ever due

vars == <<row, all, pending, ranked, call, review, rebuilt>>

Scopes == {"all", "pending", "reviewed"}
Live == {x \in Ids : row[x] \in {"pending", "reviewed"}}
Members(q) == {q[i] : i \in DOMAIN q}
InRow(s) == {x \in Ids : row[x] = s}

\* What a call of list() remembers: where it is, the scopes whose keys it
\* deletes, from what it fills them again, how far it is in the legacy index,
\* the ids it read, those of them it read as reviewed, and whether there is
\* another batch.  History: whether the call is sure, that is it overlapped no
\* other listing and compared the index whole, and then the rows that were
\* pending when it began.
Call == [pc : {"idle", "counts", "sample", "members", "scan", "drop", "ids", "rows",
               "index", "page", "fetch"},
         scope : Scopes, scopes : SUBSET Scopes,
         refill : {"legacy", "pending", "none"}, start : Nat,
         ids : SUBSET Ids, reviewed : SUBSET Ids, more : BOOLEAN,
         since : SUBSET Ids, sure : BOOLEAN]

Idle == [pc |-> "idle", scope |-> "all", scopes |-> {},
         refill |-> "none", start |-> 0, ids |-> {}, reviewed |-> {},
         more |-> FALSE, since |-> {}, sure |-> TRUE]

TypeOK ==
  /\ row \in [Ids -> {"absent", "pending", "reviewed", "expired"}]
  /\ all \in Seq(Ids)
  /\ pending \in SUBSET Members(all)
  /\ ranked \in [Scopes -> SUBSET Ids]
  /\ call \in [Calls -> Call]
  /\ review \in [Reviewers -> Ids \cup {0}]
  /\ rebuilt \in BOOLEAN

\* The legacy rows in the order they were stored.
LegacyOrders == {q \in [1..Cardinality(Legacy) -> Legacy] : Members(q) = Legacy}

\* The rows of an older version are in the two old indexes and in no other.
Init ==
  /\ row \in {r \in [Ids -> {"absent", "pending", "reviewed"}] :
                \A x \in Ids : r[x] = "absent" <=> x \notin Legacy}
  /\ all \in LegacyOrders
  /\ pending = InRow("pending")
  /\ ranked = [s \in Scopes |-> {}]
  /\ call = [c \in Calls |-> Idle]
  /\ review = [r \in Reviewers |-> 0]
  /\ rebuilt = (Legacy = {})

-----------------------------------------------------------------------------
(* Writers *)

\* enqueueWrite() lists a row for the next rebuild and for the statistics.
Listed(x) == Append(all, x)

\* insertGeneric(): the pipeline that stores a row.
Insert(x) ==
  /\ x \in InRow("absent")
  /\ row' = [row EXCEPT ![x] = "pending"]
  /\ all' = Listed(x)
  /\ pending' = pending \cup {x}
  /\ ranked' = [ranked EXCEPT !["all"] = @ \cup {x}, !["pending"] = @ \cup {x}]
  /\ UNCHANGED <<call, review, rebuilt>>

\* The hash is gone after 90 days; no index forgets the id.
Expire(x) ==
  /\ x \in Live
  /\ row' = [row EXCEPT ![x] = "expired"]
  /\ UNCHANGED <<all, pending, ranked, call, review, rebuilt>>

\* review() has read the row and found it.
ReviewRead(r, x) ==
  /\ review[r] = 0 /\ x \in Live
  /\ review' = [review EXCEPT ![r] = x]
  /\ UNCHANGED <<row, all, pending, ranked, call, rebuilt>>

\* Mutant of Unindexed: a reviewed row is only removed from the pending ones.
IndexedNowhere(x) == [ranked EXCEPT !["pending"] = @ \ {x}]

\* unindexSuggestion() and indexSuggestion() as review() calls them.
Unindexed(x) ==
  [ranked EXCEPT !["pending"] = @ \ {x}, !["reviewed"] = @ \cup {x}]

\* History: nothing is claimed of what the call answers.
Unsure(l) == [l EXCEPT !.sure = FALSE, !.since = {}]

\* The pipeline of review().  A hash that expired meanwhile comes back without
\* an id and still reads as no row.  A row reviewed twice counts as overlapping
\* every listing under way.
ReviewWrite(r) ==
  LET x == review[r] IN
  /\ x # 0
  /\ row' = [row EXCEPT ![x] = IF @ = "expired" THEN @ ELSE "reviewed"]
  /\ pending' = pending \ {x}
  /\ ranked' = Unindexed(x)
  /\ review' = [review EXCEPT ![r] = 0]
  /\ call' = [c \in Calls |-> IF x \in pending \/ call[c].pc = "idle" THEN call[c]
                              ELSE Unsure(call[c])]
  /\ UNCHANGED <<all, rebuilt>>

-----------------------------------------------------------------------------
(* list() *)

\* A call moves and touches nothing that is shared.
Step(c, next) ==
  /\ call' = [call EXCEPT ![c] = next]
  /\ UNCHANGED <<row, all, pending, ranked, review, rebuilt>>

\* The n ids of S with the highest scores.
Top(S, n) == {x \in S : Cardinality({y \in S : y > x}) < n}

\* The repair is over, or none was due: what it remembers is dropped.
Paging(l) == [Idle EXCEPT !.pc = "page", !.scope = l.scope,
                          !.since = l.since, !.sure = l.sure]

\* Delete the keys of some scopes, then fill them from one of the old indexes.
Dropping(l, scopes, from) ==
  [l EXCEPT !.pc = "scan", !.scopes = scopes, !.refill = from]

\* ensureRankedIndexesForRead(), once the two sizes are known.
Repaired(l) ==
  IF ranked["all"] = {} /\ all # <<>> THEN Dropping(l, Scopes, "legacy")
  ELSE IF l.scope = "pending" THEN [l EXCEPT !.pc = "counts"] ELSE Paging(l)

Begin(c, scope) ==
  LET others == {d \in Calls \ {c} : call[d].pc # "idle"}
      mine == [Idle EXCEPT !.scope = scope, !.sure = (others = {}),
                           !.since = IF others = {} THEN InRow("pending") ELSE {}]
  IN /\ call[c].pc = "idle"
     /\ call' = [d \in Calls |-> IF d = c THEN Repaired(mine)
                                 ELSE IF d \in others
                                      THEN Unsure(call[d])
                                      ELSE call[d]]
     /\ UNCHANGED <<row, all, pending, ranked, review, rebuilt>>

\* Mutant of Counted: equal sizes are taken for equal sets.
CountedOnly(l) ==
  IF pending = {} THEN Dropping(l, {"pending"}, "none")
  ELSE IF Cardinality(ranked["pending"]) = Cardinality(pending)
       THEN Paging(l)
       ELSE Dropping(l, {"pending"}, "pending")

\* ensurePendingRankedIndexForRead(), once the two sizes are known.
Counted(l) ==
  IF pending = {} THEN Dropping(l, {"pending"}, "none")
  ELSE IF Cardinality(ranked["pending"]) = Cardinality(pending)
       THEN [l EXCEPT !.pc = "sample"]
       ELSE Dropping(l, {"pending"}, "pending")

Counts(c) == call[c].pc = "counts" /\ Step(c, Counted(call[c]))

\* pendingRankedSampleMatchesSet(): the top ids, then their membership.
Sample(c) ==
  LET top == Top(ranked["pending"], SampleSize) IN
  /\ call[c].pc = "sample"
  /\ Step(c, IF top = {} THEN Dropping(call[c], {"pending"}, "pending")
             ELSE LET l == [call[c] EXCEPT !.pc = "members", !.ids = top]
                  IN IF top = ranked["pending"] THEN l ELSE Unsure(l))

Compare(c) ==
  /\ call[c].pc = "members"
  /\ Step(c, IF call[c].ids \subseteq pending
             THEN Paging(call[c])
             ELSE Dropping([call[c] EXCEPT !.ids = {}], {"pending"}, "pending"))

\* deleteRankedScopeIndexes(): SCAN returns the keys there are, an empty index
\* has none; the deletes of the three scopes of a rebuild go out together.
Scan(c) ==
  /\ call[c].pc = "scan"
  /\ Step(c, [call[c] EXCEPT !.pc = "drop",
                             !.scopes = {s \in @ : ranked[s] # {}}])

Drop(c) ==
  LET l == call[c] IN
  /\ l.pc = "drop"
  /\ ranked' = [s \in Scopes |-> IF s \in l.scopes THEN {} ELSE ranked[s]]
  /\ call' = [call EXCEPT ![c] =
                IF l.refill = "none" THEN Paging(l)
                ELSE [l EXCEPT !.pc = "ids", !.scopes = {}]]
  /\ UNCHANGED <<row, all, pending, review, rebuilt>>

\* forEachLegacyIndexBatch() reads a batch of ids, the refill of the pending
\* index reads its whole set.
ReadIds(c) ==
  LET l == call[c]
      batch == {all[i] : i \in {j \in DOMAIN all :
                                 Len(all) - j \in l.start..(l.start + Batch - 1)}}
  IN /\ l.pc = "ids"
     /\ IF l.refill = "legacy" /\ batch = {}
        THEN /\ call' = [call EXCEPT ![c] = Paging(l)]
             /\ rebuilt' = TRUE
        ELSE /\ call' = [call EXCEPT ![c].pc = "rows",
                           ![c].ids = IF l.refill = "legacy" THEN batch
                                      ELSE pending,
                           ![c].more = /\ l.refill = "legacy"
                                       /\ Len(all) - l.start >= Batch]
             /\ UNCHANGED rebuilt
     /\ UNCHANGED <<row, all, pending, ranked, review>>

\* rowsByIds(): an id without a hash is skipped.
ReadRows(c) ==
  LET l == call[c] IN
  /\ l.pc = "rows"
  /\ Step(c, [l EXCEPT !.pc = "index", !.ids = @ \cap Live,
                       !.reviewed = IF l.refill = "legacy"
                                    THEN l.ids \cap InRow("reviewed") ELSE {}])

\* Mutant of Indexed: what was written since the rows were read is lost.
IndexedInstead(l) ==
  IF l.refill = "legacy"
  THEN [ranked EXCEPT !["all"] = @ \cup l.ids,
                      !["pending"] = @ \cup (l.ids \ l.reviewed),
                      !["reviewed"] = @ \cup l.reviewed]
  ELSE [ranked EXCEPT !["pending"] = @ \cap l.ids]

\* indexSuggestion() on the rows that were read.
Indexed(l) ==
  IF l.refill = "legacy"
  THEN [ranked EXCEPT !["all"] = @ \cup l.ids,
                      !["pending"] = @ \cup (l.ids \ l.reviewed),
                      !["reviewed"] = @ \cup l.reviewed]
  ELSE [ranked EXCEPT !["pending"] = @ \cup l.ids]

Index(c) ==
  LET l == call[c] IN
  /\ l.pc = "index"
  /\ ranked' = Indexed(l)
  /\ call' = [call EXCEPT ![c] =
                IF l.more THEN [l EXCEPT !.pc = "ids", !.start = @ + Batch,
                                         !.ids = {}, !.reviewed = {},
                                         !.more = FALSE]
                ELSE Paging(l)]
  /\ rebuilt' = (rebuilt \/ (l.refill = "legacy" /\ ~l.more))
  /\ UNCHANGED <<row, all, pending, review>>

\* zrevrange on the index of the scope.
Page(c) ==
  /\ call[c].pc = "page"
  /\ Step(c, [call[c] EXCEPT !.pc = "fetch", !.ids = ranked[call[c].scope]])

\* rowsByIds() and matchesListFilters(): what a call that has read its page of
\* ids would answer now.
Answer(l) ==
  l.ids \cap CASE l.scope = "all" -> Live
               [] l.scope = "pending" -> InRow("pending")
               [] l.scope = "reviewed" -> InRow("reviewed")

\* list() answers and is over.
Fetch(c) == call[c].pc = "fetch" /\ Step(c, Idle)

-----------------------------------------------------------------------------
Advance(c) ==
  \/ Counts(c)
  \/ Sample(c)
  \/ Compare(c)
  \/ Scan(c)
  \/ Drop(c)
  \/ ReadIds(c)
  \/ ReadRows(c)
  \/ Index(c)
  \/ Page(c)
  \/ Fetch(c)

Next ==
  \/ \E x \in Ids : Insert(x) \/ Expire(x)
  \/ \E r \in Reviewers : (\E x \in Ids : ReviewRead(r, x)) \/ ReviewWrite(r)
  \/ \E c \in Calls : (\E s \in Asked : Begin(c, s)) \/ Advance(c)

Spec == Init /\ [][Next]_vars

\* A call that has begun goes on, and the console keeps asking for the
\* pending rows (every opening of the sweep page and every mission does).
FairSpec ==
  /\ Spec
  /\ \A c \in Calls : WF_vars(Advance(c)) /\ WF_vars(Begin(c, "pending"))
  /\ \A r \in Reviewers : WF_vars(ReviewWrite(r))

-----------------------------------------------------------------------------
(* Properties *)

\* A listing of the pending rows that overlaps no other listing, and no second
\* review of a row, shows every row that was pending from its beginning to its
\* end, whatever was inserted, reviewed or expired meanwhile and whatever
\* earlier repairs left behind, as long as the index is small enough to be
\* compared whole.
LoneListingIsComplete ==
  \A c \in Calls :
    LET l == call[c] IN
    (l.pc = "fetch" /\ l.scope = "pending" /\ l.sure)
      => l.since \cap InRow("pending") \subseteq Answer(l)

\* Once a rebuild from the rows of an older version has ended, and no listing
\* or review is under way, the index of all rows and that of the reviewed ones
\* lack none, however many rebuilds deleted them under one another.
RebuiltIndexIsWhole ==
  (rebuilt /\ (\A c \in Calls : call[c].pc = "idle"))
    => /\ Live \subseteq ranked["all"]
       /\ InRow("reviewed") \subseteq ranked["reviewed"]

\* A pending row that a repair dropped comes back: in the end, as long as few
\* enough rows are pending, the index holds them all again and again.
PendingComesBack ==
  <>[](Cardinality(pending) <= SampleSize)
    => []<>(InRow("pending") \subseteq ranked["pending"])
=============================================================================

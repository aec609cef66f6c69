---------------------------- MODULE FindingStore ----------------------------
(***************************************************************************)
(* FindingStoreService.storeFinding() as FindingPersister.persist() calls  *)
(* it: research cycles that run side by side store their findings, each    *)
(* one after the other.                                                    *)
(*                                                                         *)
(* A finding is first looked up by meaning, outside of any transaction.  A *)
(* transaction then merges it into what was found, or upserts it by the    *)
(* hash of its anchor; a finding that is new is cross-linked afterwards.   *)
(* Meanwhile other cycles store and the archive takes findings away.       *)
(*                                                                         *)
(* A finding is named by what its hash is made of: a cortex and an anchor, *)
(* that is an entity and a finding type.  A finding without an anchor      *)
(* hashes the clock and is a name of its own.  A finding has an edge to    *)
(* its anchor and may have edges to other entities.  Two texts are near    *)
(* when they make the same claim; of those about one entity the vector     *)
(* search finds any Limit.                                                 *)
(***************************************************************************)
EXTENDS Naturals, FiniteSets

CONSTANTS Cycles,    \* research cycles that store at the same time
          Cortices,
          Entities,
          Types,     \* finding types
          Clocks,    \* what a finding without an anchor hashes
          Claims,    \* what a text says, as far as its embedding tells
          NoClaim,   \* the embedder returned no vector
          Limit,     \* 3: findings the search for a duplicate returns
          MaxStores  \* bound: findings of all the cycles together

ASSUME FindingStoreAssumption ==
  /\ IsFiniteSet(Cycles) /\ IsFiniteSet(Cortices)
  /\ IsFiniteSet(Entities) /\ IsFiniteSet(Types) /\ IsFiniteSet(Clocks)
  /\ (Cortices \X (Entities \X Types)) \cap (Clocks \X Types) = {}
  /\ NoClaim \notin Claims /\ Limit \in Nat \ {0} /\ MaxStores \in Nat

VARIABLES
  row,      \* research_finding
  edges,    \* how often the entity edges of a finding were written
  cross,    \* how often its cross-links were
  related,  \* research_edge rows between findings
  links,    \* research_cycle_finding
  count,    \* research_cycle.findings_count
  call,     \* the call of storeFinding() a cycle is in
  left      \* findings the cycles have still to store

vars == <<row, edges, cross, related, links, count, call, left>>

Anchors == Entities \X Types
Anchored == Cortices \X Anchors
Loose == Clocks \X Types
Findings == Anchored \cup Loose
TypeOf(f) == IF f \in Anchored THEN f[2][2] ELSE f[2]

\* The entities a finding is about are those of its entity edges.
Row == [status : {"none", "active", "archived"}, claim : Claims \cup {NoClaim},
        about : SUBSET Entities]

\* Where the call is, the finding it stores by its hash, what it claims, the
\* entities it is about, the near duplicate it found, the findings it will
\* cross-link; history: the findings whose row others have written since the
\* lookup, and whether the lookup was full of findings of other types.
Call == [pc : {"idle", "lookup", "merge", "upsert", "relate", "link"},
         name : Findings, claim : Claims \cup {NoClaim},
         about : SUBSET Entities, near : Findings,
         also : SUBSET Findings, touched : SUBSET Findings, full : BOOLEAN]

\* Between two calls nothing is remembered.
Quiet == [pc |-> "idle"]

TypeOK ==
  /\ row \in [Findings -> Row]
  /\ edges \in [Findings -> Nat]
  /\ cross \in [Findings -> Nat]
  /\ related \in SUBSET (Findings \X Findings)
  /\ links \in SUBSET (Cycles \X {f \in Findings : row[f].status # "none"})
  /\ count \in [Cycles -> Nat]
  /\ call \in [Cycles -> Call \cup {Quiet}]
  /\ left \in 0..MaxStores

Init ==
  /\ row = [f \in Findings |->
              [status |-> "none", claim |-> NoClaim, about |-> {}]]
  /\ edges = [f \in Findings |-> 0]
  /\ cross = [f \in Findings |-> 0]
  /\ related = {}
  /\ links = {}
  /\ count = [c \in Cycles |-> 0]
  /\ call = [c \in Cycles |-> Quiet]
  /\ left = MaxStores

Active == {f \in Findings : row[f].status = "active"}

-----------------------------------------------------------------------------
(* storeFinding() up to its transaction *)

Pc(c) == call[c].pc
Goto(c, pc) == call' = [call EXCEPT ![c].pc = pc]
Leaves(c) == call' = [call EXCEPT ![c] = Quiet]
UnchangedRows == UNCHANGED <<row, edges, cross, related, links, count>>

\* The text is embedded.  Without a vector or an anchor nothing is looked up.
\* A name without an anchor is taken once: it holds the clock.
Store(c, f, claim, about) ==
  /\ Pc(c) = "idle" /\ left > 0
  /\ f \in Anchored => f[2][1] \in about
  /\ f \in Loose => /\ row[f].status = "none"
                    /\ \A d \in Cycles : Pc(d) # "idle" => call[d].name # f
  /\ left' = left - 1
  /\ call' = [call EXCEPT ![c] =
       [pc |-> IF f \in Anchored /\ claim # NoClaim THEN "lookup" ELSE "upsert",
        name |-> f, claim |-> claim, about |-> about, near |-> f, also |-> {},
        touched |-> {}, full |-> FALSE]]
  /\ UnchangedRows

\* The embedder rejects, or its vector has the wrong dimension.
EmbedFails(c) ==
  /\ Pc(c) = "idle" /\ left > 0
  /\ left' = left - 1
  /\ UNCHANGED call
  /\ UnchangedRows

\* Mutant of Near: a finding is looked for by its anchor alone.
NearOnAnchor(f, claim) ==
  {g \in Active \cap Anchored : g[2][1] = f[2][1] /\ row[g].claim = claim}

\* findSimilar() at 0.92, before its limit: what has an edge to the entity.
Near(f, claim) == {g \in Active : f[2][1] \in row[g].about /\ row[g].claim = claim}

\* What the search can return of the near ones.
Nearest(f, claim) ==
  LET near == Near(f, claim)
  IN {top \in SUBSET near :
        Cardinality(top) = IF Cardinality(near) < Limit THEN Cardinality(near)
                           ELSE Limit}

\* The first one of the same type is merged into.
Lookup(c) ==
  LET k == call[c] IN
  /\ Pc(c) = "lookup"
  /\ \E top \in Nearest(k.name, k.claim) :
       LET found == {g \in top : TypeOf(g) = TypeOf(k.name)} IN
       \/ /\ found = {}
          /\ call' = [call EXCEPT ![c].pc = "upsert", ![c].touched = {},
                                  ![c].full = (top # Near(k.name, k.claim))]
       \/ \E g \in found :
            call' = [call EXCEPT ![c].pc = "merge", ![c].near = g,
                                 ![c].touched = {}]
  /\ UNCHANGED left
  /\ UnchangedRows

-----------------------------------------------------------------------------
(* The transaction *)

\* Mutant of Linked: the counter goes up with every emission.
LinkedAlways(c, f) ==
  /\ links' = links \cup {<<c, f>>}
  /\ count' = [count EXCEPT ![c] = @ + 1]

\* linkCycleEmission(): the counter goes up when the link is new.
Linked(c, f) ==
  /\ links' = links \cup {<<c, f>>}
  /\ count' = IF <<c, f>> \in links THEN count
              ELSE [count EXCEPT ![c] = @ + 1]

\* The other calls remember that the row was written.
Touches(c, f, mine) ==
  call' = [d \in Cycles |->
             IF d = c THEN mine
             ELSE IF Pc(d) = "idle" THEN call[d]
             ELSE [call[d] EXCEPT !.touched = @ \cup {f}]]

\* mergeFinding() raises confidence, evidence and iteration, whatever has
\* become of the row since the lookup.
Merge(c) ==
  /\ Pc(c) = "merge"
  /\ Linked(c, call[c].near)
  /\ Leaves(c)
  /\ UNCHANGED <<row, edges, cross, related, left>>

\* Mutant of Upserted: a hit does not bring an archived finding back.
UpsertedAsIs(k) ==
  LET r == row[k.name]
  IN [status |-> IF r.status = "archived" THEN "archived" ELSE "active",
      claim |-> k.claim,
      about |-> IF r.status = "none" THEN k.about ELSE r.about]

\* upsertFindingByDedupHash(): a hit overwrites the claim and the status.  The
\* entity edges are written with the row, not with a hit.
Upserted(k) ==
  LET r == row[k.name]
  IN [status |-> "active", claim |-> k.claim,
      about |-> IF r.status = "none" THEN k.about ELSE r.about]

EdgesOf(k) ==
  IF k.about # {} /\ row[k.name].status = "none" THEN edges[k.name] + 1
  ELSE edges[k.name]

\* The upsert; answered is false when the commit is done and its answer lost.
Upsert(c, answered) ==
  LET k == call[c]
      more == answered /\ row[k.name].status = "none" /\ k.claim # NoClaim
  IN /\ Pc(c) = "upsert"
     /\ row' = [row EXCEPT ![k.name] = Upserted(k)]
     /\ edges' = [edges EXCEPT ![k.name] = EdgesOf(k)]
     /\ Linked(c, k.name)
     /\ Touches(c, k.name, IF more THEN [k EXCEPT !.pc = "relate"] ELSE Quiet)
     /\ UNCHANGED <<cross, related, left>>

\* The transaction rolls back; persist() counts a failure and goes on.
RollsBack(c) ==
  /\ Pc(c) \in {"merge", "upsert"}
  /\ Leaves(c)
  /\ UNCHANGED left
  /\ UnchangedRows

-----------------------------------------------------------------------------
(* After the transaction, for a new finding *)

\* findSimilar() at 0.7 on everything: what says the same is not linked.
Relate(c) ==
  LET k == call[c] IN
  /\ Pc(c) = "relate"
  /\ \E also \in SUBSET {g \in Active : g # k.name
                                        /\ row[g].claim \notin {NoClaim, k.claim}} :
       /\ Cardinality(also) <= 3
       /\ IF also = {} THEN Leaves(c)
          ELSE call' = [call EXCEPT ![c].pc = "link", ![c].also = also]
  /\ UNCHANGED left
  /\ UnchangedRows

Link(c) ==
  LET k == call[c] IN
  /\ Pc(c) = "link"
  /\ related' = related \cup ({k.name} \X k.also)
  /\ cross' = [cross EXCEPT ![k.name] = @ + 1]
  /\ Leaves(c)
  /\ UNCHANGED <<row, edges, links, count, left>>

\* A failure to cross-link is swallowed.
RelateFails(c) ==
  /\ Pc(c) \in {"relate", "link"}
  /\ Leaves(c)
  /\ UNCHANGED left
  /\ UnchangedRows

\* archiveFinding(), expireOld().
Archive(f) ==
  /\ f \in Active
  /\ row' = [row EXCEPT ![f].status = "archived"]
  /\ call' = [d \in Cycles |->
                IF Pc(d) = "idle" THEN call[d]
                ELSE [call[d] EXCEPT !.touched = @ \cup {f}]]
  /\ UNCHANGED <<edges, cross, related, links, count, left>>

-----------------------------------------------------------------------------
Next ==
  \/ \E c \in Cycles :
       \/ \E f \in Findings, claim \in Claims \cup {NoClaim},
             about \in SUBSET Entities : Store(c, f, claim, about)
       \/ EmbedFails(c)
       \/ Lookup(c)
       \/ Merge(c)
       \/ \E answered \in BOOLEAN : Upsert(c, answered)
       \/ RollsBack(c)
       \/ Relate(c)
       \/ Link(c)
       \/ RelateFails(c)
  \/ \E f \in Findings : Archive(f)

Spec == Init /\ [][Next]_vars

-----------------------------------------------------------------------------
(* Properties *)

\* findings_count of a cycle is the number of findings linked to it, however
\* often the cycle emits the same one and whichever cycle stored it first.
CountIsLinks ==
  \A c \in Cycles : count[c] = Cardinality({f \in Findings : <<c, f>> \in links})

\* A call is about to upsert a claim that an active finding of the same type on
\* its entity already makes only when that finding was written after the call
\* looked, or when its search was full of findings of other types: two near
\* duplicates are the work of two calls that overlap, or of a crowded entity.
DuplicatesOnlyByRace ==
  \A c \in Cycles :
    (Pc(c) = "upsert" /\ call[c].name \in Anchored /\ call[c].claim # NoClaim)
      => \A g \in Active :
           (/\ call[c].name[2][1] \in row[g].about
            /\ TypeOf(g) = TypeOf(call[c].name) /\ row[g].claim = call[c].claim)
             => g \in call[c].touched \/ call[c].full

\* A finding a cycle has just stored is among the active ones, also when it was
\* archived before the cycle began, unless the archive took it between the
\* lookup and the merge.
FreshIsVisible ==
  [][\A c \in Cycles :
       /\ Merge(c) => \/ row'[call[c].near].status = "active"
                      \/ call[c].near \in call[c].touched
       /\ \A answered \in BOOLEAN :
            Upsert(c, answered) => row'[call[c].name].status = "active"]_vars

\* The edges of a finding are written once, with its row, and it is cross-linked
\* at most once, however many cycles emit it again and fail half way.
WrittenOnce ==
  \A f \in Findings :
    /\ edges[f] = IF row[f].about # {} THEN 1 ELSE 0
    /\ cross[f] <= 1
=============================================================================

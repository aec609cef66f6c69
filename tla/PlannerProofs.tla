---------------------------- MODULE PlannerProofs ----------------------------
(***************************************************************************)
(* What holds of Planner for any registry, settings and plans.  A filter   *)
(* is a recursive function; what it returns is proved from a least place   *)
(* where the claim fails.  Refines says what the filters make of a plan,   *)
(* node by node, and that is enough for the plan to stay executable.       *)
(***************************************************************************)
EXTENDS Planner, SequenceTheorems, FiniteSetTheorems, NaturalsInduction, TLAPS

-----------------------------------------------------------------------------
(* The elements of a sequence at some of its places *)

LEMMA LeastNat ==
  ASSUME NEW S \in SUBSET Nat, S # {}
  PROVE  \E n \in S : \A m \in S : n <= m
<1>1. PICK n \in S : \A m \in S : ~(<<m, n>> \in OpToRel(<, Nat))
  BY NatLessThanWellFounded, WFMin, Zenon
<1>2. \A m \in S : ~(m < n)
  BY <1>1 DEF OpToRel
<1> QED
  BY <1>2

\* f has what is picked from each of the first n beginnings of q.
Picks(f, q, I, n) ==
  f = [i \in 0..n |-> IF i = 0 THEN <<>>
                      ELSE IF i \in I THEN Append(f[i - 1], q[i]) ELSE f[i - 1]]

LEMMA PicksValues ==
  ASSUME NEW f, NEW q, NEW I, NEW n \in Nat, Picks(f, q, I, n)
  PROVE  /\ f[0] = <<>>
         /\ \A i \in 1..n : f[i] = IF i \in I THEN Append(f[i - 1], q[i]) ELSE f[i - 1]
<1> DEFINE w == [i \in 0..n |-> IF i = 0 THEN <<>>
                               ELSE IF i \in I THEN Append(f[i - 1], q[i]) ELSE f[i - 1]]
<1>1. f = w
  BY DEF Picks
<1>2. w[0] = <<>>
  OBVIOUS
<1>3. ASSUME NEW i \in 1..n
      PROVE  w[i] = IF i \in I THEN Append(f[i - 1], q[i]) ELSE f[i - 1]
  <2>1. i \in 0..n /\ i # 0
    OBVIOUS
  <2> QED
    BY <2>1
<1> HIDE DEF w
<1> QED
  BY <1>1, <1>2, <1>3

LEMMA PicksExtends ==
  ASSUME NEW f, NEW q, NEW I, NEW n \in Nat, Picks(f, q, I, n)
  PROVE  \E g : Picks(g, q, I, n + 1)
<1> DEFINE last == IF n + 1 \in I THEN Append(f[n], q[n + 1]) ELSE f[n]
           g == [i \in 0..(n + 1) |-> IF i = n + 1 THEN last ELSE f[i]]
           w == [i \in 0..(n + 1) |->
                   IF i = 0 THEN <<>>
                   ELSE IF i \in I THEN Append(g[i - 1], q[i]) ELSE g[i - 1]]
<1>1. \A i \in 0..n : g[i] = f[i]
  OBVIOUS
<1>2. \A i \in 0..(n + 1) : g[i] = w[i]
  <2> TAKE i \in 0..(n + 1)
  <2>1. CASE i = 0
    BY <1>1, <2>1, PicksValues
  <2>2. CASE i = n + 1
    BY <1>1, <2>2
  <2>3. CASE i \in 1..n
    <3>1. i - 1 \in 0..n /\ i \in 0..n
      BY <2>3
    <3>2. g[i] = f[i] /\ g[i - 1] = f[i - 1]
      BY <1>1, <3>1
    <3>3. f[i] = IF i \in I THEN Append(f[i - 1], q[i]) ELSE f[i - 1]
      BY <2>3, PicksValues
    <3>4. w[i] = IF i \in I THEN Append(g[i - 1], q[i]) ELSE g[i - 1]
      BY <2>3
    <3> HIDE DEF g, w
    <3> QED
      BY <3>2, <3>3, <3>4
  <2> QED
    BY <2>1, <2>2, <2>3
<1>3. g = w
  BY <1>2
<1> HIDE DEF g
<1> QED
  BY <1>3 DEF Picks, g

LEMMA PicksExists ==
  ASSUME NEW q, NEW I, NEW n \in Nat
  PROVE  \E f : Picks(f, q, I, n)
<1> DEFINE Good(k) == \E f : Picks(f, q, I, k)
           Bad == {k \in Nat : ~Good(k)}
<1>1. Good(0)
  <2>1. Picks([i \in 0..0 |-> <<>>], q, I, 0)
    BY DEF Picks
  <2> QED
    BY <2>1
<1>2. ASSUME NEW k \in Nat, Good(k) PROVE Good(k + 1)
  BY <1>2, PicksExtends
<1> SUFFICES ASSUME Bad # {} PROVE FALSE
  OBVIOUS
<1> HIDE DEF Good
<1>3. PICK k \in Bad : \A m \in Bad : k <= m
  BY LeastNat
<1>4. k # 0
  BY <1>1
<1>5. k - 1 \in Nat /\ Good(k - 1)
  BY <1>3, <1>4
<1> QED
  BY <1>2, <1>5

LEMMA PickedIsPicks ==
  ASSUME NEW q, NEW I, Len(q) \in Nat
  PROVE  \E f : Picks(f, q, I, Len(q)) /\ Picked(q, I) = f[Len(q)]
<1> DEFINE n == Len(q)
           f == CHOOSE g : g = [i \in 0..n |->
                  IF i = 0 THEN <<>>
                  ELSE IF i \in I THEN Append(g[i - 1], q[i]) ELSE g[i - 1]]
<1>1. Picked(q, I) = f[n]
  BY DEF Picked
<1>2. \E g : Picks(g, q, I, n)
  BY PicksExists
<1>3. \E g : g = [i \in 0..n |->
                    IF i = 0 THEN <<>>
                    ELSE IF i \in I THEN Append(g[i - 1], q[i]) ELSE g[i - 1]]
  BY <1>2 DEF Picks
<1>4. Picks(f, q, I, n)
  BY <1>3, Zenon DEF Picks
<1> QED
  BY <1>1, <1>4

\* No cortex has two nodes.
Unique(nodes) ==
  \A i, j \in DOMAIN nodes : nodes[i].cortex = nodes[j].cortex => i = j

\* r is what is picked from the first n elements of q.
Drawn(r, q, I, n) ==
  /\ Len(r) <= n
  /\ \A k \in 1..Len(r) : \E i \in I : i <= n /\ r[k] = q[i]
  /\ \A i \in I : i <= n => \E k \in 1..Len(r) : r[k] = q[i]
  /\ (\A i, j \in I : q[i].cortex = q[j].cortex => i = j) => Unique(r)

LEMMA PickedHolds ==
  ASSUME NEW T, NEW q \in Seq(T), NEW I \in SUBSET DOMAIN q
  PROVE  Picked(q, I) \in Seq(T) /\ Drawn(Picked(q, I), q, I, Len(q))
<1>1. PICK f : Picks(f, q, I, Len(q)) /\ Picked(q, I) = f[Len(q)]
  BY PickedIsPicks
<1> DEFINE Good(k) == f[k] \in Seq(T) /\ Drawn(f[k], q, I, k)
           Bad == {k \in 0..Len(q) : ~Good(k)}
<1>2. Good(0)
  <2>1. f[0] = <<>>
    BY <1>1, PicksValues
  <2> QED
    BY <2>1 DEF Drawn, Unique
<1>3. ASSUME NEW n \in 0..Len(q), n # 0, Good(n - 1) PROVE Good(n)
  <2> DEFINE r == f[n - 1]
  <2>1. /\ n \in 1..Len(q) /\ n - 1 \in Nat /\ q[n] \in T
        /\ f[n] = IF n \in I THEN Append(r, q[n]) ELSE r
    BY <1>1, <1>3, PicksValues
  <2>2. r \in Seq(T) /\ Drawn(r, q, I, n - 1)
    BY <1>3
  <2> HIDE DEF r
  <2>3. CASE n \in I
    <3> DEFINE s == Append(r, q[n])
    <3>1. /\ s \in Seq(T) /\ Len(s) = Len(r) + 1 /\ s[Len(s)] = q[n]
          /\ \A k \in 1..Len(r) : s[k] = r[k]
          /\ Len(r) \in Nat /\ DOMAIN r = 1..Len(r) /\ DOMAIN s = 1..Len(s)
      BY <2>1, <2>2, AppendProperties
    <3> HIDE DEF s
    <3>2. Len(s) <= n
      BY <2>1, <2>2, <3>1 DEF Drawn
    <3>3. \A k \in 1..Len(s) : \E i \in I : i <= n /\ s[k] = q[i]
      <4> TAKE k \in 1..Len(s)
      <4>1. CASE k = Len(s)
        BY <2>1, <2>3, <3>1, <4>1
      <4>2. CASE k \in 1..Len(r)
        <5>1. PICK i \in I : i <= n - 1 /\ r[k] = q[i]
          BY <2>2, <4>2 DEF Drawn
        <5> QED
          BY <2>1, <3>1, <4>2, <5>1
      <4> QED
        BY <3>1, <4>1, <4>2
    <3>4. \A i \in I : i <= n => \E k \in 1..Len(s) : s[k] = q[i]
      <4> SUFFICES ASSUME NEW i \in I, i <= n PROVE \E k \in 1..Len(s) : s[k] = q[i]
        OBVIOUS
      <4>1. CASE i = n
        BY <3>1, <4>1
      <4>2. CASE i <= n - 1
        <5>1. PICK k \in 1..Len(r) : r[k] = q[i]
          BY <2>2, <4>2 DEF Drawn
        <5> QED
          BY <3>1, <5>1
      <4> QED
        BY <2>1, <4>1, <4>2
    <3>5. ASSUME \A i, j \in I : q[i].cortex = q[j].cortex => i = j
          PROVE  Unique(s)
      <4>1. Unique(r)
        BY <2>2, <3>5 DEF Drawn
      <4>2. \A k \in 1..Len(r) : s[k].cortex # q[n].cortex
        <5> TAKE k \in 1..Len(r)
        <5>1. PICK i \in I : i <= n - 1 /\ r[k] = q[i]
          BY <2>2 DEF Drawn
        <5> QED
          BY <2>1, <2>3, <3>1, <3>5, <5>1
      <4> QED
        BY <3>1, <4>1, <4>2 DEF Unique
    <3>6. Drawn(s, q, I, n)
      BY <3>2, <3>3, <3>4, <3>5 DEF Drawn
    <3>7. f[n] = s
      BY <2>1, <2>3 DEF s, r
    <3> QED
      BY <3>1, <3>6, <3>7
  <2>4. CASE n \notin I
    <3>1. \A i \in I : i <= n => i <= n - 1
      BY <2>1, <2>4
    <3>2. \A i \in I : i <= n - 1 => i <= n
      BY <2>1
    <3>3. Len(r) <= n
      BY <2>1, <2>2 DEF Drawn
    <3> QED
      BY <2>1, <2>2, <2>4, <3>1, <3>2, <3>3 DEF Drawn
  <2> QED
    BY <2>3, <2>4
<1> HIDE DEF Good
<1>4. Bad = {}
  <2> SUFFICES ASSUME Bad # {} PROVE FALSE
    OBVIOUS
  <2>0. Bad \in SUBSET Nat
    OBVIOUS
  <2>1. PICK k \in Bad : \A m \in Bad : k <= m
    BY <2>0, LeastNat
  <2>2. k # 0 /\ k - 1 \in 0..Len(q)
    BY <1>2, <2>1
  <2>3. Good(k - 1)
    BY <2>1, <2>2
  <2> QED
    BY <1>3, <2>1, <2>2, <2>3
<1> QED
  BY <1>1, <1>4 DEF Good

-----------------------------------------------------------------------------
(* The filters of a plan *)

LEMMA SettingsTypes ==
  ASSUME settings \in Settings
  PROVE  /\ settings.disabled \in SUBSET Cortices /\ settings.mandatory \in BOOLEAN
         /\ settings.max \in Nat /\ settings.forced \in Seq(Cortices)
         /\ Strategist \in Registry /\ Registry \subseteq Cortices
         /\ UserScoped \subseteq Registry \ {Strategist}
BY PlannerAssumption

LEMMA NodeIs ==
  ASSUME NEW c \in Cortices, NEW d \in SUBSET Cortices
  PROVE  Node(c, d) \in Nodes /\ Node(c, d).cortex = c /\ Node(c, d).deps = d
BY DEF Node, Nodes

\* Every element of r is one of q.
From(r, q) == \A k \in DOMAIN r : \E i \in DOMAIN q : r[k] = q[i]

LEMMA KeepFacts ==
  ASSUME NEW nodes \in Seq(Nodes), NEW S
  PROVE  /\ Keep(nodes, S) \in Seq(Nodes) /\ Len(Keep(nodes, S)) <= Len(nodes)
         /\ From(Keep(nodes, S), nodes)
         /\ Names(Keep(nodes, S)) = Names(nodes) \cap S
         /\ Unique(nodes) => Unique(Keep(nodes, S))
<1> DEFINE I == {i \in DOMAIN nodes : nodes[i].cortex \in S}
           r == Keep(nodes, S)
<1>1. r = Picked(nodes, I)
  BY DEF Keep
<1>2. r \in Seq(Nodes) /\ Drawn(r, nodes, I, Len(nodes))
  BY <1>1, PickedHolds
<1>3. DOMAIN r = 1..Len(r) /\ DOMAIN nodes = 1..Len(nodes)
  BY <1>2
<1> HIDE DEF r
<1>4. From(r, nodes) /\ Len(r) <= Len(nodes)
  BY <1>2, <1>3 DEF From, Drawn
<1>5. Names(r) = Names(nodes) \cap S
  <2>1. ASSUME NEW k \in DOMAIN r PROVE r[k].cortex \in Names(nodes) \cap S
    <3>1. PICK i \in I : r[k] = nodes[i]
      BY <1>2, <1>3 DEF Drawn
    <3> QED
      BY <3>1 DEF Names
  <2>2. ASSUME NEW i \in I PROVE nodes[i].cortex \in Names(r)
    <3>1. i <= Len(nodes)
      BY <1>3
    <3>2. PICK k \in DOMAIN r : r[k] = nodes[i]
      BY <1>2, <1>3, <3>1 DEF Drawn
    <3> QED
      BY <3>2 DEF Names
  <2> QED
    BY <2>1, <2>2 DEF Names
<1>6. Unique(nodes) => Unique(r)
  BY <1>2 DEF Unique, Drawn
<1> QED
  BY <1>2, <1>4, <1>5, <1>6 DEF r

LEMMA WithoutFacts ==
  ASSUME NEW nodes \in Seq(Nodes), NEW S
  PROVE  /\ Without(nodes, S) \in Seq(Nodes) /\ Len(Without(nodes, S)) <= Len(nodes)
         /\ From(Without(nodes, S), nodes)
         /\ Names(Without(nodes, S)) = Names(nodes) \ S
         /\ Unique(nodes) => Unique(Without(nodes, S))
<1>1. Without(nodes, S) = Keep(nodes, Names(nodes) \ S)
  BY DEF Without
<1>2. Names(nodes) \cap (Names(nodes) \ S) = Names(nodes) \ S
  OBVIOUS
<1> QED
  BY <1>1, <1>2, KeepFacts

LEMMA NamesOf ==
  ASSUME NEW nodes \in Seq(Nodes)
  PROVE  /\ Names(nodes) \subseteq Cortices
         /\ \A c \in Names(nodes) : \E i \in DOMAIN nodes : nodes[i].cortex = c
         /\ \A i \in DOMAIN nodes : /\ nodes[i] \in Nodes /\ nodes[i].deps \subseteq Cortices
                                    /\ nodes[i].cortex \in Names(nodes)
         /\ Names(nodes) = {} => nodes = <<>>
<1>1. \A i \in DOMAIN nodes : nodes[i] \in Nodes
  OBVIOUS
<1>2. \A i \in DOMAIN nodes : nodes[i].cortex \in Cortices /\ nodes[i].deps \subseteq Cortices
  BY <1>1 DEF Nodes
<1>3. DOMAIN nodes = {} => nodes = <<>>
  BY EmptySeq
<1> QED
  BY <1>1, <1>2, <1>3 DEF Names

\* The nodes for a list of cortices depend on nothing.
LEMMA FlatFacts ==
  ASSUME NEW names \in Seq(Cortices)
  PROVE  /\ Flat(names) \in Seq(Nodes) /\ DOMAIN Flat(names) = DOMAIN names
         /\ \A i \in DOMAIN names : /\ Flat(names)[i].cortex = names[i]
                                    /\ Flat(names)[i].deps = {}
<1>1. \A i \in DOMAIN names : /\ Node(names[i], {}) \in Nodes
                              /\ Node(names[i], {}).cortex = names[i]
                              /\ Node(names[i], {}).deps = {}
  BY DEF Node, Nodes
<1>2. Flat(names) = [i \in 1..Len(names) |-> Node(names[i], {})]
  BY DEF Flat
<1> QED
  BY <1>1, <1>2

\* What is pushed depends on nothing and was not there.
IsPushed(n, nodes) ==
  /\ n.deps = {} /\ n.cortex \in Registry \ (settings.disabled \cup Names(nodes))
  /\ n.cortex \in Range(settings.forced) \cup {Strategist}

LEMMA FirstIsOnce ==
  ASSUME NEW names \in Seq(Cortices),
         NEW i \in First(names), NEW j \in First(names), names[i] = names[j]
  PROVE  i = j
<1>1. i \in 1..Len(names) /\ j \in 1..Len(names)
  BY DEF First
<1>2. ~(i < j) /\ ~(j < i)
  BY <1>1 DEF First
<1> QED
  BY <1>1, <1>2

LEMMA ForcedFacts ==
  ASSUME settings \in Settings, NEW nodes
  PROVE  /\ Forced(nodes) \in Seq(Nodes) /\ Unique(Forced(nodes))
         /\ \A k \in DOMAIN Forced(nodes) : IsPushed(Forced(nodes)[k], nodes)
<1> DEFINE names == settings.forced
           missing == Registry \ (settings.disabled \cup Names(nodes))
           I == {i \in First(names) : names[i] \in missing}
           q == Flat(names)
           r == Forced(nodes)
<1>1. names \in Seq(Cortices)
  BY SettingsTypes
<1>2. /\ q \in Seq(Nodes) /\ DOMAIN q = DOMAIN names
      /\ \A i \in DOMAIN names : q[i].cortex = names[i] /\ q[i].deps = {}
  BY <1>1, FlatFacts
<1>3. I \in SUBSET DOMAIN q
  BY <1>2 DEF First
<1>4. r = Picked(q, I)
  BY DEF Forced
<1>5. r \in Seq(Nodes) /\ Drawn(r, q, I, Len(q))
  BY <1>2, <1>3, <1>4, PickedHolds
<1> HIDE DEF q, r
<1>6. \A i, j \in I : q[i].cortex = q[j].cortex => i = j
  <2> SUFFICES ASSUME NEW i \in I, NEW j \in I, q[i].cortex = q[j].cortex PROVE i = j
    OBVIOUS
  <2>1. i \in First(names) /\ j \in First(names) /\ names[i] = names[j]
    BY <1>2, <1>3
  <2> HIDE DEF names
  <2> QED
    BY <1>1, <2>1, FirstIsOnce
<1>7. Unique(r)
  BY <1>5, <1>6 DEF Drawn
<1>8. ASSUME NEW k \in DOMAIN r PROVE IsPushed(r[k], nodes)
  <2>1. PICK i \in I : r[k] = q[i]
    BY <1>5 DEF Drawn
  <2>2. i \in DOMAIN names /\ names[i] \in missing
    BY <1>2, <1>3
  <2>3. names[i] \in Range(names)
    BY <2>2 DEF Range
  <2> QED
    BY <1>2, <2>1, <2>2, <2>3 DEF IsPushed
<1> QED
  BY <1>5, <1>7, <1>8 DEF r

LEMMA ConcatOf ==
  ASSUME NEW p \in Seq(Nodes), NEW q \in Seq(Nodes)
  PROVE  /\ p \o q \in Seq(Nodes)
         /\ \A k \in DOMAIN (p \o q) : \/ \E i \in DOMAIN p : (p \o q)[k] = p[i]
                                       \/ \E i \in DOMAIN q : (p \o q)[k] = q[i]
         /\ Names(p \o q) = Names(p) \cup Names(q)
         /\ Unique(p) /\ Unique(q) /\ Names(p) \cap Names(q) = {} => Unique(p \o q)
<1> DEFINE r == p \o q
           m == Len(p)
           n == Len(q)
<1>1. /\ r \in Seq(Nodes) /\ Len(r) = m + n /\ m \in Nat /\ n \in Nat
      /\ DOMAIN p = 1..m /\ DOMAIN q = 1..n /\ DOMAIN r = 1..(m + n)
      /\ \A k \in 1..m : r[k] = p[k]
      /\ \A k \in (m + 1)..(m + n) : k - m \in 1..n /\ r[k] = q[k - m]
  BY ConcatProperties
<1> HIDE DEF r, m, n
<1>2. \A k \in 1..n : k + m \in (m + 1)..(m + n) /\ r[k + m] = q[k]
  <2> TAKE k \in 1..n
  <2>1. k + m \in (m + 1)..(m + n) /\ (k + m) - m = k
    BY <1>1
  <2> QED
    BY <1>1, <2>1
<1>3. ASSUME NEW k \in DOMAIN r
      PROVE  (\E i \in DOMAIN p : r[k] = p[i]) \/ (\E i \in DOMAIN q : r[k] = q[i])
  <2>1. k \in 1..m \/ k \in (m + 1)..(m + n)
    BY <1>1
  <2> QED
    BY <1>1, <2>1
<1>4. Names(r) = Names(p) \cup Names(q)
  <2>1. Names(r) \subseteq Names(p) \cup Names(q)
    BY <1>3 DEF Names
  <2>2. ASSUME NEW i \in DOMAIN p PROVE p[i].cortex \in Names(r)
    BY <1>1 DEF Names
  <2>3. ASSUME NEW i \in DOMAIN q PROVE q[i].cortex \in Names(r)
    <3>1. i + m \in DOMAIN r /\ r[i + m] = q[i]
      BY <1>1, <1>2
    <3> QED
      BY <3>1 DEF Names
  <2> QED
    BY <2>1, <2>2, <2>3 DEF Names
<1>5. ASSUME Unique(p), Unique(q), Names(p) \cap Names(q) = {} PROVE Unique(r)
  <2> SUFFICES ASSUME NEW k \in DOMAIN r, NEW l \in DOMAIN r, r[k].cortex = r[l].cortex
               PROVE  k = l
    BY DEF Unique
  <2>1. CASE k \in 1..m /\ l \in 1..m
    BY <1>1, <1>5, <2>1 DEF Unique
  <2>2. CASE k \in (m + 1)..(m + n) /\ l \in (m + 1)..(m + n)
    <3>1. /\ k - m \in DOMAIN q /\ l - m \in DOMAIN q
          /\ q[k - m].cortex = q[l - m].cortex
      BY <1>1, <2>2
    <3>2. k - m = l - m
      BY <1>5, <3>1 DEF Unique
    <3> QED
      BY <1>1, <2>2, <3>2
  <2>3. CASE k \in 1..m /\ l \in (m + 1)..(m + n)
    <3>1. r[k].cortex \in Names(p) /\ r[l].cortex \in Names(q)
      BY <1>1, <2>3 DEF Names
    <3> QED
      BY <1>5, <3>1
  <2>4. CASE l \in 1..m /\ k \in (m + 1)..(m + n)
    <3>1. r[l].cortex \in Names(p) /\ r[k].cortex \in Names(q)
      BY <1>1, <2>4 DEF Names
    <3> QED
      BY <1>5, <3>1
  <2> QED
    BY <1>1, <2>1, <2>2, <2>3, <2>4
<1> QED
  BY <1>1, <1>3, <1>4, <1>5 DEF r

LEMMA OneNode ==
  ASSUME NEW n \in Nodes
  PROVE  /\ <<n>> \in Seq(Nodes) /\ Unique(<<n>>) /\ Names(<<n>>) = {n.cortex}
         /\ \A k \in DOMAIN <<n>> : <<n>>[k] = n
<1>1. DOMAIN <<n>> = {1} /\ <<n>>[1] = n /\ <<n>> \in Seq(Nodes)
  OBVIOUS
<1> QED
  BY <1>1 DEF Unique, Names

LEMMA PushedFacts ==
  ASSUME settings \in Settings, NEW nodes \in Seq(Nodes)
  PROVE  /\ Pushed(nodes) \in Seq(Nodes) /\ Unique(Pushed(nodes))
         /\ \A k \in DOMAIN Pushed(nodes) : IsPushed(Pushed(nodes)[k], nodes)
         /\ settings.mandatory /\ Strategist \notin settings.disabled
              => Strategist \in Names(nodes) \cup Names(Pushed(nodes))
         /\ Injects(nodes \o Forced(nodes))
              => Strategist \notin Names(nodes) \cup settings.disabled
<1> DEFINE f == Forced(nodes)
           s == Node(Strategist, {})
<1>1. /\ f \in Seq(Nodes) /\ Unique(f) /\ \A k \in DOMAIN f : IsPushed(f[k], nodes)
  BY ForcedFacts
<1>2. s \in Nodes /\ s.cortex = Strategist /\ s.deps = {}
  BY SettingsTypes, NodeIs
<1> HIDE DEF f, s
<1>3. Names(nodes \o f) = Names(nodes) \cup Names(f)
  BY <1>1, ConcatOf
<1>4. Strategist \in Registry
  BY SettingsTypes
<1>5. CASE Injects(nodes \o f)
  <2>1. Pushed(nodes) = f \o <<s>>
    BY <1>1, <1>2, <1>5, AppendIsConcat DEF Pushed, f, s
  <2>2. /\ Strategist \notin Names(nodes) \cup Names(f) \cup settings.disabled
    BY <1>3, <1>5 DEF Injects
  <2>3. /\ <<s>> \in Seq(Nodes) /\ Unique(<<s>>) /\ Names(<<s>>) = {Strategist}
        /\ \A k \in DOMAIN <<s>> : <<s>>[k] = s
    BY <1>2, OneNode
  <2>4. IsPushed(s, nodes)
    BY <1>2, <1>4, <2>2 DEF IsPushed
  <2> DEFINE one == <<s>>
  <2> HIDE DEF one
  <2>5. /\ f \o one \in Seq(Nodes) /\ Unique(f \o one)
        /\ Names(f \o one) = Names(f) \cup {Strategist}
        /\ \A k \in DOMAIN (f \o one) : \/ \E i \in DOMAIN f : (f \o one)[k] = f[i]
                                        \/ \E i \in DOMAIN one : (f \o one)[k] = one[i]
    <3>1. one \in Seq(Nodes) /\ Unique(one) /\ Names(one) = {Strategist}
      BY <2>3 DEF one
    <3>2. Names(f) \cap Names(one) = {}
      BY <2>2, <3>1
    <3> QED
      BY <1>1, <3>1, <3>2, ConcatOf
  <2>6. \A k \in DOMAIN (f \o one) : IsPushed((f \o one)[k], nodes)
    BY <1>1, <2>3, <2>4, <2>5 DEF one
  <2> QED
    BY <2>1, <2>2, <2>5, <2>6 DEF one, f
<1>6. CASE ~Injects(nodes \o f)
  <2>1. Pushed(nodes) = f
    BY <1>6 DEF Pushed, f
  <2>2. settings.mandatory /\ Strategist \notin settings.disabled
          => Strategist \in Names(nodes) \cup Names(f)
    BY <1>3, <1>4, <1>6 DEF Injects
  <2> QED
    BY <1>1, <1>6, <2>1, <2>2 DEF f
<1> QED
  BY <1>5, <1>6

LEMMA FromTransitive ==
  ASSUME NEW p, NEW q, NEW r, From(p, q), From(q, r)
  PROVE  From(p, r)
BY DEF From

LEMMA FirstOnes ==
  ASSUME NEW q \in Seq(Nodes), NEW m \in 0..Len(q)
  PROVE  /\ SubSeq(q, 1, m) \in Seq(Nodes) /\ Len(SubSeq(q, 1, m)) = m
         /\ From(SubSeq(q, 1, m), q) /\ Names(SubSeq(q, 1, m)) \subseteq Names(q)
         /\ Unique(q) => Unique(SubSeq(q, 1, m))
<1> DEFINE r == SubSeq(q, 1, m)
<1>1. /\ r \in Seq(Nodes) /\ Len(r) = m /\ DOMAIN r = 1..m /\ 1..m \subseteq DOMAIN q
      /\ \A k \in 1..m : r[k] = q[k]
  OBVIOUS
<1> HIDE DEF r
<1>2. From(r, q) /\ Names(r) \subseteq Names(q)
  BY <1>1 DEF From, Names
<1>3. Unique(q) => Unique(r)
  BY <1>1 DEF Unique
<1> QED
  BY <1>1, <1>2, <1>3 DEF r

\* The clamp keeps the strategist, and the limit except for it.
LEMMA ClampFacts ==
  ASSUME settings \in Settings, NEW nodes \in Seq(Nodes)
  PROVE  /\ Clamp(nodes) \in Seq(Nodes) /\ From(Clamp(nodes), nodes)
         /\ Unique(nodes) => Unique(Clamp(nodes))
         /\ Len(Clamp(nodes)) <= settings.max \/ Names(Clamp(nodes)) = {Strategist}
         /\ Strategist \in Names(nodes) => Strategist \in Names(Clamp(nodes))
<1>1. CASE Len(nodes) <= settings.max
  <2>1. Clamp(nodes) = nodes
    BY <1>1 DEF Clamp
  <2> QED
    BY <1>1, <2>1 DEF From
<1>2. CASE ~(Len(nodes) <= settings.max)
  <2> DEFINE others == Without(nodes, {Strategist})
             there == Strategist \in Names(nodes)
             budget == IF there /\ settings.max > 0 THEN settings.max - 1 ELSE settings.max
             m == IF budget < Len(others) THEN budget ELSE Len(others)
             first == SubSeq(others, 1, m)
             own == Keep(nodes, {Strategist})
  <2>1. Clamp(nodes) = IF there THEN Append(first, own[1]) ELSE first
    BY <1>2 DEF Clamp
  <2>2. /\ others \in Seq(Nodes) /\ From(others, nodes)
        /\ Names(others) = Names(nodes) \ {Strategist}
        /\ Unique(nodes) => Unique(others)
    BY WithoutFacts
  <2>3. settings.max \in Nat /\ Len(others) \in Nat
    BY <2>2, SettingsTypes
  <2>4. m \in 0..Len(others) /\ m <= budget /\ budget \in Nat
    BY <2>3
  <2>5. /\ first \in Seq(Nodes) /\ Len(first) = m /\ From(first, others)
        /\ Strategist \notin Names(first) /\ (Unique(nodes) => Unique(first))
    <3> HIDE DEF m, others
    <3> QED
      BY <2>2, <2>4, FirstOnes
  <2>6. From(first, nodes)
    BY <2>2, <2>5, FromTransitive
  <2>7. CASE ~there
    <3> HIDE DEF first, m
    <3> QED
      BY <2>1, <2>3, <2>4, <2>5, <2>6, <2>7
  <2>8. CASE there
    <3> DEFINE s == own[1]
    <3>1. own \in Seq(Nodes) /\ From(own, nodes) /\ Names(own) = {Strategist}
      BY <2>8, KeepFacts
    <3> HIDE DEF own, first, m, others
    <3>2. 1 \in DOMAIN own
      <4>1. PICK i \in DOMAIN own : own[i].cortex = Strategist
        BY <3>1, NamesOf
      <4> QED
        BY <3>1, <4>1
    <3>3. s \in Nodes /\ s.cortex = Strategist /\ \E i \in DOMAIN nodes : s = nodes[i]
      BY <3>1, <3>2, NamesOf DEF From
    <3> HIDE DEF s
    <3>4. /\ <<s>> \in Seq(Nodes) /\ Unique(<<s>>) /\ Names(<<s>>) = {Strategist}
          /\ \A k \in DOMAIN <<s>> : <<s>>[k] = s
      BY <3>3, OneNode
    <3> DEFINE one == <<s>>
    <3>5. Len(one) = 1
      OBVIOUS
    <3> HIDE DEF one
    <3>6. /\ first \o one \in Seq(Nodes) /\ Names(first \o one) = Names(first) \cup {Strategist}
          /\ Unique(nodes) => Unique(first \o one)
          /\ \A k \in DOMAIN (first \o one) :
               \/ \E i \in DOMAIN first : (first \o one)[k] = first[i]
               \/ \E i \in DOMAIN one : (first \o one)[k] = one[i]
      <4>1. /\ one \in Seq(Nodes) /\ Unique(one) /\ Names(one) = {Strategist}
            /\ first \in Seq(Nodes) /\ Names(first) \cap {Strategist} = {}
        BY <2>5, <3>4 DEF one
      <4> QED
        BY <2>5, <4>1, ConcatOf
    <3>7. Len(first \o one) = m + 1
      BY <2>5, <3>4, <3>5, ConcatProperties DEF one
    <3>8. From(first \o one, nodes)
      <4>1. \A k \in DOMAIN one : one[k] = s
        BY <3>4 DEF one
      <4> QED
        BY <2>6, <3>3, <3>6, <4>1 DEF From
    <3>9. Clamp(nodes) = first \o one
      BY <2>1, <2>5, <2>8, <3>3, AppendIsConcat DEF one, s
    <3>10. Len(first \o one) <= settings.max \/ Names(first \o one) = {Strategist}
      <4>1. CASE settings.max > 0
        BY <2>3, <2>4, <2>8, <3>7, <4>1
      <4>2. CASE settings.max = 0
        <5>1. m = 0
          BY <2>3, <2>4, <4>2
        <5>2. Names(first) = {}
          BY <2>5, <5>1 DEF Names
        <5> QED
          BY <3>6, <5>2
      <4> QED
        BY <2>3, <4>1, <4>2
    <3> QED
      BY <3>6, <3>8, <3>9, <3>10
  <2> QED
    BY <2>7, <2>8
<1> QED
  BY <1>1, <1>2

\* Pruning and wiring change only what nodes depend on.
SameNames(r, q) ==
  /\ DOMAIN r = DOMAIN q /\ Len(r) = Len(q) /\ Names(r) = Names(q)
  /\ \A k \in DOMAIN r : r[k].cortex = q[k].cortex

LEMMA PruneFacts ==
  ASSUME NEW nodes \in Seq(Nodes)
  PROVE  /\ Prune(nodes) \in Seq(Nodes) /\ SameNames(Prune(nodes), nodes)
         /\ \A k \in DOMAIN nodes :
              Prune(nodes)[k].deps = nodes[k].deps \cap Names(nodes)
<1> DEFINE r == Prune(nodes)
<1>1. ASSUME NEW k \in DOMAIN nodes
      PROVE  /\ r[k] \in Nodes /\ r[k].cortex = nodes[k].cortex
             /\ r[k].deps = nodes[k].deps \cap Names(nodes)
  <2>1. nodes[k] \in Nodes
    OBVIOUS
  <2>2. nodes[k].cortex \in Cortices /\ nodes[k].deps \cap Names(nodes) \in SUBSET Cortices
    BY <2>1 DEF Nodes
  <2>3. r[k] = Node(nodes[k].cortex, nodes[k].deps \cap Names(nodes))
    BY DEF Prune
  <2> QED
    BY <2>2, <2>3, NodeIs
<1>2. DOMAIN r = 1..Len(nodes) /\ r = [k \in 1..Len(nodes) |-> r[k]]
  BY DEF Prune
<1> HIDE DEF r
<1>3. r \in Seq(Nodes) /\ Len(r) = Len(nodes) /\ DOMAIN r = DOMAIN nodes
  <2>1. Len(nodes) \in Nat /\ DOMAIN nodes = 1..Len(nodes)
    OBVIOUS
  <2>2. r \in [1..Len(nodes) -> Nodes]
    BY <1>1, <1>2, <2>1
  <2> QED
    BY <2>1, <2>2
<1>4. Names(r) = Names(nodes)
  BY <1>1, <1>3 DEF Names
<1> QED
  BY <1>1, <1>3, <1>4 DEF SameNames, r

LEMMA WireFacts ==
  ASSUME NEW nodes \in Seq(Nodes)
  PROVE  /\ Wire(nodes) \in Seq(Nodes) /\ SameNames(Wire(nodes), nodes)
         /\ \A k \in DOMAIN nodes :
              IF nodes[k].cortex = Strategist
              THEN Wire(nodes)[k].deps = Names(nodes) \ {Strategist}
              ELSE Wire(nodes)[k] = nodes[k]
<1> DEFINE r == Wire(nodes)
<1>1. ASSUME NEW k \in DOMAIN nodes
      PROVE  /\ r[k] \in Nodes /\ r[k].cortex = nodes[k].cortex
             /\ IF nodes[k].cortex = Strategist
                THEN r[k].deps = Names(nodes) \ {Strategist} ELSE r[k] = nodes[k]
  <2>1. nodes[k] \in Nodes
    OBVIOUS
  <2>2. Strategist \in Cortices /\ Names(nodes) \ {Strategist} \in SUBSET Cortices
    BY NamesOf, PlannerAssumption
  <2>3. r[k] = IF nodes[k].cortex = Strategist
               THEN Node(Strategist, Names(nodes) \ {Strategist}) ELSE nodes[k]
    BY DEF Wire
  <2> QED
    BY <2>1, <2>2, <2>3, NodeIs
<1>2. DOMAIN r = 1..Len(nodes) /\ r = [k \in 1..Len(nodes) |-> r[k]]
  BY DEF Wire
<1> HIDE DEF r
<1>3. r \in Seq(Nodes) /\ Len(r) = Len(nodes) /\ DOMAIN r = DOMAIN nodes
  <2>1. Len(nodes) \in Nat /\ DOMAIN nodes = 1..Len(nodes)
    OBVIOUS
  <2>2. r \in [1..Len(nodes) -> Nodes]
    BY <1>1, <1>2, <2>1
  <2> QED
    BY <2>1, <2>2
<1>4. Names(r) = Names(nodes)
  BY <1>1, <1>3 DEF Names
<1> QED
  BY <1>1, <1>3, <1>4 DEF SameNames, r

-----------------------------------------------------------------------------
(* What the filters make of a plan *)

\* A node is one of the plan's with those of its dependencies that stay, or a
\* new one that depends on nothing or, the strategist, on all the others.
Comes(n, nodes, names) ==
  \/ \E i \in DOMAIN nodes : /\ n.cortex = nodes[i].cortex
                             /\ n.deps = nodes[i].deps \cap names
  \/ /\ n.cortex \notin Names(nodes)
     /\ n.cortex \in Range(settings.forced) \cup {Strategist}
     /\ n.deps = {} \/ (n.cortex = Strategist /\ n.deps = names \ {Strategist})

\* out is what filters make of nodes.
Refines(out, nodes) ==
  /\ out \in Seq(Nodes)
  /\ Unique(nodes) => Unique(out)
  /\ \A k \in DOMAIN out : Comes(out[k], nodes, Names(out))

\* The settings hold in out.
Obeys(out) ==
  /\ Names(out) \cap settings.disabled = {}
  /\ Len(out) <= settings.max \/ Names(out) = {Strategist}
  /\ settings.mandatory /\ Strategist \notin settings.disabled => Strategist \in Names(out)

LEMMA FiltersRefine ==
  ASSUME settings \in Settings, NEW nodes \in Seq(Nodes)
  PROVE  /\ Refines(ApplyRuntimeFilters(nodes), nodes)
         /\ Obeys(ApplyRuntimeFilters(nodes))
<1> DEFINE kept == Enabled(nodes)
           pushed == Pushed(kept)
           full == kept \o pushed
           clamped == Clamp(full)
           injects == Injects(kept \o Forced(kept))
           wired == IF injects THEN Wire(clamped) ELSE clamped
           out == Prune(wired)
<1>1. ApplyRuntimeFilters(nodes) = out
  BY DEF ApplyRuntimeFilters
<1>2. /\ kept \in Seq(Nodes) /\ From(kept, nodes)
      /\ Names(kept) = Names(nodes) \ settings.disabled
      /\ Unique(nodes) => Unique(kept)
  BY WithoutFacts DEF Enabled
<1>3. /\ pushed \in Seq(Nodes) /\ Unique(pushed)
      /\ \A k \in DOMAIN pushed : IsPushed(pushed[k], kept)
      /\ settings.mandatory /\ Strategist \notin settings.disabled
           => Strategist \in Names(kept) \cup Names(pushed)
      /\ injects => Strategist \notin Names(kept) \cup settings.disabled
  <2> HIDE DEF kept
  <2> QED
    BY <1>2, PushedFacts
<1> HIDE DEF kept, pushed
<1>4. Names(pushed) \cap (Names(kept) \cup settings.disabled) = {}
  BY <1>3, NamesOf DEF IsPushed
<1>5. /\ full \in Seq(Nodes) /\ Names(full) = Names(kept) \cup Names(pushed)
      /\ Unique(nodes) => Unique(full)
      /\ \A k \in DOMAIN full : \/ \E i \in DOMAIN kept : full[k] = kept[i]
                                \/ \E i \in DOMAIN pushed : full[k] = pushed[i]
  BY <1>2, <1>3, <1>4, ConcatOf
<1> HIDE DEF full
<1>6. /\ clamped \in Seq(Nodes) /\ From(clamped, full)
      /\ Unique(full) => Unique(clamped)
      /\ Len(clamped) <= settings.max \/ Names(clamped) = {Strategist}
      /\ Strategist \in Names(full) => Strategist \in Names(clamped)
  BY <1>5, ClampFacts
<1> HIDE DEF clamped
<1>7. /\ wired \in Seq(Nodes) /\ SameNames(wired, clamped)
      /\ \A k \in DOMAIN clamped :
           IF injects /\ clamped[k].cortex = Strategist
           THEN wired[k].deps = Names(clamped) \ {Strategist}
           ELSE wired[k] = clamped[k]
  BY <1>6, WireFacts DEF SameNames
<1> HIDE DEF wired, injects
<1>8. /\ out \in Seq(Nodes) /\ SameNames(out, wired)
      /\ \A k \in DOMAIN wired : out[k].deps = wired[k].deps \cap Names(wired)
  BY <1>7, PruneFacts
<1> HIDE DEF out
<1>9. SameNames(out, clamped)
  BY <1>7, <1>8 DEF SameNames
<1>10. Unique(nodes) => Unique(out)
  BY <1>5, <1>6, <1>9 DEF SameNames, Unique
<1>11. ASSUME NEW k \in DOMAIN out PROVE Comes(out[k], nodes, Names(out))
  <2>1. k \in DOMAIN clamped /\ out[k].cortex = clamped[k].cortex
    BY <1>9 DEF SameNames
  <2>2. PICK l \in DOMAIN full : clamped[k] = full[l]
    BY <1>6, <2>1 DEF From
  <2>3. k \in DOMAIN wired /\ Names(wired) = Names(out)
    BY <1>8 DEF SameNames
  <2>4. CASE injects /\ clamped[k].cortex = Strategist
    <3>1. out[k].deps = Names(out) \ {Strategist}
      BY <1>7, <1>8, <1>9, <2>1, <2>3, <2>4 DEF SameNames
    <3>2. Strategist \notin Names(nodes)
      BY <1>2, <1>3, <2>4
    <3> QED
      BY <2>1, <2>4, <3>1, <3>2 DEF Comes
  <2>5. CASE ~(injects /\ clamped[k].cortex = Strategist)
    <3>1. out[k].deps = full[l].deps \cap Names(out) /\ out[k].cortex = full[l].cortex
      BY <1>7, <1>8, <2>1, <2>2, <2>3, <2>5
    <3>2. CASE \E i \in DOMAIN kept : full[l] = kept[i]
      <4>1. PICK i \in DOMAIN nodes : full[l] = nodes[i]
        BY <1>2, <3>2 DEF From
      <4> QED
        BY <3>1, <4>1 DEF Comes
    <3>3. CASE \E i \in DOMAIN pushed : full[l] = pushed[i]
      <4>1. IsPushed(full[l], kept)
        BY <1>3, <3>3
      <4>2. full[l].cortex \notin Names(nodes)
        BY <1>2, <4>1 DEF IsPushed
      <4> QED
        BY <3>1, <4>1, <4>2 DEF Comes, IsPushed
    <3> QED
      BY <1>5, <3>2, <3>3
  <2> QED
    BY <2>4, <2>5
<1>12. Names(clamped) \subseteq Names(full)
  <2> SUFFICES ASSUME NEW k \in DOMAIN clamped PROVE clamped[k].cortex \in Names(full)
    BY DEF Names
  <2>1. PICK l \in DOMAIN full : clamped[k] = full[l]
    BY <1>6 DEF From
  <2> QED
    BY <2>1 DEF Names
<1>13. Obeys(out)
  BY <1>2, <1>3, <1>4, <1>5, <1>6, <1>9, <1>12 DEF Obeys, SameNames
<1> QED
  BY <1>1, <1>8, <1>10, <1>11, <1>13 DEF Refines

LEMMA FinalizedRefines ==
  ASSUME settings \in Settings, NEW nodes \in Seq(Nodes), NEW user \in BOOLEAN
  PROVE  /\ Refines(Finalized(nodes, user), nodes) /\ Obeys(Finalized(nodes, user))
         /\ user \/ Names(Finalized(nodes, user)) \cap UserScoped = {}
<1> DEFINE mid == ApplyRuntimeFilters(nodes)
           kept == Without(mid, UserScoped)
           out == Prune(kept)
<1>1. mid \in Seq(Nodes) /\ Refines(mid, nodes) /\ Obeys(mid)
  BY FiltersRefine DEF Refines
<1> HIDE DEF mid
<1>2. CASE user
  BY <1>1, <1>2 DEF Finalized, StripUserScoped, mid
<1>3. CASE ~user
  <2>1. Finalized(nodes, user) = out
    BY <1>3 DEF Finalized, StripUserScoped, mid
  <2>2. /\ kept \in Seq(Nodes) /\ Len(kept) <= Len(mid) /\ From(kept, mid)
        /\ Names(kept) = Names(mid) \ UserScoped
        /\ Unique(mid) => Unique(kept)
    BY <1>1, WithoutFacts
  <2> HIDE DEF kept
  <2>3. /\ out \in Seq(Nodes) /\ SameNames(out, kept)
        /\ \A k \in DOMAIN kept : out[k].deps = kept[k].deps \cap Names(kept)
    BY <2>2, PruneFacts
  <2> HIDE DEF out
  <2>4. Unique(nodes) => Unique(out)
    BY <1>1, <2>2, <2>3 DEF Refines, SameNames, Unique
  <2>5. ASSUME NEW k \in DOMAIN out PROVE Comes(out[k], nodes, Names(out))
    <3>1. k \in DOMAIN kept /\ Names(kept) = Names(out)
      BY <2>3 DEF SameNames
    <3>2. PICK l \in DOMAIN mid : kept[k] = mid[l]
      BY <2>2, <3>1 DEF From
    <3>3. out[k].cortex = mid[l].cortex /\ out[k].deps = mid[l].deps \cap Names(out)
      BY <2>3, <3>1, <3>2 DEF SameNames
    <3>4. Names(out) \subseteq Names(mid)
      BY <2>2, <3>1
    <3>5. Comes(mid[l], nodes, Names(mid))
      BY <1>1 DEF Refines
    <3> QED
      BY <3>3, <3>4, <3>5 DEF Comes
  <2>6. /\ Names(out) = Names(mid) \ UserScoped
        /\ Len(out) \in Nat /\ Len(mid) \in Nat /\ Len(out) <= Len(mid)
        /\ settings.max \in Nat /\ Strategist \notin UserScoped
    BY <1>1, <2>2, <2>3, SettingsTypes DEF SameNames
  <2>7. Obeys(out) /\ Names(out) \cap UserScoped = {}
    BY <1>1, <2>6 DEF Obeys
  <2> QED
    BY <2>1, <2>3, <2>4, <2>5, <2>7 DEF Refines
<1> QED
  BY <1>2, <1>3

-----------------------------------------------------------------------------
(* A plan that can be executed *)

\* Executable, said of the nodes one by one.
Whole(nodes) ==
  /\ nodes # <<>> /\ Unique(nodes)
  /\ \A i \in DOMAIN nodes : /\ nodes[i].cortex \notin nodes[i].deps
                             /\ nodes[i].deps \subseteq Names(nodes)
  /\ \A S \in SUBSET Names(nodes) : S # {} =>
       \E i \in DOMAIN nodes : nodes[i].cortex \in S /\ nodes[i].deps \cap S = {}

LEMMA UniqueCounts ==
  ASSUME NEW nodes \in Seq(Nodes)
  PROVE  Cardinality(Names(nodes)) = Len(nodes) <=> Unique(nodes)
<1> DEFINE n == Len(nodes)
           f == [i \in 1..n |-> nodes[i].cortex]
<1>1. n \in Nat /\ DOMAIN nodes = 1..n
  OBVIOUS
<1>2. IsFiniteSet(1..n) /\ Cardinality(1..n) = n
  BY <1>1, FS_Interval
<1>3. f \in Surjection(1..n, Names(nodes))
  BY <1>1 DEF Surjection, Names
<1>4. Cardinality(Names(nodes)) = Cardinality(1..n) <=> f \in Injection(1..n, Names(nodes))
  BY <1>2, <1>3, FS_Surjection
<1>5. f \in Injection(1..n, Names(nodes)) <=> Unique(nodes)
  BY <1>1, <1>3 DEF Injection, IsInjective, Surjection, Unique
<1> QED
  BY <1>2, <1>4, <1>5

LEMMA MapOf ==
  ASSUME NEW nodes \in Seq(Nodes), Unique(nodes)
  PROVE  /\ DOMAIN AsMap(nodes) = Names(nodes)
         /\ \A i \in DOMAIN nodes : AsMap(nodes)[nodes[i].cortex] = nodes[i].deps
<1>1. DOMAIN AsMap(nodes) = Names(nodes)
  BY DEF AsMap
<1>2. ASSUME NEW i \in DOMAIN nodes
      PROVE  AsMap(nodes)[nodes[i].cortex] = nodes[i].deps
  <2> DEFINE c == nodes[i].cortex
             m == CHOOSE n \in Range(nodes) : n.cortex = c
  <2>1. c \in Names(nodes) /\ nodes[i] \in Range(nodes)
    BY DEF Names, Range
  <2>2. AsMap(nodes)[c] = m.deps
    BY <2>1 DEF AsMap
  <2>3. m \in Range(nodes) /\ m.cortex = c
    BY <2>1
  <2>4. PICK j \in DOMAIN nodes : m = nodes[j]
    BY <2>3 DEF Range
  <2>5. j = i
    BY <2>3, <2>4 DEF Unique
  <2> QED
    BY <2>2, <2>4, <2>5
<1> QED
  BY <1>1, <1>2

LEMMA WholeIsExecutable ==
  ASSUME NEW nodes \in Seq(Nodes)
  PROVE  Executable(nodes) <=> Whole(nodes)
<1>1. CASE ~Unique(nodes)
  BY <1>1, UniqueCounts DEF Executable, Whole
<1>2. CASE Unique(nodes)
  <2> DEFINE p == AsMap(nodes)
  <2>1. /\ DOMAIN p = Names(nodes)
        /\ \A i \in DOMAIN nodes : p[nodes[i].cortex] = nodes[i].deps
    BY <1>2, MapOf
  <2> HIDE DEF p
  <2>2. /\ \A c \in Names(nodes) : \E i \in DOMAIN nodes : nodes[i].cortex = c
        /\ \A i \in DOMAIN nodes : nodes[i].cortex \in Names(nodes)
    BY NamesOf
  <2>3. Names(nodes) = {} <=> nodes = <<>>
    <3>1. nodes = <<>> => DOMAIN nodes = {}
      OBVIOUS
    <3>2. DOMAIN nodes = {} => Names(nodes) = {}
      BY DEF Names
    <3> QED
      BY <3>1, <3>2, NamesOf
  <2>4. (\A c \in DOMAIN p : c \notin p[c] /\ p[c] \subseteq DOMAIN p)
          <=> \A i \in DOMAIN nodes : /\ nodes[i].cortex \notin nodes[i].deps
                                      /\ nodes[i].deps \subseteq Names(nodes)
    BY <2>1, <2>2
  <2>5. ASSUME NEW S \in SUBSET Names(nodes)
        PROVE  (\E c \in S : p[c] \cap S = {})
                 <=> \E i \in DOMAIN nodes : nodes[i].cortex \in S /\ nodes[i].deps \cap S = {}
    BY <2>1, <2>2
  <2>6. D!Acyclic(p) <=>
          \A S \in SUBSET Names(nodes) : S # {} =>
            \E i \in DOMAIN nodes : nodes[i].cortex \in S /\ nodes[i].deps \cap S = {}
    BY <2>1, <2>5 DEF D!Acyclic
  <2>7. D!Valid(p) <=> Whole(nodes)
    BY <1>2, <2>1, <2>3, <2>4, <2>6 DEF D!Valid, Whole
  <2> QED
    BY <1>2, <2>7, UniqueCounts DEF Executable, p
<1> QED
  BY <1>1, <1>2

\* A cycle in what the filters leave would be one in the plan: the new nodes
\* depend on nothing, and nobody depends on a strategist that was not there.
LEMMA RefinedIsWhole ==
  ASSUME NEW nodes \in Seq(Nodes), NEW out, Whole(nodes), Refines(out, nodes), out # <<>>
  PROVE  Whole(out)
<1>1. out \in Seq(Nodes) /\ Unique(out) /\ \A k \in DOMAIN out : Comes(out[k], nodes, Names(out))
  BY DEF Whole, Refines
<1>2. ASSUME NEW k \in DOMAIN out
      PROVE  out[k].cortex \notin out[k].deps /\ out[k].deps \subseteq Names(out)
  BY <1>1 DEF Comes, Whole
<1>3. ASSUME NEW S \in SUBSET Names(out), S # {}
      PROVE  \E k \in DOMAIN out : out[k].cortex \in S /\ out[k].deps \cap S = {}
  <2> DEFINE old == S \cap Names(nodes)
  <2>1. CASE old # {}
    <3>1. PICK i \in DOMAIN nodes : nodes[i].cortex \in old /\ nodes[i].deps \cap old = {}
      BY <2>1 DEF Whole
    <3>2. PICK k \in DOMAIN out : out[k].cortex = nodes[i].cortex
      BY <1>1, <3>1, NamesOf
    <3>3. nodes[i].cortex \in Names(nodes)
      BY <3>1
    <3>4. PICK j \in DOMAIN nodes : /\ out[k].cortex = nodes[j].cortex
                                    /\ out[k].deps = nodes[j].deps \cap Names(out)
      BY <1>1, <3>2, <3>3 DEF Comes
    <3>5. j = i
      BY <3>2, <3>4 DEF Whole, Unique
    <3>6. nodes[i].deps \subseteq Names(nodes)
      BY DEF Whole
    <3> QED
      BY <3>1, <3>2, <3>4, <3>5, <3>6
  <2>2. CASE old = {}
    <3>1. \A k \in DOMAIN out : out[k].cortex \in S =>
            out[k].deps = {} \/ (out[k].cortex = Strategist
                                 /\ out[k].deps = Names(out) \ {Strategist})
      <4> SUFFICES ASSUME NEW k \in DOMAIN out, out[k].cortex \in S
                   PROVE  out[k].deps = {} \/ (out[k].cortex = Strategist
                                               /\ out[k].deps = Names(out) \ {Strategist})
        OBVIOUS
      <4>1. out[k].cortex \notin Names(nodes)
        BY <2>2
      <4> QED
        BY <1>1, <4>1, NamesOf DEF Comes
    <3>2. CASE \E k \in DOMAIN out : out[k].cortex \in S /\ out[k].deps = {}
      BY <3>2
    <3>3. CASE \A k \in DOMAIN out : out[k].cortex \in S => out[k].deps # {}
      <4>1. \A c \in S : \E k \in DOMAIN out : out[k].cortex = c
        BY <1>1, NamesOf
      <4>2. S = {Strategist}
        <5>1. \A c \in S : c = Strategist
          BY <3>1, <3>3, <4>1
        <5> QED
          BY <1>3, <5>1
      <4> QED
        BY <3>1, <3>3, <4>1, <4>2
    <3> QED
      BY <3>2, <3>3
  <2> QED
    BY <2>1, <2>2
<1> QED
  BY <1>1, <1>2, <1>3 DEF Whole

-----------------------------------------------------------------------------
(* The invariant *)

\* The job's array is what was configured and, after it, cortices of the
\* registry that were each pushed once.
Grown ==
  \E p \in Seq(Nodes) : dag = JobDag \o p /\ Unique(p) /\ Names(p) \subseteq Registry

Types ==
  /\ dag \in Seq(Nodes) /\ plan \in Seq(Nodes) /\ asked \in Seq(Nodes)
  /\ settings \in Settings
  /\ result \in {"none", "plan", "unknown"}
  /\ withUser \in BOOLEAN

IInv == Types /\ Grown /\ StaysExecutable

LEMMA DagsAreTyped ==
  /\ JobDag \in Seq(Nodes) /\ Fallback \in Seq(Nodes)
  /\ \A r \in Requests \cup {<<>>} : r \in Seq(Nodes)
  /\ Manual \subseteq Seq(Cortices)
<1>1. <<>> \in Seq(Nodes)
  OBVIOUS
<1> QED
  BY <1>1, PlannerAssumption

\* What is pushed to the array of the job is new to it.
LEMMA GrownStays ==
  ASSUME Types, Grown, dag' = dag \o Pushed(dag)
  PROVE  dag' \in Seq(Nodes) /\ Grown'
<1> DEFINE q == Pushed(dag)
<1>1. PICK p \in Seq(Nodes) : dag = JobDag \o p /\ Unique(p) /\ Names(p) \subseteq Registry
  BY DEF Grown
<1>2. /\ q \in Seq(Nodes) /\ Unique(q)
      /\ \A k \in DOMAIN q : IsPushed(q[k], dag)
  BY PushedFacts DEF Types
<1> HIDE DEF q
<1>3. Names(q) \subseteq Registry /\ Names(q) \cap Names(dag) = {}
  <2>1. \A c \in Names(q) : \E k \in DOMAIN q : q[k].cortex = c
    BY <1>2, NamesOf
  <2> QED
    BY <1>2, <2>1 DEF IsPushed
<1>4. Names(p) \subseteq Names(dag)
  BY <1>1, ConcatOf, DagsAreTyped
<1>5. Names(p) \cap Names(q) = {}
  BY <1>3, <1>4
<1>6. p \o q \in Seq(Nodes) /\ Unique(p \o q) /\ Names(p \o q) = Names(p) \cup Names(q)
  BY <1>1, <1>2, <1>5, ConcatOf
<1>7. dag' = JobDag \o (p \o q)
  <2>1. dag' = (JobDag \o p) \o q
    BY <1>1 DEF q
  <2>2. JobDag \in Seq(Nodes)
    BY DagsAreTyped
  <2>3. (JobDag \o p) \o q = JobDag \o (p \o q)
    <3>1. \A a, b, c \in Seq(Nodes) : (a \o b) \o c = a \o (b \o c)
      BY ConcatAssociative
    <3> QED
      BY <1>1, <1>2, <2>2, <3>1, Zenon
  <2> QED
    BY <2>1, <2>3
<1>8. dag' \in Seq(Nodes)
  BY <1>6, <1>7, ConcatProperties, DagsAreTyped
<1>9. \E r \in Seq(Nodes) : dag' = JobDag \o r /\ Unique(r) /\ Names(r) \subseteq Registry
  <2> DEFINE r == p \o q
  <2>1. r \in Seq(Nodes) /\ dag' = JobDag \o r /\ Unique(r) /\ Names(r) \subseteq Registry
    BY <1>1, <1>3, <1>6, <1>7
  <2> HIDE DEF r
  <2> QED
    BY <2>1
<1> QED
  BY <1>8, <1>9, PlannerAssumption DEF Grown

LEMMA GrownIsShort ==
  ASSUME Grown
  PROVE  IsPrefix(JobDag, dag) /\ Len(dag) <= Len(JobDag) + Cardinality(Registry)
<1>1. PICK p \in Seq(Nodes) : dag = JobDag \o p /\ Unique(p) /\ Names(p) \subseteq Registry
  BY DEF Grown
<1>2. /\ JobDag \in Seq(Nodes) /\ dag \in Seq(Nodes) /\ Len(dag) = Len(JobDag) + Len(p)
      /\ \A i \in 1..Len(JobDag) : dag[i] = JobDag[i]
      /\ Len(JobDag) \in Nat /\ Len(p) \in Nat
  BY <1>1, ConcatProperties, DagsAreTyped
<1>3. Len(p) <= Cardinality(Registry)
  <2>1. IsFiniteSet(Registry) /\ Names(p) \in SUBSET Registry
    BY <1>1, PlannerAssumption
  <2>2. Cardinality(Names(p)) <= Cardinality(Registry)
    BY <2>1, FS_Subset
  <2> QED
    BY <1>1, <2>2, UniqueCounts
<1>4. IsPrefix(JobDag, dag)
  <2> DEFINE m == Len(JobDag)
             a == SubSeq(JobDag, 1, m)
             b == SubSeq(dag, 1, m)
  <2>1. /\ a \in Seq(Nodes) /\ b \in Seq(Nodes) /\ Len(a) = m /\ Len(b) = m
        /\ \A i \in 1..m : a[i] = JobDag[i] /\ b[i] = dag[i]
    BY <1>2
  <2>2. a = b
    <3> HIDE DEF a, b
    <3> QED
      BY <1>2, <2>1, SeqEqual
  <2> QED
    BY <1>2, <2>2 DEF IsPrefix
<1>5. Cardinality(Registry) \in Nat
  BY FS_CardinalityType, PlannerAssumption
<1> QED
  BY <1>2, <1>3, <1>4, <1>5

\* The plan returned is what the filters make of the one that was asked.
LEMMA FinalizeSteps ==
  ASSUME settings \in Settings, NEW nodes \in Seq(Nodes), NEW user \in BOOLEAN,
         Finalize(nodes, user)
  PROVE  /\ plan' \in Seq(Nodes) /\ asked' \in Seq(Nodes) /\ withUser' \in BOOLEAN
         /\ result' \in {"plan", "unknown"}
         /\ result' = "plan" => /\ Refines(plan', asked') /\ Obeys(plan')
                                /\ withUser' \/ Names(plan') \cap UserScoped = {}
<1> DEFINE out == Finalized(nodes, user)
<1>1. Refines(out, nodes) /\ Obeys(out) /\ (user \/ Names(out) \cap UserScoped = {})
  BY FinalizedRefines
<1>2. /\ asked' = nodes /\ withUser' = user
      /\ \/ plan' = out /\ result' = "plan"
         \/ plan' = <<>> /\ result' = "unknown"
  BY DEF Finalize
<1> HIDE DEF out
<1>3. out \in Seq(Nodes) /\ <<>> \in Seq(Nodes)
  BY <1>1 DEF Refines
<1> QED
  BY <1>1, <1>2, <1>3

\* Each operation but Configure returns such a plan, or throws.
LEMMA Returns ==
  ASSUME Types, GetDaemonDag \/ FinalizePlan \/ FinalizeManual \/ PlanByModel
  PROVE  /\ plan' \in Seq(Nodes) /\ asked' \in Seq(Nodes) /\ withUser' \in BOOLEAN
         /\ result' \in {"plan", "unknown"} /\ settings' = settings
         /\ result' = "plan" => /\ Refines(plan', asked') /\ Obeys(plan')
                                /\ withUser' \/ Names(plan') \cap UserScoped = {}
<1>1. CASE GetDaemonDag
  BY <1>1, FinalizeSteps DEF GetDaemonDag, Types
<1>2. CASE FinalizePlan
  <2>1. PICK r \in Requests, user \in BOOLEAN : Finalize(r, user)
    BY <1>2 DEF FinalizePlan
  <2>2. r \in Seq(Nodes)
    BY DagsAreTyped
  <2> QED
    BY <1>2, <2>1, <2>2, FinalizeSteps DEF FinalizePlan, Types
<1>3. CASE FinalizeManual
  <2>1. PICK names \in Manual, user \in BOOLEAN :
          IF Range(names) \subseteq Registry
          THEN Finalize(Flat(Picked(names, First(names))), user)
          ELSE asked' = <<>> /\ withUser' = user /\ plan' = <<>> /\ result' = "unknown"
    BY <1>3 DEF FinalizeManual
  <2>2. CASE Range(names) \subseteq Registry
    <3>1. names \in Seq(Cortices) /\ First(names) \in SUBSET DOMAIN names
      BY DagsAreTyped DEF First
    <3>2. Picked(names, First(names)) \in Seq(Cortices)
      BY <3>1, PickedHolds
    <3>3. Flat(Picked(names, First(names))) \in Seq(Nodes)
      BY <3>2, FlatFacts
    <3>4. Finalize(Flat(Picked(names, First(names))), user)
      BY <2>1, <2>2
    <3> QED
      BY <1>3, <3>3, <3>4, FinalizeSteps DEF FinalizeManual, Types
  <2>3. CASE ~(Range(names) \subseteq Registry)
    <3>1. <<>> \in Seq(Nodes)
      OBVIOUS
    <3> QED
      BY <1>3, <2>1, <2>3, <3>1 DEF FinalizeManual
  <2> QED
    BY <2>2, <2>3
<1>4. CASE PlanByModel
  <2>1. PICK user \in BOOLEAN :
          \/ Finalize(Fallback, user)
          \/ \E r \in Requests \cup {<<>>} :
               LET known == Keep(r, Registry)
               IN  Finalize(IF Finalized(known, user) # <<>> THEN known ELSE Fallback, user)
    BY <1>4 DEF PlanByModel
  <2>2. \E nodes \in Seq(Nodes) : Finalize(nodes, user)
    <3>1. CASE Finalize(Fallback, user)
      BY <3>1, DagsAreTyped
    <3>2. CASE \E r \in Requests \cup {<<>>} :
                 LET known == Keep(r, Registry)
                 IN  Finalize(IF Finalized(known, user) # <<>> THEN known ELSE Fallback, user)
      <4>1. PICK r \in Requests \cup {<<>>} :
              Finalize(IF Finalized(Keep(r, Registry), user) # <<>>
                       THEN Keep(r, Registry) ELSE Fallback, user)
        BY <3>2
      <4>2. r \in Seq(Nodes) /\ Keep(r, Registry) \in Seq(Nodes) /\ Fallback \in Seq(Nodes)
        BY DagsAreTyped, KeepFacts
      <4> QED
        BY <4>1, <4>2
    <3> QED
      BY <2>1, <3>1, <3>2
  <2> QED
    BY <1>4, <2>2, FinalizeSteps DEF PlanByModel, Types
<1> QED
  BY <1>1, <1>2, <1>3, <1>4

LEMMA Initially == Init => IInv
<1> SUFFICES ASSUME Init PROVE IInv
  OBVIOUS
<1>1. <<>> \in Seq(Nodes) /\ JobDag \in Seq(Nodes)
  BY DagsAreTyped
<1>2. Types
  BY <1>1 DEF Init, Types
<1>3. Grown
  <2>1. dag = JobDag \o <<>> /\ Unique(<<>>) /\ Names(<<>>) \subseteq Registry
    BY <1>1, ConcatEmptySeq DEF Init, Unique, Names
  <2> QED
    BY <1>1, <2>1 DEF Grown
<1> QED
  BY <1>2, <1>3 DEF Init, IInv, StaysExecutable

LEMMA StepKeeps == IInv /\ [Next]_vars => IInv'
<1> SUFFICES ASSUME IInv, [Next]_vars PROVE IInv'
  OBVIOUS
<1>1. Types /\ Grown
  BY DEF IInv
<1>2. Grown' /\ dag' \in Seq(Nodes)
  <2>1. CASE dag' = dag
    BY <1>1, <2>1 DEF Types, Grown
  <2>2. CASE dag' = dag \o Pushed(dag)
    BY <1>1, <2>2, GrownStays
  <2> QED
    BY <2>1, <2>2 DEF Next, vars, GetDaemonDag, FinalizePlan, FinalizeManual,
                      PlanByModel, Configure
<1>3. CASE Configure \/ UNCHANGED vars
  <2>1. UNCHANGED <<plan, result, asked, withUser>> /\ settings' \in Settings
    BY <1>1, <1>3 DEF Configure, vars, Types
  <2> QED
    BY <1>1, <1>2, <2>1 DEF IInv, Types, StaysExecutable
<1>4. CASE GetDaemonDag \/ FinalizePlan \/ FinalizeManual \/ PlanByModel
  <2>1. /\ plan' \in Seq(Nodes) /\ asked' \in Seq(Nodes) /\ withUser' \in BOOLEAN
        /\ result' \in {"plan", "unknown"} /\ settings' = settings
        /\ result' = "plan" => Refines(plan', asked')
    BY <1>1, <1>4, Returns
  <2>2. Types'
    BY <1>1, <1>2, <2>1 DEF Types
  <2>3. result' = "plan" /\ plan' # <<>> /\ Executable(asked') => Executable(plan')
    BY <2>1, WholeIsExecutable, RefinedIsWhole
  <2> QED
    BY <1>2, <2>2, <2>3 DEF IInv, StaysExecutable
<1> QED
  BY <1>3, <1>4 DEF Next

LEMMA Invariance == Spec => []IInv
BY Initially, StepKeeps, PTL DEF Spec

-----------------------------------------------------------------------------
(* What follows from it *)

\* Plans stay within their types, and the array of a daemon job, which forced
\* cortices and the strategist are pushed to, never grows by more nodes than
\* there are cortices, however often the job runs.
THEOREM PlannerTypeCorrect == Spec => []TypeOK
<1>1. IInv => TypeOK
  BY GrownIsShort DEF IInv, Types, TypeOK
<1> QED
  BY <1>1, Invariance, PTL

\* A plan that can be executed is finalized into one that can, or into none.
THEOREM FinalizedIsExecutable == Spec => []StaysExecutable
<1>1. IInv => StaysExecutable
  BY DEF IInv
<1> QED
  BY <1>1, Invariance, PTL

\* A node that stays waits for exactly those of its dependencies that stay, and
\* none but pushed nodes are new.
THEOREM OrderIsKept == Spec => KeepsOrder
<1>1. ASSUME IInv, [Next]_vars, result' = "plan", Executable(asked'),
             ~UNCHANGED <<plan, asked, withUser, result>>,
             NEW i \in DOMAIN plan'
      PROVE  IF plan'[i].cortex \in Names(asked')
             THEN plan'[i].deps = AsMap(asked')[plan'[i].cortex] \cap Names(plan')
             ELSE plan'[i].cortex \in Range(settings.forced) \cup {Strategist}
  <2>1. GetDaemonDag \/ FinalizePlan \/ FinalizeManual \/ PlanByModel
    BY <1>1 DEF Next, vars, Configure
  <2>2. asked' \in Seq(Nodes) /\ Refines(plan', asked') /\ settings' = settings
    BY <1>1, <2>1, Returns DEF IInv
  <2>3. Unique(asked')
    BY <1>1, <2>2, UniqueCounts DEF Executable
  <2>4. \A j \in DOMAIN asked' : AsMap(asked')[asked'[j].cortex] = asked'[j].deps
    BY <2>2, <2>3, MapOf
  <2>5. Comes(plan'[i], asked', Names(plan'))
    BY <1>1, <2>2 DEF Refines
  <2> QED
    BY <2>2, <2>4, <2>5, NamesOf DEF Comes
<1>2. IInv /\ [Next]_vars =>
        [result' = "plan" /\ Executable(asked') =>
           \A i \in DOMAIN plan' :
             IF plan'[i].cortex \in Names(asked')
             THEN plan'[i].deps = AsMap(asked')[plan'[i].cortex] \cap Names(plan')
             ELSE plan'[i].cortex \in Range(settings.forced) \cup {Strategist}
        ]_<<plan, asked, withUser, result>>
  BY <1>1
<1> QED
  BY <1>2, Invariance, PTL DEF Spec, KeepsOrder

\* A plan obeys the settings it was made under: nothing disabled, nothing of a
\* user without one, no more nodes than the limit, the strategist if mandatory.
THEOREM SettingsHold == Spec => SettingsRespected
<1>1. ASSUME IInv, [Next]_vars, result' = "plan",
             ~UNCHANGED <<plan, asked, withUser, result>>
      PROVE  /\ Names(plan') \cap settings.disabled = {}
             /\ withUser' \/ Names(plan') \cap UserScoped = {}
             /\ Len(plan') <= settings.max \/ Names(plan') = {Strategist}
             /\ settings.mandatory /\ Strategist \notin settings.disabled
                  => Strategist \in Names(plan')
  <2>1. GetDaemonDag \/ FinalizePlan \/ FinalizeManual \/ PlanByModel
    BY <1>1 DEF Next, vars, Configure
  <2>2. Obeys(plan') /\ (withUser' \/ Names(plan') \cap UserScoped = {})
    BY <1>1, <2>1, Returns DEF IInv
  <2> QED
    BY <2>2 DEF Obeys
<1>2. IInv /\ [Next]_vars =>
        [result' = "plan" =>
           /\ Names(plan') \cap settings.disabled = {}
           /\ withUser' \/ Names(plan') \cap UserScoped = {}
           /\ Len(plan') <= settings.max \/ Names(plan') = {Strategist}
           /\ settings.mandatory /\ Strategist \notin settings.disabled
                => Strategist \in Names(plan')
        ]_<<plan, asked, withUser, result>>
  BY <1>1
<1> QED
  BY <1>2, Invariance, PTL DEF Spec, SettingsRespected
=============================================================================

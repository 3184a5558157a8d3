---------------------------- MODULE NetworkProofs ----------------------------
(***************************************************************************)
(* Theorems of NetworkAssembly, for every set of networks, catalog and     *)
(* contexts: a network that is accepted is computed as it is drawn, and its *)
(* topology survives an export; and of Transfers, for all tanks, requests, *)
(* operating points and answers of the engine: a transfer over that line   *)
(* conserves volumes, stays within the limits of its tanks, and stops where *)
(* its reason says.                                                        *)
(***************************************************************************)
EXTENDS NetworkAssembly, Transfers, OrderLemmas

(***************************************************************************)
(* Lists in an order, and concatenations.                                  *)
(***************************************************************************)

\* A sequence that lists the elements of a set by their ranks.
Lists(s, S, R) ==
    /\ IsFiniteSet(S) /\ s \in Seq(S) /\ Len(s) = Cardinality(S) /\ Range(s) = S
    /\ \A j, k \in DOMAIN s : j < k => <<s[j], s[k]>> \in R

\* Sorted lists a finite set in a strict order, each element once.
LEMMA ListedByRank ==
    ASSUME NEW S, IsFiniteSet(S), NEW R, StrictOrder(R, S), NEW s,
           DOMAIN s = 1..Cardinality(S), s = [k \in 1..Cardinality(S) |-> s[k]],
           \A k \in 1..Cardinality(S) : (\E x \in S : RankIn(R, S, x) = k - 1) => s[k] \in S /\ RankIn(R, S, s[k]) = k - 1
    PROVE  Lists(s, S, R)
<1> DEFINE n == Cardinality(S)
<1>1. n \in Nat
  BY FS_CardinalityType
<1>2. /\ \A x \in S : RankIn(R, S, x) \in 0..(n - 1)
      /\ \A x, y \in S : <<x, y>> \in R => RankIn(R, S, x) < RankIn(R, S, y)
      /\ \A k \in 0..(n - 1) : \E x \in S : RankIn(R, S, x) = k
  BY Ranks
<1>3. \A k \in 1..n : s[k] \in S /\ RankIn(R, S, s[k]) = k - 1
  <2> TAKE k \in 1..n
  <2>1. \E x \in S : RankIn(R, S, x) = k - 1
    <3>1. k - 1 \in 0..(n - 1)
      BY <1>1
    <3> HIDE DEF n
    <3> QED
      BY <1>2, <3>1
  <2> QED
    BY <2>1
<1>4. s \in [1..n -> S]
  BY <1>3
<1> HIDE DEF n
<1>5. s \in Seq(S) /\ Len(s) = n /\ DOMAIN s = 1..n
  BY <1>1, <1>4, FunctionIsSequence
<1>6. \A x, y \in S : RankIn(R, S, x) = RankIn(R, S, y) => x = y
  <2> SUFFICES ASSUME NEW x \in S, NEW y \in S, x # y PROVE RankIn(R, S, x) # RankIn(R, S, y)
    OBVIOUS
  <2>1. <<x, y>> \in R \/ <<y, x>> \in R
    BY DEF StrictOrder
  <2> QED
    BY <1>1, <1>2, <2>1
<1>7. \A x \in S : x \in Range(s)
  <2> TAKE x \in S
  <2> DEFINE k == RankIn(R, S, x) + 1
  <2>1. k \in 1..n /\ k - 1 = RankIn(R, S, x)
    BY <1>1, <1>2
  <2> HIDE DEF k
  <2>2. s[k] = x
    BY <1>3, <1>6, <2>1
  <2> QED
    BY <1>5, <2>1, <2>2 DEF Range
<1>8. Range(s) \subseteq S
  BY <1>3, <1>5 DEF Range
<1>9. ASSUME NEW j \in 1..n, NEW k \in 1..n, j < k PROVE <<s[j], s[k]>> \in R
  <2>0. RankIn(R, S, s[j]) = j - 1 /\ RankIn(R, S, s[k]) = k - 1
    BY <1>3
  <2>1. s[j] # s[k]
    BY <1>1, <1>9, <2>0
  <2>2. <<s[j], s[k]>> \in R \/ <<s[k], s[j]>> \in R
    BY <1>3, <2>1 DEF StrictOrder
  <2>3. RankIn(R, S, s[j]) = j - 1 /\ RankIn(R, S, s[k]) = k - 1 /\ s[j] \in S /\ s[k] \in S
    BY <1>3
  <2> QED
    BY <1>1, <1>2, <1>9, <2>2, <2>3
<1> QED
  BY <1>5, <1>7, <1>8, <1>9 DEF Lists, n

\* Codes are listed in increasing order.
LEMMA CodesAreListed ==
    ASSUME NEW S, IsFiniteSet(S), S \subseteq Int
    PROVE  LET s == Sorted(S, CodeBefore)
           IN  /\ s \in Seq(S) /\ Len(s) = Cardinality(S) /\ DOMAIN s = 1..Cardinality(S) /\ Range(s) = S
               /\ \A j, k \in DOMAIN s : j < k => s[j] < s[k]
<1> DEFINE R == {p \in S \X S : p[1] < p[2]}
           s == Sorted(S, CodeBefore)
<1>1. StrictOrder(R, S)
  BY DEF StrictOrder
<1>2. \A x \in S : {y \in S : CodeBefore(y, x)} = {y \in S : <<y, x>> \in R}
  BY DEF CodeBefore
<1>3. \A x \in S : Cardinality({y \in S : CodeBefore(y, x)}) = RankIn(R, S, x)
  <2> HIDE DEF R
  <2> QED
    BY <1>2 DEF RankIn
<1>4. /\ DOMAIN s = 1..Cardinality(S) /\ s = [k \in 1..Cardinality(S) |-> s[k]]
      /\ \A k \in 1..Cardinality(S) : (\E x \in S : RankIn(R, S, x) = k - 1) => s[k] \in S /\ RankIn(R, S, s[k]) = k - 1
  <2> DEFINE e(k) == CHOOSE y \in S : Cardinality({z \in S : CodeBefore(z, y)}) = k - 1
  <2>0. s = [k \in 1..Cardinality(S) |-> e(k)]
    BY DEF Sorted
  <2>1. DOMAIN s = 1..Cardinality(S) /\ s = [k \in 1..Cardinality(S) |-> s[k]]
    <3> HIDE DEF e, s
    <3> QED
      BY <2>0
  <2>2. ASSUME NEW k \in 1..Cardinality(S), NEW x \in S, RankIn(R, S, x) = k - 1
        PROVE  s[k] \in S /\ RankIn(R, S, s[k]) = k - 1
    <3> HIDE DEF R
    <3>1. s[k] = CHOOSE y \in S : Cardinality({z \in S : CodeBefore(z, y)}) = k - 1
      BY DEF Sorted
    <3>2. Cardinality({z \in S : CodeBefore(z, x)}) = k - 1
      BY <1>3, <2>2
    <3>3. s[k] \in S /\ Cardinality({z \in S : CodeBefore(z, s[k])}) = k - 1
      BY <3>1, <3>2
    <3> QED
      BY <1>3, <3>3
  <2> HIDE DEF R, s
  <2> QED
    BY <2>1, <2>2
<1>5. Lists(s, S, R)
  <2> HIDE DEF R, s
  <2> QED
    BY <1>1, <1>4, ListedByRank
<1>6. DOMAIN s = 1..Cardinality(S)
  BY DEF Sorted
<1>7. \A j, k \in DOMAIN s : j < k => s[j] < s[k]
  <2> HIDE DEF s
  <2> QED
    BY <1>5 DEF Lists
<1> HIDE DEF R
<1> QED
  BY <1>5, <1>6, <1>7 DEF Lists

\* Places are listed by their chainage, then by their code.
LEMMA PlacesAreListed ==
    ASSUME NEW S, IsFiniteSet(S), S \subseteq Int \X Int
    PROVE  LET s == Sorted(S, PlacedBefore)
           IN  /\ s \in Seq(S) /\ Len(s) = Cardinality(S) /\ DOMAIN s = 1..Cardinality(S) /\ Range(s) = S
               /\ \A j, k \in DOMAIN s : j < k => PlacedBefore(s[j], s[k])
<1> DEFINE R == {p \in S \X S : PlacedBefore(p[1], p[2])}
           s == Sorted(S, PlacedBefore)
<1>1. StrictOrder(R, S)
  <2>1. \A x \in S : <<x, x>> \notin R
    BY DEF PlacedBefore
  <2>2. \A x, y, z \in S : <<x, y>> \in R /\ <<y, z>> \in R => <<x, z>> \in R
    <3> TAKE x \in S, y \in S, z \in S
    <3>1. x[1] \in Int /\ x[2] \in Int /\ y[1] \in Int /\ y[2] \in Int /\ z[1] \in Int /\ z[2] \in Int
      OBVIOUS
    <3> QED
      BY <3>1 DEF PlacedBefore
  <2>3. ASSUME NEW x \in S, NEW y \in S, x # y PROVE <<x, y>> \in R \/ <<y, x>> \in R
    <3>1. x[1] \in Int /\ x[2] \in Int /\ y[1] \in Int /\ y[2] \in Int /\ x = <<x[1], x[2]>> /\ y = <<y[1], y[2]>>
      OBVIOUS
    <3>2. x[1] # y[1] \/ x[2] # y[2]
      BY <2>3, <3>1
    <3> QED
      BY <3>1, <3>2 DEF PlacedBefore
  <2> HIDE DEF R
  <2> QED
    BY <2>1, <2>2, <2>3 DEF StrictOrder
<1>2. \A x \in S : {y \in S : PlacedBefore(y, x)} = {y \in S : <<y, x>> \in R}
  OBVIOUS
<1>3. \A x \in S : Cardinality({y \in S : PlacedBefore(y, x)}) = RankIn(R, S, x)
  <2> HIDE DEF R
  <2> QED
    BY <1>2 DEF RankIn
<1>4. /\ DOMAIN s = 1..Cardinality(S) /\ s = [k \in 1..Cardinality(S) |-> s[k]]
      /\ \A k \in 1..Cardinality(S) : (\E x \in S : RankIn(R, S, x) = k - 1) => s[k] \in S /\ RankIn(R, S, s[k]) = k - 1
  <2> DEFINE e(k) == CHOOSE y \in S : Cardinality({z \in S : PlacedBefore(z, y)}) = k - 1
  <2>0. s = [k \in 1..Cardinality(S) |-> e(k)]
    BY DEF Sorted
  <2>1. DOMAIN s = 1..Cardinality(S) /\ s = [k \in 1..Cardinality(S) |-> s[k]]
    <3> HIDE DEF e, s
    <3> QED
      BY <2>0
  <2>2. ASSUME NEW k \in 1..Cardinality(S), NEW x \in S, RankIn(R, S, x) = k - 1
        PROVE  s[k] \in S /\ RankIn(R, S, s[k]) = k - 1
    <3> HIDE DEF R
    <3>1. s[k] = CHOOSE y \in S : Cardinality({z \in S : PlacedBefore(z, y)}) = k - 1
      BY DEF Sorted
    <3>2. Cardinality({z \in S : PlacedBefore(z, x)}) = k - 1
      BY <1>3, <2>2
    <3>3. s[k] \in S /\ Cardinality({z \in S : PlacedBefore(z, s[k])}) = k - 1
      BY <3>1, <3>2
    <3> QED
      BY <1>3, <3>3
  <2> HIDE DEF R, s
  <2> QED
    BY <2>1, <2>2
<1>5. Lists(s, S, R)
  <2> HIDE DEF R, s
  <2> QED
    BY <1>1, <1>4, ListedByRank
<1>6. DOMAIN s = 1..Cardinality(S)
  BY DEF Sorted
<1>7. \A j, k \in DOMAIN s : j < k => PlacedBefore(s[j], s[k])
  <2> HIDE DEF s
  <2> QED
    BY <1>5 DEF Lists
<1> HIDE DEF R
<1> QED
  BY <1>5, <1>6, <1>7 DEF Lists

\* The concatenation of the first sequences, one after the other.
Joins(f, seqs) == f[1] = seqs[1] /\ \A i \in 2..Len(seqs) : f[i] = f[i - 1] \o seqs[i]

\* FlattenSeq joins the sequences one after the other.
LEMMA FlattenUnfolds ==
    ASSUME NEW S, NEW seqs \in Seq(S), seqs # <<>>
    PROVE  \E f : FlattenSeq(seqs) = f[Len(seqs)] /\ Joins(f, seqs)
<1> DEFINE n == Len(seqs)
           Next(g, i) == IF i = 1 THEN seqs[i] ELSE g[i - 1] \o seqs[i]
           Flat == CHOOSE g : g = [i \in 1..n |-> Next(g, i)]
           Upto(g, k) == g = [i \in 1..n |-> g[i]] /\ \A i \in 1..k : g[i] = Next(g, i)
           Good == {k \in Nat : \E g : Upto(g, k)}
<1>1. FlattenSeq(seqs) = Flat[n] /\ n \in Nat \ {0}
  <2>1. Len(seqs) # 0 /\ Len(seqs) \in Nat
    OBVIOUS
  <2> QED
    BY <2>1 DEF FlattenSeq
<1> HIDE DEF n
<1>2. 0 \in Good
  <2> DEFINE g == [i \in 1..n |-> 0]
  <2>1. Upto(g, 0)
    OBVIOUS
  <2> HIDE DEF Upto, g
  <2> QED
    BY <2>1
<1>3. ASSUME NEW k \in 0..(n - 1), k \in Good PROVE k + 1 \in Good
  <2>1. PICK g : Upto(g, k)
    BY <1>3
  <2> DEFINE h == [i \in 1..n |-> IF i <= k THEN g[i] ELSE Next(g, i)]
  <2>2. ASSUME NEW i \in 1..(k + 1) PROVE h[i] = Next(h, i)
    <3>1. i \in 1..n
      BY <1>1
    <3>2. h[i] = Next(g, i)
      <4> HIDE DEF Next
      <4> QED
        BY <2>1, <3>1
    <3>3. i # 1 => h[i - 1] = g[i - 1]
      <4> SUFFICES ASSUME i # 1 PROVE h[i - 1] = g[i - 1]
        OBVIOUS
      <4>1. i - 1 \in 1..n /\ i - 1 <= k
        BY <1>1
      <4> HIDE DEF Next
      <4> QED
        BY <4>1
    <3> HIDE DEF h
    <3> QED
      BY <3>2, <3>3
  <2>3. h = [i \in 1..n |-> h[i]]
    <3> HIDE DEF Next
    <3> QED
      OBVIOUS
  <2>4. Upto(h, k + 1)
    <3> HIDE DEF Next, h
    <3> QED
      BY <2>2, <2>3
  <2>5. k + 1 \in Nat
    OBVIOUS
  <2> HIDE DEF Upto, h
  <2> QED
    BY <2>4, <2>5
<1>4. n \in Good
  <2> HIDE DEF Good
  <2> QED
    BY <1>1, <1>2, <1>3, UpTo
<1>5. PICK g : Upto(g, n)
  BY <1>4
<1>6. g = [i \in 1..n |-> Next(g, i)]
  <2>1. g = [i \in 1..n |-> g[i]] /\ \A i \in 1..n : g[i] = Next(g, i)
    BY <1>5
  <2> HIDE DEF Next
  <2> QED
    BY <2>1
<1>7. Flat = [i \in 1..n |-> Next(Flat, i)]
  <2> HIDE DEF Next
  <2> QED
    BY <1>6
<1>8. \A i \in 1..n : Flat[i] = Next(Flat, i)
  <2> HIDE DEF Next, Flat
  <2> QED
    BY <1>7
<1> HIDE DEF Flat
<1>9. Flat[1] = seqs[1] /\ \A i \in 2..n : Flat[i] = Flat[i - 1] \o seqs[i]
  <2>1. 1 \in 1..n /\ \A i \in 2..n : i \in 1..n /\ i # 1
    BY <1>1
  <2>2. Flat[1] = seqs[1]
    BY <1>8, <2>1
  <2>3. ASSUME NEW i \in 2..n PROVE Flat[i] = Flat[i - 1] \o seqs[i]
    BY <1>8, <2>1
  <2> QED
    BY <2>2, <2>3
<1> QED
  BY <1>1, <1>9 DEF Joins, n

\* The elements of a concatenation.
LEMMA FlattenRange ==
    ASSUME NEW n \in Nat, NEW S, NEW seqs \in [1..n -> Seq(S)]
    PROVE  /\ FlattenSeq(seqs) \in Seq(S)
           /\ Range(FlattenSeq(seqs)) = UNION {Range(seqs[i]) : i \in 1..n}
<1>1. CASE n = 0
  <2>1. seqs = <<>> /\ Len(seqs) = 0
    BY <1>1
  <2>2. FlattenSeq(seqs) = <<>>
    BY <2>1 DEF FlattenSeq
  <2> QED
    BY <1>1, <2>2 DEF Range
<1>2. CASE n # 0
  <2>0. seqs \in Seq(Seq(S)) /\ seqs # <<>> /\ Len(seqs) = n
    BY <1>2
  <2>1. PICK f : FlattenSeq(seqs) = f[Len(seqs)] /\ Joins(f, seqs)
    BY <2>0, FlattenUnfolds
  <2>4. f[1] = seqs[1] /\ \A i \in 2..n : f[i] = f[i - 1] \o seqs[i]
    BY <2>0, <2>1 DEF Joins
  <2> DEFINE Good == {k \in Nat : k = 0 \/ (f[k] \in Seq(S) /\ Range(f[k]) = UNION {Range(seqs[i]) : i \in 1..k})}
  <2>2. ASSUME NEW k \in 0..(n - 1), k \in Good PROVE k + 1 \in Good
    <3>1. CASE k = 0
      <4>1. f[1] \in Seq(S) /\ 1..1 = {1}
        BY <1>2, <2>4
      <4>2. Range(f[1]) = UNION {Range(seqs[i]) : i \in 1..1}
        BY <2>4, <4>1
      <4> QED
        BY <3>1, <4>1, <4>2
    <3>2. CASE k # 0
      <4>1. f[k + 1] = f[k] \o seqs[k + 1]
        <5>1. k + 1 \in 2..n /\ (k + 1) - 1 = k
          BY <3>2
        <5> QED
          BY <2>4, <5>1
      <4>2. f[k] \in Seq(S) /\ seqs[k + 1] \in Seq(S) /\ Range(f[k]) = UNION {Range(seqs[i]) : i \in 1..k}
        BY <2>2, <3>2
      <4>3. f[k + 1] \in Seq(S) /\ Range(f[k + 1]) = Range(f[k]) \cup Range(seqs[k + 1])
        <5> DEFINE s == f[k]
                   t == seqs[k + 1]
        <5>1. ASSUME NEW u \in Seq(S), NEW v \in Seq(S) PROVE u \o v \in Seq(S) /\ Range(u \o v) = Range(u) \cup Range(v)
          <6>1. /\ u \o v \in Seq(S) /\ DOMAIN (u \o v) = 1..(Len(u) + Len(v)) /\ Len(u) \in Nat /\ Len(v) \in Nat
                /\ DOMAIN u = 1..Len(u) /\ DOMAIN v = 1..Len(v)
                /\ \A i \in DOMAIN u : (u \o v)[i] = u[i]
                /\ \A i \in DOMAIN v : (u \o v)[Len(u) + i] = v[i]
            OBVIOUS
          <6>2. \A i \in 1..(Len(u) + Len(v)) : i \in DOMAIN u \/ (i - Len(u) \in DOMAIN v /\ i = Len(u) + (i - Len(u)))
            BY <6>1
          <6>3. \A i \in DOMAIN v : Len(u) + i \in 1..(Len(u) + Len(v))
            BY <6>1
          <6>4. Range(u \o v) \subseteq Range(u) \cup Range(v)
            BY <6>1, <6>2 DEF Range
          <6>5. Range(u) \subseteq Range(u \o v)
            BY <6>1 DEF Range
          <6>6. Range(v) \subseteq Range(u \o v)
            BY <6>1, <6>3 DEF Range
          <6> QED
            BY <6>1, <6>4, <6>5, <6>6
        <5> QED
          BY <4>1, <4>2, <5>1
      <4>4. 1..(k + 1) = (1..k) \cup {k + 1}
        OBVIOUS
      <4>5. Range(f[k + 1]) = UNION {Range(seqs[i]) : i \in 1..(k + 1)}
        BY <4>2, <4>3, <4>4
      <4> QED
        BY <4>3, <4>5
    <3> QED
      BY <3>1, <3>2
  <2>3. n \in Good
    <3>1. 0 \in Good
      OBVIOUS
    <3> HIDE DEF Good
    <3> QED
      BY <2>2, <3>1, UpTo
  <2> QED
    BY <1>2, <2>0, <2>1, <2>3
<1> QED
  BY <1>1, <1>2

(***************************************************************************)
(* What is exported and imported differs from the network by the identifiers *)
(* of its rows.                                                            *)
(***************************************************************************)

\* Rows that differ by the identifiers they carry.
SameNode(m, n) ==
    /\ n.code = m.code /\ n.kind = m.kind /\ n.elevation = m.elevation /\ n.status = m.status
    /\ n.arrangement = m.arrangement /\ n.flow = m.flow /\ n.tank = m.tank
SameEdge(d, e) ==
    /\ e.code = d.code /\ e.sequence = d.sequence /\ e.length = d.length /\ e.maop = d.maop
    /\ e.material = d.material /\ e.status = d.status /\ e.profile = d.profile /\ e.fittings = d.fittings
SameAsset(a, b) ==
    /\ b.code = a.code /\ b.item = a.item /\ b.role = a.role /\ b.status = a.status
    /\ b.at = a.at /\ b.opening = a.opening /\ b.running = a.running /\ b.speed = a.speed

\* A renaming: it gives different names to different rows.
IsRenaming(f, ids) == None \notin ids /\ \A x, y \in ids : f[x] # None /\ (f[x] = f[y] => x = y)
RenamedBy(f, id) == IF id = None THEN None ELSE f[id]

\* Two networks that differ by the identifiers of their rows.
Alike(a, b, f, g) ==
    /\ b.fluid = a.fluid
    /\ IsKeyed(b.nodes) /\ IsKeyed(b.edges) /\ IsKeyed(b.assets)
    /\ IsRenaming(f, Ids(a.nodes)) /\ IsRenaming(g, Ids(a.edges))
    /\ Len(b.nodes) = Len(a.nodes)
    /\ \A i \in DOMAIN a.nodes : SameNode(a.nodes[i], b.nodes[i]) /\ b.nodes[i].id = f[a.nodes[i].id]
    /\ Len(b.edges) = Len(a.edges)
    /\ \A i \in DOMAIN a.edges : /\ SameEdge(a.edges[i], b.edges[i]) /\ b.edges[i].id = g[a.edges[i].id]
                                 /\ b.edges[i].from = f[a.edges[i].from] /\ b.edges[i].to = f[a.edges[i].to]
    /\ Len(b.assets) = Len(a.assets)
    /\ \A i \in DOMAIN a.assets : /\ SameAsset(a.assets[i], b.assets[i])
                                  /\ b.assets[i].node = RenamedBy(f, a.assets[i].node)
                                  /\ b.assets[i].edge = RenamedBy(g, a.assets[i].edge)

\* A row is known by its identifier and by its code.
LEMMA RowsAreKeyed ==
    ASSUME NEW rows, IsKeyed(rows)
    PROVE  /\ Len(rows) \in Nat /\ DOMAIN rows = 1..Len(rows)
           /\ Range(rows) = {rows[i] : i \in DOMAIN rows} /\ Ids(rows) = {rows[i].id : i \in DOMAIN rows}
           /\ \A i \in DOMAIN rows : /\ Named(rows, rows[i].id) = rows[i] /\ Coded(rows, rows[i].code) = rows[i]
                                     /\ rows[i].code \in Int
<1>1. Len(rows) \in Nat /\ DOMAIN rows = 1..Len(rows)
  BY DEF IsKeyed
<1>2. Range(rows) = {rows[i] : i \in DOMAIN rows}
  BY DEF Range
<1>3. Ids(rows) = {rows[i].id : i \in DOMAIN rows}
  BY <1>2 DEF Ids
<1>4. ASSUME NEW i \in DOMAIN rows
      PROVE  /\ Named(rows, rows[i].id) = rows[i] /\ Coded(rows, rows[i].code) = rows[i]
             /\ rows[i].code \in Int
  <2>1. rows[i] \in Range(rows)
    BY <1>2
  <2>2. \A r \in Range(rows) : r.id = rows[i].id \/ r.code = rows[i].code => r = rows[i]
    BY <1>2 DEF IsKeyed
  <2>3. Named(rows, rows[i].id) = rows[i]
    BY <2>1, <2>2 DEF Named
  <2>4. Coded(rows, rows[i].code) = rows[i]
    BY <2>1, <2>2 DEF Coded
  <2> QED
    BY <2>1, <2>3, <2>4 DEF IsKeyed
<1> QED
  BY <1>1, <1>2, <1>3, <1>4

\* Rows of which each takes the identifier <<2, code>>, in the order they had.
Relabelled(rows, new) ==
    /\ DOMAIN new = DOMAIN rows /\ new = [i \in DOMAIN rows |-> new[i]]
    /\ \A i \in DOMAIN rows : new[i].code = rows[i].code /\ new[i].id = <<2, rows[i].code>>
NewNames(rows) == [id \in Ids(rows) |-> <<2, Named(rows, id).code>>]

\* Rows that take new identifiers are as many, in the same order, and a name and a code find the
\* same row.
LEMMA RowsComeBack ==
    ASSUME NEW rows, IsKeyed(rows), NEW new, Relabelled(rows, new)
    PROVE  /\ IsKeyed(new) /\ Len(new) = Len(rows)
           /\ \A i \in DOMAIN rows : new[i].id = NewNames(rows)[rows[i].id]
           /\ \A id \in Ids(rows) : CodeOf(rows, id) # None => NewId(new, CodeOf(rows, id)) = NewNames(rows)[id]
           /\ IsRenaming(NewNames(rows), Ids(rows))
<1> DEFINE D == DOMAIN rows
           f == NewNames(rows)
<1>1. /\ Len(rows) \in Nat /\ D = 1..Len(rows)
      /\ Range(rows) = {rows[i] : i \in D} /\ Ids(rows) = {rows[i].id : i \in D}
      /\ \A i \in D : Named(rows, rows[i].id) = rows[i] /\ rows[i].code \in Int
  BY RowsAreKeyed
<1>0. None \notin Ids(rows) /\ \A i \in D : <<2, rows[i].code>> # None
  <2>1. \A i \in D : rows[i] \in Range(rows)
    BY <1>1
  <2>2. \A r \in Range(rows) : <<2, r.code>> # None
    BY DEF IsKeyed
  <2> QED
    BY <2>1, <2>2 DEF IsKeyed
<1>2. \A i \in D : new[i].code = rows[i].code /\ new[i].id = <<2, rows[i].code>> /\ f[rows[i].id] = new[i].id
  BY <1>1 DEF Relabelled, NewNames
<1>3. Len(new) = Len(rows) /\ DOMAIN new = D /\ new \in Seq(Range(new)) /\ Range(new) = {new[i] : i \in D}
  <2>1. DOMAIN new = D /\ Range(new) = {new[i] : i \in D}
    BY DEF Relabelled, Range
  <2>2. new \in [1..Len(rows) -> Range(new)]
    BY <1>1, <2>1 DEF Relabelled
  <2> QED
    BY <1>1, <2>1, <2>2, FunctionIsSequence
<1>4. IsKeyed(new)
  <2>1. \A i, j \in D : new[i].id = new[j].id \/ new[i].code = new[j].code => i = j
    BY <1>1, <1>2 DEF IsKeyed
  <2>2. ASSUME NEW r \in Range(new) PROVE r.id # None /\ <<2, r.code>> # None /\ r.code \in Int
    <3>1. PICK i \in D : r = new[i]
      BY <1>3
    <3> QED
      BY <1>0, <1>1, <1>2, <3>1
  <2>3. None \notin Ids(new) \cup {<<2, r.code>> : r \in Range(new)}
    BY <2>2 DEF Ids
  <2>4. new \in Seq(Range(new)) /\ \A r \in Range(new) : r.code \in Int
    BY <1>3, <2>2
  <2>5. \A i, j \in DOMAIN new : new[i].id = new[j].id \/ new[i].code = new[j].code => i = j
    BY <1>3, <2>1
  <2> QED
    BY <2>3, <2>4, <2>5 DEF IsKeyed
<1>5. IsRenaming(f, Ids(rows))
  <2>1. None \notin Ids(rows)
    BY DEF IsKeyed
  <2>2. \A i \in D : f[rows[i].id] # None
    BY <1>0, <1>2
  <2>3. \A i, j \in D : f[rows[i].id] = f[rows[j].id] => rows[i].id = rows[j].id
    <3> TAKE i, j \in D
    <3> HAVE f[rows[i].id] = f[rows[j].id]
    <3>1. <<2, rows[i].code>> = <<2, rows[j].code>>
      BY <1>2
    <3>2. rows[i].code = rows[j].code
      BY <3>1
    <3> QED
      BY <3>2 DEF IsKeyed
  <2> HIDE DEF f
  <2> QED
    BY <1>1, <2>1, <2>2, <2>3 DEF IsRenaming
<1>6. ASSUME NEW id \in Ids(rows), CodeOf(rows, id) # None PROVE NewId(new, CodeOf(rows, id)) = f[id]
  <2>1. PICK i \in D : id = rows[i].id
    BY <1>1
  <2>2. CodeOf(rows, id) = rows[i].code
    BY <1>1, <1>5, <2>1 DEF CodeOf, IsRenaming
  <2>3. Named(new, new[i].id) = new[i]
    BY <1>3, <1>4, RowsAreKeyed
  <2>4. NewId(new, rows[i].code) = Named(new, <<2, rows[i].code>>).id
    BY <1>6, <2>2 DEF NewId
  <2> QED
    BY <1>2, <2>1, <2>2, <2>3, <2>4
<1> QED
  BY <1>2, <1>3, <1>4, <1>5, <1>6

\* A row that is exported and written again.
LEMMA NewRowOf ==
    ASSUME NEW row, "id" \in DOMAIN row, "code" \in DOMAIN row
    PROVE  LET new == NewRow(Apart(row, {"id"}))
           IN  /\ DOMAIN new = DOMAIN row /\ new.id = <<2, row.code>>
               /\ \A f \in DOMAIN row \ {"id"} : new[f] = row[f]
BY DEF NewRow, Apart, Put

\* A node, an edge and an asset come back with the fields they had and the links they had.
LEMMA NodesComeBack ==
    ASSUME NEW net, IsStored(net)
    PROVE  LET new == ImportedNodes(Exported(net))
           IN  Relabelled(net.nodes, new) /\ \A i \in DOMAIN net.nodes : SameNode(net.nodes[i], new[i])
<1> DEFINE D == DOMAIN net.nodes
           new == ImportedNodes(Exported(net))
<1>1. IsKeyed(net.nodes) /\ \A i \in D : IsNode(net.nodes[i])
  BY DEF IsStored, Range
<1>2. new = [i \in D |-> NewRow(Apart(net.nodes[i], {"id"}))]
  BY DEF ImportedNodes, Exported
<1>3. ASSUME NEW i \in D
      PROVE  SameNode(net.nodes[i], new[i]) /\ new[i].id = <<2, net.nodes[i].code>>
  <2>1. DOMAIN net.nodes[i] = {"id", "code", "kind", "elevation", "status", "arrangement", "flow", "tank"}
    BY <1>1 DEF IsNode
  <2>2. /\ new[i].id = <<2, net.nodes[i].code>>
        /\ \A field \in DOMAIN net.nodes[i] \ {"id"} : new[i][field] = net.nodes[i][field]
    BY <1>2, <2>1, NewRowOf
  <2> QED
    BY <2>1, <2>2 DEF SameNode
<1> QED
  BY <1>2, <1>3 DEF Relabelled, SameNode

\* An edge comes back between the same nodes, of the same material.
LEMMA EdgesComeBack ==
    ASSUME NEW net, IsStored(net), NEW nodes
    PROVE  LET new == ImportedEdges(Exported(net), nodes)
           IN  /\ Relabelled(net.edges, new)
               /\ \A i \in DOMAIN net.edges :
                     LET e == net.edges[i]
                     IN  /\ SameEdge([e EXCEPT !.material = ItemFor(ItemCode(@))], new[i])
                         /\ new[i].from = NewId(nodes, CodeOf(net.nodes, e.from))
                         /\ new[i].to = NewId(nodes, CodeOf(net.nodes, e.to))
<1> DEFINE D == DOMAIN net.edges
           new == ImportedEdges(Exported(net), nodes)
           Out(e) == [Apart(e, {"id"}) EXCEPT !.from = CodeOf(net.nodes, @), !.to = CodeOf(net.nodes, @), !.material = ItemCode(@)]
           In(row) == [NewRow(row) EXCEPT !.from = NewId(nodes, @), !.to = NewId(nodes, @), !.material = ItemFor(@)]
<1>1. \A i \in D : IsEdge(net, net.edges[i])
  BY DEF IsStored, Range
<1>2. new = [i \in D |-> In(Out(net.edges[i]))]
  BY DEF ImportedEdges, Exported
<1>3. ASSUME NEW i \in D
      PROVE  LET e == net.edges[i]
             IN  /\ new[i].id = <<2, e.code>> /\ new[i].code = e.code
                 /\ SameEdge([e EXCEPT !.material = ItemFor(ItemCode(@))], new[i])
                 /\ new[i].from = NewId(nodes, CodeOf(net.nodes, e.from))
                 /\ new[i].to = NewId(nodes, CodeOf(net.nodes, e.to))
  <2> DEFINE e == net.edges[i]
             fields == {"code", "from", "to", "sequence", "length", "maop", "material", "status", "profile", "fittings"}
  <2>1. DOMAIN e = fields \cup {"id"}
    BY <1>1 DEF IsEdge
  <2>2. DOMAIN Apart(e, {"id"}) = fields /\ \A x \in fields : Apart(e, {"id"})[x] = e[x]
    BY <2>1 DEF Apart
  <2>3. /\ DOMAIN Out(e) = fields /\ Out(e).from = CodeOf(net.nodes, e.from) /\ Out(e).to = CodeOf(net.nodes, e.to)
        /\ Out(e).material = ItemCode(e.material)
        /\ \A x \in fields \ {"from", "to", "material"} : Out(e)[x] = e[x]
    BY <2>2
  <2> HIDE DEF Out
  <2>4. /\ DOMAIN NewRow(Out(e)) = fields \cup {"id"} /\ NewRow(Out(e)).id = <<2, Out(e).code>>
        /\ \A x \in fields : NewRow(Out(e))[x] = Out(e)[x]
    BY <2>3 DEF NewRow, Put
  <2>5. /\ In(Out(e)).from = NewId(nodes, Out(e).from) /\ In(Out(e)).to = NewId(nodes, Out(e).to)
        /\ In(Out(e)).material = ItemFor(Out(e).material)
        /\ \A x \in (fields \cup {"id"}) \ {"from", "to", "material"} : In(Out(e))[x] = NewRow(Out(e))[x]
    BY <2>4
  <2> HIDE DEF In
  <2>6. new[i] = In(Out(e))
    BY <1>2
  <2>7. /\ [e EXCEPT !.material = ItemFor(ItemCode(@))].material = ItemFor(ItemCode(e.material))
        /\ \A x \in fields \ {"material"} : [e EXCEPT !.material = ItemFor(ItemCode(@))][x] = e[x]
    BY <2>1
  <2> HIDE DEF new
  <2> QED
    BY <2>3, <2>4, <2>5, <2>6, <2>7 DEF SameEdge
<1>4. DOMAIN new = D /\ new = [i \in D |-> new[i]]
  <2> HIDE DEF In, Out
  <2> QED
    BY <1>2
<1> QED
  BY <1>3, <1>4 DEF Relabelled

\* An asset comes back at the same location, of the same item.
LEMMA AssetsComeBack ==
    ASSUME NEW net, IsStored(net), NEW nodes, NEW edges
    PROVE  LET new == ImportedAssets(Exported(net), nodes, edges)
           IN  /\ Relabelled(net.assets, new)
               /\ \A i \in DOMAIN net.assets :
                     LET a == net.assets[i]
                     IN  /\ SameAsset([a EXCEPT !.item = ItemFor(ItemCode(@))], new[i])
                         /\ new[i].node = NewId(nodes, CodeOf(net.nodes, a.node))
                         /\ new[i].edge = NewId(edges, CodeOf(net.edges, a.edge))
<1> DEFINE D == DOMAIN net.assets
           new == ImportedAssets(Exported(net), nodes, edges)
           Out(a) == [Apart(a, {"id"}) EXCEPT !.node = CodeOf(net.nodes, @), !.edge = CodeOf(net.edges, @), !.item = ItemCode(@)]
           In(row) == [NewRow(row) EXCEPT !.node = NewId(nodes, @), !.edge = NewId(edges, @), !.item = ItemFor(@)]
<1>1. \A i \in D : IsAsset(net, net.assets[i])
  BY DEF IsStored, Range
<1>2. new = [i \in D |-> In(Out(net.assets[i]))]
  BY DEF ImportedAssets, Exported
<1>3. ASSUME NEW i \in D
      PROVE  LET a == net.assets[i]
             IN  /\ new[i].id = <<2, a.code>> /\ new[i].code = a.code
                 /\ SameAsset([a EXCEPT !.item = ItemFor(ItemCode(@))], new[i])
                 /\ new[i].node = NewId(nodes, CodeOf(net.nodes, a.node))
                 /\ new[i].edge = NewId(edges, CodeOf(net.edges, a.edge))
  <2> DEFINE a == net.assets[i]
             fields == {"code", "item", "node", "edge", "role", "status", "at", "opening", "running", "speed"}
  <2>1. DOMAIN a = fields \cup {"id"}
    BY <1>1 DEF IsAsset
  <2>2. DOMAIN Apart(a, {"id"}) = fields /\ \A x \in fields : Apart(a, {"id"})[x] = a[x]
    BY <2>1 DEF Apart
  <2>3. /\ DOMAIN Out(a) = fields /\ Out(a).node = CodeOf(net.nodes, a.node) /\ Out(a).edge = CodeOf(net.edges, a.edge)
        /\ Out(a).item = ItemCode(a.item)
        /\ \A x \in fields \ {"node", "edge", "item"} : Out(a)[x] = a[x]
    BY <2>2
  <2> HIDE DEF Out
  <2>4. /\ DOMAIN NewRow(Out(a)) = fields \cup {"id"} /\ NewRow(Out(a)).id = <<2, Out(a).code>>
        /\ \A x \in fields : NewRow(Out(a))[x] = Out(a)[x]
    BY <2>3 DEF NewRow, Put
  <2>5. /\ In(Out(a)).node = NewId(nodes, Out(a).node) /\ In(Out(a)).edge = NewId(edges, Out(a).edge)
        /\ In(Out(a)).item = ItemFor(Out(a).item)
        /\ \A x \in (fields \cup {"id"}) \ {"node", "edge", "item"} : In(Out(a))[x] = NewRow(Out(a))[x]
    BY <2>4
  <2> HIDE DEF In
  <2>6. new[i] = In(Out(a))
    BY <1>2
  <2>7. /\ [a EXCEPT !.item = ItemFor(ItemCode(@))].item = ItemFor(ItemCode(a.item))
        /\ \A x \in fields \ {"item"} : [a EXCEPT !.item = ItemFor(ItemCode(@))][x] = a[x]
    BY <2>1
  <2> HIDE DEF new
  <2>8. \A x \in (fields \cup {"id"}) \ {"node", "edge", "item", "id"} : new[i][x] = a[x]
    BY <2>3, <2>4, <2>5, <2>6
  <2>9. /\ new[i].id = <<2, a.code>> /\ new[i].item = ItemFor(ItemCode(a.item))
        /\ new[i].node = NewId(nodes, CodeOf(net.nodes, a.node)) /\ new[i].edge = NewId(edges, CodeOf(net.edges, a.edge))
    BY <2>3, <2>4, <2>5, <2>6
  <2> QED
    BY <2>7, <2>8, <2>9 DEF SameAsset
<1>4. DOMAIN new = D /\ new = [i \in D |-> new[i]]
  <2> HIDE DEF In, Out
  <2> QED
    BY <1>2
<1> QED
  BY <1>3, <1>4 DEF Relabelled

\* The items that a network names come back when each is the last version that carries its code.
LEMMA ItemsComeBack ==
    ASSUME NEW net, IsStored(net), ~NewerExists(net)
    PROVE  /\ \A e \in Range(net.edges) : ItemFor(ItemCode(e.material)) = e.material
           /\ \A a \in Range(net.assets) : ItemFor(ItemCode(a.item)) = a.item
<1>1. \A x \in {a.item : a \in Range(net.assets)} \cup MaterialsOf(net) : ItemFor(Items[x].code) = x
  BY DEF NewerExists
<1>2. ItemFor(None) = None
  <2>1. {x \in DOMAIN Items : Items[x].code = None} = {}
    BY NetworkAssumption
  <2> QED
    BY <2>1 DEF ItemFor
<1>3. ASSUME NEW e \in Range(net.edges) PROVE ItemFor(ItemCode(e.material)) = e.material
  <2>1. CASE e.material = None
    BY <1>2, <2>1 DEF ItemCode
  <2>2. CASE e.material # None
    BY <1>1, <2>2 DEF ItemCode, MaterialsOf
  <2> QED
    BY <2>1, <2>2
<1>4. ASSUME NEW a \in Range(net.assets) PROVE ItemFor(ItemCode(a.item)) = a.item
  <2>1. a.item # None
    BY NetworkAssumption DEF IsStored, IsAsset
  <2> QED
    BY <1>1, <2>1 DEF ItemCode
<1> QED
  BY <1>3, <1>4

\* What is imported differs from what was exported by its identifiers.
LEMMA CopyIsAlike ==
    ASSUME NEW net, IsStored(net), ~NewerExists(net),
           NEW new, new = Imported(Exported(net), net.fluid), new # Refused
    PROVE  Alike(net, new, NewNames(net.nodes), NewNames(net.edges))
<1> DEFINE doc == Exported(net)
           nodes == ImportedNodes(doc)
           edges == ImportedEdges(doc, nodes)
           assets == ImportedAssets(doc, nodes, edges)
           f == NewNames(net.nodes)
           g == NewNames(net.edges)
<1>1. new = [nodes |-> nodes, edges |-> edges, assets |-> assets, fluid |-> net.fluid]
  BY DEF Imported, WithEdges, WithAssets, Admitted
<1>2. /\ IsKeyed(net.nodes) /\ IsKeyed(net.edges) /\ IsKeyed(net.assets)
      /\ \A i \in DOMAIN net.edges : net.edges[i] \in Range(net.edges) /\ IsEdge(net, net.edges[i])
      /\ \A i \in DOMAIN net.assets : net.assets[i] \in Range(net.assets) /\ IsAsset(net, net.assets[i])
  BY DEF IsStored, Range
<1>3. Relabelled(net.nodes, nodes) /\ \A i \in DOMAIN net.nodes : SameNode(net.nodes[i], nodes[i])
  BY NodesComeBack
<1>4. /\ Relabelled(net.edges, edges)
      /\ \A i \in DOMAIN net.edges :
            LET e == net.edges[i]
            IN  /\ SameEdge([e EXCEPT !.material = ItemFor(ItemCode(@))], edges[i])
                /\ edges[i].from = NewId(nodes, CodeOf(net.nodes, e.from))
                /\ edges[i].to = NewId(nodes, CodeOf(net.nodes, e.to))
  BY EdgesComeBack
<1>5. /\ Relabelled(net.assets, assets)
      /\ \A i \in DOMAIN net.assets :
            LET a == net.assets[i]
            IN  /\ SameAsset([a EXCEPT !.item = ItemFor(ItemCode(@))], assets[i])
                /\ assets[i].node = NewId(nodes, CodeOf(net.nodes, a.node))
                /\ assets[i].edge = NewId(edges, CodeOf(net.edges, a.edge))
  BY AssetsComeBack
<1> HIDE DEF nodes, edges, assets, f, g
<1>6. /\ IsKeyed(nodes) /\ Len(nodes) = Len(net.nodes) /\ IsRenaming(f, Ids(net.nodes))
      /\ \A i \in DOMAIN net.nodes : nodes[i].id = f[net.nodes[i].id]
      /\ \A id \in Ids(net.nodes) : CodeOf(net.nodes, id) # None => NewId(nodes, CodeOf(net.nodes, id)) = f[id]
  BY <1>2, <1>3, RowsComeBack DEF f
<1>7. /\ IsKeyed(edges) /\ Len(edges) = Len(net.edges) /\ IsRenaming(g, Ids(net.edges))
      /\ \A i \in DOMAIN net.edges : edges[i].id = g[net.edges[i].id]
      /\ \A id \in Ids(net.edges) : CodeOf(net.edges, id) # None => NewId(edges, CodeOf(net.edges, id)) = g[id]
  BY <1>2, <1>4, RowsComeBack DEF g
<1>8. IsKeyed(assets) /\ Len(assets) = Len(net.assets)
  BY <1>2, <1>5, RowsComeBack
<1>9. ASSUME NEW rows, IsKeyed(rows) PROVE CodeOf(rows, None) = None /\ \A id \in Ids(rows) : CodeOf(rows, id) # None /\ id # None
  <2>1. ASSUME NEW id \in Ids(rows) PROVE CodeOf(rows, id) # None /\ id # None
    <3>1. PICK i \in DOMAIN rows : id = rows[i].id
      BY <1>9, RowsAreKeyed
    <3>2. Named(rows, id) = rows[i] /\ rows[i].code \in Int /\ None \notin Ids(rows)
      BY <1>9, <3>1, RowsAreKeyed DEF IsKeyed
    <3> QED
      BY <3>2, NetworkAssumption DEF CodeOf
  <2> QED
    BY <2>1 DEF CodeOf
<1>10. \A i \in DOMAIN net.edges : /\ SameEdge(net.edges[i], edges[i])
                                   /\ edges[i].from = f[net.edges[i].from] /\ edges[i].to = f[net.edges[i].to]
  <2> TAKE i \in DOMAIN net.edges
  <2> DEFINE e == net.edges[i]
  <2>1. SameEdge([e EXCEPT !.material = ItemFor(ItemCode(@))], edges[i]) /\ ItemFor(ItemCode(e.material)) = e.material
    BY <1>2, <1>4, ItemsComeBack
  <2>2. DOMAIN e = {"id", "code", "from", "to", "sequence", "length", "maop", "material", "status", "profile", "fittings"}
    BY <1>2 DEF IsEdge
  <2>3. SameEdge(e, edges[i])
    BY <2>1, <2>2 DEF SameEdge
  <2>4. e.from \in Ids(net.nodes) /\ e.to \in Ids(net.nodes)
    BY <1>2 DEF IsEdge
  <2> QED
    BY <1>2, <1>4, <1>6, <1>9, <2>3, <2>4
<1>11. \A i \in DOMAIN net.assets : /\ SameAsset(net.assets[i], assets[i])
                                    /\ assets[i].node = RenamedBy(f, net.assets[i].node)
                                    /\ assets[i].edge = RenamedBy(g, net.assets[i].edge)
  <2> TAKE i \in DOMAIN net.assets
  <2> DEFINE a == net.assets[i]
  <2>1. SameAsset([a EXCEPT !.item = ItemFor(ItemCode(@))], assets[i]) /\ ItemFor(ItemCode(a.item)) = a.item
    BY <1>2, <1>5, ItemsComeBack
  <2>2. DOMAIN a = {"id", "code", "item", "node", "edge", "role", "status", "at", "opening", "running", "speed"}
    BY <1>2 DEF IsAsset
  <2>3. SameAsset(a, assets[i])
    BY <2>1, <2>2 DEF SameAsset
  <2>4. a.node \in Ids(net.nodes) \cup {None} /\ a.edge \in Ids(net.edges) \cup {None}
    BY <1>2 DEF IsAsset, Maybe
  <2>5. NewId(nodes, None) = None /\ NewId(edges, None) = None
    BY DEF NewId
  <2>6. assets[i].node = RenamedBy(f, a.node)
    <3>1. assets[i].node = NewId(nodes, CodeOf(net.nodes, a.node))
      BY <1>5
    <3>2. CASE a.node = None
      BY <1>2, <1>9, <2>5, <3>1, <3>2 DEF RenamedBy
    <3>3. CASE a.node \in Ids(net.nodes)
      BY <1>2, <1>6, <1>9, <3>1, <3>3 DEF RenamedBy
    <3> QED
      BY <2>4, <3>2, <3>3
  <2>7. assets[i].edge = RenamedBy(g, a.edge)
    <3>1. assets[i].edge = NewId(edges, CodeOf(net.edges, a.edge))
      BY <1>5
    <3>2. CASE a.edge = None
      BY <1>2, <1>9, <2>5, <3>1, <3>2 DEF RenamedBy
    <3>3. CASE a.edge \in Ids(net.edges)
      BY <1>2, <1>7, <1>9, <3>1, <3>3 DEF RenamedBy
    <3> QED
      BY <2>4, <3>2, <3>3
  <2> QED
    BY <2>3, <2>6, <2>7
<1> QED
  BY <1>1, <1>3, <1>6, <1>7, <1>8, <1>10, <1>11 DEF Alike, f, g

\* The rows of two networks that differ by their identifiers, one by one.
Rows(a, b, f, g) ==
    /\ DOMAIN b.nodes = DOMAIN a.nodes /\ DOMAIN b.edges = DOMAIN a.edges /\ DOMAIN b.assets = DOMAIN a.assets
    /\ Range(a.nodes) = {a.nodes[i] : i \in DOMAIN a.nodes} /\ Range(b.nodes) = {b.nodes[i] : i \in DOMAIN a.nodes}
    /\ Range(a.edges) = {a.edges[i] : i \in DOMAIN a.edges} /\ Range(b.edges) = {b.edges[i] : i \in DOMAIN a.edges}
    /\ Range(a.assets) = {a.assets[i] : i \in DOMAIN a.assets} /\ Range(b.assets) = {b.assets[i] : i \in DOMAIN a.assets}
    /\ \A i \in DOMAIN a.nodes : a.nodes[i].id \in Ids(a.nodes) /\ SameNode(a.nodes[i], b.nodes[i]) /\ b.nodes[i].id = f[a.nodes[i].id]
    /\ \A i \in DOMAIN a.edges : /\ a.edges[i].from \in Ids(a.nodes) /\ a.edges[i].to \in Ids(a.nodes) /\ a.edges[i].id \in Ids(a.edges)
                                 /\ SameEdge(a.edges[i], b.edges[i]) /\ b.edges[i].id = g[a.edges[i].id]
                                 /\ b.edges[i].from = f[a.edges[i].from] /\ b.edges[i].to = f[a.edges[i].to]
    /\ \A i \in DOMAIN a.assets : /\ SameAsset(a.assets[i], b.assets[i])
                                  /\ a.assets[i].node \in Maybe(Ids(a.nodes)) /\ a.assets[i].edge \in Maybe(Ids(a.edges))
                                  /\ \A x \in Ids(a.nodes) : b.assets[i].node = f[x] <=> a.assets[i].node = x
                                  /\ \A x \in Ids(a.edges) : b.assets[i].edge = g[x] <=> a.assets[i].edge = x
                                  /\ b.assets[i].edge = None <=> a.assets[i].edge = None
                                  /\ b.assets[i].node = None <=> a.assets[i].node = None
    /\ Ids(b.nodes) = {f[x] : x \in Ids(a.nodes)}
    /\ \A x, y \in Ids(a.nodes) : f[x] = f[y] => x = y
    /\ \A x \in Ids(a.nodes) : /\ Named(a.nodes, x) \in Range(a.nodes) /\ Named(a.nodes, x).id = x
                               /\ SameNode(Named(a.nodes, x), Named(b.nodes, f[x]))

\* Alike, row by row.
LEMMA AlikeRows ==
    ASSUME NEW a, NEW b, NEW f, NEW g, IsStored(a), Alike(a, b, f, g)
    PROVE  Rows(a, b, f, g)
<1>1. /\ IsKeyed(a.nodes) /\ IsKeyed(a.edges) /\ IsKeyed(a.assets)
      /\ IsKeyed(b.nodes) /\ IsKeyed(b.edges) /\ IsKeyed(b.assets)
  BY DEF IsStored, Alike
<1>2. /\ Len(b.nodes) = Len(a.nodes) /\ Len(b.edges) = Len(a.edges) /\ Len(b.assets) = Len(a.assets)
      /\ IsRenaming(f, Ids(a.nodes)) /\ IsRenaming(g, Ids(a.edges))
  BY DEF Alike
<1>3. /\ DOMAIN a.nodes = 1..Len(a.nodes) /\ DOMAIN b.nodes = 1..Len(b.nodes)
      /\ DOMAIN a.edges = 1..Len(a.edges) /\ DOMAIN b.edges = 1..Len(b.edges)
      /\ DOMAIN a.assets = 1..Len(a.assets) /\ DOMAIN b.assets = 1..Len(b.assets)
  BY <1>1, RowsAreKeyed
<1>4. /\ DOMAIN b.nodes = DOMAIN a.nodes /\ DOMAIN b.edges = DOMAIN a.edges /\ DOMAIN b.assets = DOMAIN a.assets
  BY <1>2, <1>3
<1>5. /\ Range(a.nodes) = {a.nodes[i] : i \in DOMAIN a.nodes} /\ Range(b.nodes) = {b.nodes[i] : i \in DOMAIN a.nodes}
      /\ Range(a.edges) = {a.edges[i] : i \in DOMAIN a.edges} /\ Range(b.edges) = {b.edges[i] : i \in DOMAIN a.edges}
      /\ Range(a.assets) = {a.assets[i] : i \in DOMAIN a.assets} /\ Range(b.assets) = {b.assets[i] : i \in DOMAIN a.assets}
  BY <1>4 DEF Range
<1>6. \A i \in DOMAIN a.nodes : a.nodes[i].id \in Ids(a.nodes) /\ SameNode(a.nodes[i], b.nodes[i]) /\ b.nodes[i].id = f[a.nodes[i].id]
  BY <1>5 DEF Alike, Ids
<1>7. \A i \in DOMAIN a.edges : /\ a.edges[i].from \in Ids(a.nodes) /\ a.edges[i].to \in Ids(a.nodes) /\ a.edges[i].id \in Ids(a.edges)
                                /\ SameEdge(a.edges[i], b.edges[i]) /\ b.edges[i].id = g[a.edges[i].id]
                                /\ b.edges[i].from = f[a.edges[i].from] /\ b.edges[i].to = f[a.edges[i].to]
  <2> TAKE i \in DOMAIN a.edges
  <2>1. IsEdge(a, a.edges[i]) /\ a.edges[i].id \in Ids(a.edges)
    BY <1>5 DEF IsStored, Ids
  <2> QED
    BY <2>1 DEF Alike, IsEdge
<1>8. \A i \in DOMAIN a.assets : /\ SameAsset(a.assets[i], b.assets[i])
                                 /\ a.assets[i].node \in Maybe(Ids(a.nodes)) /\ a.assets[i].edge \in Maybe(Ids(a.edges))
                                 /\ \A x \in Ids(a.nodes) : b.assets[i].node = f[x] <=> a.assets[i].node = x
                                 /\ \A x \in Ids(a.edges) : b.assets[i].edge = g[x] <=> a.assets[i].edge = x
                                 /\ b.assets[i].edge = None <=> a.assets[i].edge = None
                                 /\ b.assets[i].node = None <=> a.assets[i].node = None
  <2> TAKE i \in DOMAIN a.assets
  <2>1. a.assets[i].node \in Maybe(Ids(a.nodes)) /\ a.assets[i].edge \in Maybe(Ids(a.edges))
    BY <1>5 DEF IsStored, IsAsset
  <2>2. /\ SameAsset(a.assets[i], b.assets[i])
        /\ b.assets[i].node = RenamedBy(f, a.assets[i].node) /\ b.assets[i].edge = RenamedBy(g, a.assets[i].edge)
    BY DEF Alike
  <2>3. ASSUME NEW h, NEW ids, IsRenaming(h, ids), NEW x \in Maybe(ids)
        PROVE  /\ \A y \in ids : RenamedBy(h, x) = h[y] <=> x = y
               /\ RenamedBy(h, x) = None <=> x = None
    BY <2>3 DEF IsRenaming, RenamedBy, Maybe
  <2> QED
    BY <1>2, <2>1, <2>2, <2>3
<1>9. \A x \in Ids(a.nodes) : /\ Named(a.nodes, x) \in Range(a.nodes) /\ Named(a.nodes, x).id = x
                              /\ SameNode(Named(a.nodes, x), Named(b.nodes, f[x]))
  <2> TAKE x \in Ids(a.nodes)
  <2>1. PICK i \in DOMAIN a.nodes : x = a.nodes[i].id
    BY <1>1, RowsAreKeyed
  <2>2. Named(a.nodes, x) = a.nodes[i]
    BY <1>1, <2>1, RowsAreKeyed
  <2>3. Named(b.nodes, f[x]) = b.nodes[i]
    BY <1>1, <1>4, <1>6, <2>1, RowsAreKeyed
  <2> QED
    BY <1>5, <1>6, <2>1, <2>2, <2>3
<1>10. Ids(b.nodes) = {f[x] : x \in Ids(a.nodes)}
  BY <1>5, <1>6 DEF Ids
<1>11. \A x, y \in Ids(a.nodes) : f[x] = f[y] => x = y
  BY <1>2 DEF IsRenaming
<1> QED
  BY <1>4, <1>5, <1>6, <1>7, <1>8, <1>9, <1>10, <1>11 DEF Rows

(***************************************************************************)
(* A network and its copy have the same problems.                          *)
(***************************************************************************)

\* A set of nodes and the names its nodes take in the copy.
NamesOf(f, part) == {f[x] : x \in part}

\* The parts of a network and those of its copy correspond, and so do the parts no edge leaves.
LEMMA PartsAlike ==
    ASSUME NEW a, NEW b, NEW f, NEW g, IsStored(a), Rows(a, b, f, g)
    PROVE  /\ \A part \in SUBSET Ids(a.nodes) :
                 /\ NamesOf(f, part) \in SUBSET Ids(b.nodes)
                 /\ NamesOf(f, part) = Ids(b.nodes) <=> part = Ids(a.nodes)
                 /\ IsClosed(b, NamesOf(f, part)) <=> IsClosed(a, part)
                 /\ \A x \in Ids(a.nodes) : f[x] \in NamesOf(f, part) <=> x \in part
           /\ \A other \in SUBSET Ids(b.nodes) : \E part \in SUBSET Ids(a.nodes) : other = NamesOf(f, part)
           /\ Linked(b) = {NamesOf(f, l) : l \in Linked(a)}
           /\ Linked(a) \subseteq SUBSET Ids(a.nodes)
<1>1. \A part \in SUBSET Ids(a.nodes) : \A x \in Ids(a.nodes) : f[x] \in NamesOf(f, part) <=> x \in part
  BY DEF Rows, NamesOf
<1>2. \A part \in SUBSET Ids(a.nodes) : NamesOf(f, part) \in SUBSET Ids(b.nodes)
  BY DEF Rows, NamesOf
<1>3. \A part \in SUBSET Ids(a.nodes) : NamesOf(f, part) = Ids(b.nodes) <=> part = Ids(a.nodes)
  <2> TAKE part \in SUBSET Ids(a.nodes)
  <2>1. Ids(b.nodes) = NamesOf(f, Ids(a.nodes))
    BY DEF Rows, NamesOf
  <2> QED
    BY <1>1, <2>1
<1>4. ASSUME NEW other \in SUBSET Ids(b.nodes) PROVE \E part \in SUBSET Ids(a.nodes) : other = NamesOf(f, part)
  <2> DEFINE part == {x \in Ids(a.nodes) : f[x] \in other}
  <2>1. other = NamesOf(f, part)
    BY DEF Rows, NamesOf
  <2> QED
    BY <2>1
<1>5. Linked(a) = {{a.edges[i].from, a.edges[i].to} : i \in DOMAIN a.edges}
  BY DEF Linked, Range
<1>6. Linked(b) = {{f[a.edges[i].from], f[a.edges[i].to]} : i \in DOMAIN a.edges}
  <2>1. Linked(b) = {{b.edges[i].from, b.edges[i].to} : i \in DOMAIN b.edges}
    BY DEF Linked, Range
  <2>2. /\ DOMAIN b.edges = DOMAIN a.edges
        /\ \A i \in DOMAIN a.edges : b.edges[i].from = f[a.edges[i].from] /\ b.edges[i].to = f[a.edges[i].to]
    BY DEF Rows
  <2> QED
    BY <2>1, <2>2
<1>7. \A i \in DOMAIN a.edges : /\ NamesOf(f, {a.edges[i].from, a.edges[i].to}) = {f[a.edges[i].from], f[a.edges[i].to]}
                                /\ {a.edges[i].from, a.edges[i].to} \in SUBSET Ids(a.nodes)
  BY DEF NamesOf, Rows
<1>8. Linked(b) = {NamesOf(f, l) : l \in Linked(a)}
  <2> DEFINE L(i) == {a.edges[i].from, a.edges[i].to}
  <2>1. Linked(a) = {L(i) : i \in DOMAIN a.edges}
    BY <1>5
  <2>2. Linked(b) = {NamesOf(f, L(i)) : i \in DOMAIN a.edges}
    BY <1>6, <1>7
  <2> HIDE DEF L
  <2> QED
    BY <2>1, <2>2
<1>9. Linked(a) \subseteq SUBSET Ids(a.nodes)
  BY <1>5, <1>7
<1>10. ASSUME NEW part \in SUBSET Ids(a.nodes) PROVE IsClosed(b, NamesOf(f, part)) <=> IsClosed(a, part)
  <2>1. \A l \in Linked(a) : /\ NamesOf(f, l) \cap NamesOf(f, part) # {} <=> l \cap part # {}
                             /\ NamesOf(f, l) \subseteq NamesOf(f, part) <=> l \subseteq part
    <3> TAKE l \in Linked(a)
    <3>1. l \in SUBSET Ids(a.nodes)
      BY <1>9
    <3>2. NamesOf(f, l) \cap NamesOf(f, part) # {} <=> l \cap part # {}
      <4>1. \A x \in l : f[x] \in NamesOf(f, l) /\ (f[x] \in NamesOf(f, part) <=> x \in part)
        BY <1>1, <3>1 DEF NamesOf
      <4>2. \A y \in NamesOf(f, l) : \E x \in l : y = f[x]
        BY DEF NamesOf
      <4> QED
        BY <4>1, <4>2
    <3>3. NamesOf(f, l) \subseteq NamesOf(f, part) <=> l \subseteq part
      <4>1. \A x \in l : f[x] \in NamesOf(f, l) /\ (f[x] \in NamesOf(f, part) <=> x \in part)
        BY <1>1, <3>1 DEF NamesOf
      <4>2. \A y \in NamesOf(f, l) : \E x \in l : y = f[x]
        BY DEF NamesOf
      <4> QED
        BY <4>1, <4>2
    <3> QED
      BY <3>2, <3>3
  <2> QED
    BY <1>8, <2>1 DEF IsClosed
<1> QED
  BY <1>1, <1>2, <1>3, <1>4, <1>8, <1>9, <1>10

\* The checks of the graph find the same problems in the copy.
LEMMA GraphAlike ==
    ASSUME NEW a, NEW b, NEW f, NEW g, IsStored(a), Alike(a, b, f, g), Rows(a, b, f, g)
    PROVE  TrueOf(GraphProblems(b)) = TrueOf(GraphProblems(a))
<1> DEFINE all(net) == GraphProblems(net)
<1>1. /\ Len(b.nodes) = Len(a.nodes) /\ Len(b.edges) = Len(a.edges) /\ Len(a.nodes) \in Nat /\ Len(a.edges) \in Nat
      /\ DOMAIN a.nodes = 1..Len(a.nodes) /\ a.nodes \in Seq(Range(a.nodes)) /\ b.nodes \in Seq(Range(b.nodes))
      /\ a.edges \in Seq(Range(a.edges)) /\ b.edges \in Seq(Range(b.edges))
  <2>1. IsKeyed(a.nodes) /\ IsKeyed(a.edges) /\ IsKeyed(b.nodes) /\ IsKeyed(b.edges)
    BY DEF Alike, IsStored
  <2> QED
    BY <2>1, RowsAreKeyed DEF Alike, IsKeyed
<1>2. all(b).NODE_COUNT <=> all(a).NODE_COUNT
  BY <1>1 DEF GraphProblems
<1>3. all(b).EDGE_COUNT <=> all(a).EDGE_COUNT
  BY <1>1 DEF GraphProblems
<1>4. ~all(a).EDGE_NODE /\ ~all(b).EDGE_NODE
  <2>1. UNION Linked(a) \subseteq Ids(a.nodes) /\ UNION Linked(b) \subseteq Ids(b.nodes)
    BY PartsAlike
  <2> QED
    BY <2>1 DEF GraphProblems
<1>5. all(b).PROFILE_ELEVATION <=> all(a).PROFILE_ELEVATION
  <2> DEFINE Bare(e) == None \in {Head(e.profile)[2], Last(e.profile)[2]}
  <2>1. \A i \in DOMAIN a.edges : b.edges[i].profile = a.edges[i].profile
    BY DEF Rows, SameEdge
  <2>2. \A i \in DOMAIN a.edges : Bare(b.edges[i]) <=> Bare(a.edges[i])
    BY <2>1
  <2>3. all(b).PROFILE_ELEVATION = (\E e \in Range(b.edges) : Bare(e)) /\ all(a).PROFILE_ELEVATION = (\E e \in Range(a.edges) : Bare(e))
    BY DEF GraphProblems
  <2> HIDE DEF Bare, all
  <2> QED
    BY <2>2, <2>3 DEF Rows
<1>6. all(b).NODE_ISOLATED <=> all(a).NODE_ISOLATED
  <2>1. UNION Linked(a) \in SUBSET Ids(a.nodes)
    BY PartsAlike
  <2>2. UNION Linked(b) = NamesOf(f, UNION Linked(a))
    <3>1. Linked(b) = {NamesOf(f, l) : l \in Linked(a)}
      BY PartsAlike
    <3>2. UNION Linked(b) \subseteq NamesOf(f, UNION Linked(a))
      BY <3>1 DEF NamesOf
    <3>3. ASSUME NEW x \in UNION Linked(a) PROVE f[x] \in UNION Linked(b)
      <4>1. PICK l \in Linked(a) : x \in l
        OBVIOUS
      <4>2. f[x] \in NamesOf(f, l) /\ NamesOf(f, l) \in Linked(b)
        BY <3>1, <4>1 DEF NamesOf
      <4> QED
        BY <4>2
    <3> QED
      BY <3>2, <3>3 DEF NamesOf
  <2>3. Ids(a.nodes) \subseteq UNION Linked(a) <=> UNION Linked(a) = Ids(a.nodes)
    BY <2>1
  <2>4. Ids(b.nodes) \subseteq UNION Linked(b) <=> NamesOf(f, UNION Linked(a)) = Ids(b.nodes)
    <3> HIDE DEF all
    <3>1. NamesOf(f, UNION Linked(a)) \subseteq Ids(b.nodes)
      BY <2>1, PartsAlike
    <3>2. ASSUME NEW one, NEW other, one \subseteq other
          PROVE  other \subseteq one <=> one = other
      BY <3>2
    <3> QED
      BY <2>2, <3>1, <3>2
  <2>5. NamesOf(f, UNION Linked(a)) = Ids(b.nodes) <=> UNION Linked(a) = Ids(a.nodes)
    <3> HIDE DEF all
    <3>1. \A part \in SUBSET Ids(a.nodes) : NamesOf(f, part) = Ids(b.nodes) <=> part = Ids(a.nodes)
      BY PartsAlike
    <3> QED
      BY <2>1, <3>1
  <2>6. all(b).NODE_ISOLATED = ~ Ids(b.nodes) \subseteq UNION Linked(b) /\ all(a).NODE_ISOLATED = ~ Ids(a.nodes) \subseteq UNION Linked(a)
    BY DEF GraphProblems
  <2> HIDE DEF all
  <2> QED
    BY <2>3, <2>4, <2>5, <2>6
<1>7. all(b).DISCONNECTED <=> all(a).DISCONNECTED
  <2>1. b.nodes = <<>> <=> a.nodes = <<>>
    BY <1>1
  <2>2. CASE a.nodes = <<>>
    BY <2>1, <2>2 DEF GraphProblems
  <2>3. CASE a.nodes # <<>>
    <3>1. 1 \in DOMAIN a.nodes /\ Head(a.nodes) = a.nodes[1] /\ Head(b.nodes) = b.nodes[1]
      BY <1>1, <2>1, <2>3
    <3>2. Head(a.nodes).id \in Ids(a.nodes) /\ Head(b.nodes).id = f[Head(a.nodes).id]
      BY <3>1 DEF Rows
    <3>3. \A part \in SUBSET Ids(a.nodes) : WalkStaysIn(b, NamesOf(f, part)) <=> WalkStaysIn(a, part)
      BY <3>2, PartsAlike DEF WalkStaysIn
    <3>4. (\E other \in SUBSET Ids(b.nodes) : other # Ids(b.nodes) /\ WalkStaysIn(b, other))
             <=> \E part \in SUBSET Ids(a.nodes) : part # Ids(a.nodes) /\ WalkStaysIn(a, part)
      BY <3>3, PartsAlike
    <3> QED
      BY <2>1, <2>3, <3>4 DEF GraphProblems
  <2> QED
    BY <2>2, <2>3
<1>8. DOMAIN all(a) = DOMAIN all(b)
      /\ DOMAIN all(a) = {"NODE_COUNT", "EDGE_COUNT", "EDGE_NODE", "PROFILE_ELEVATION", "NODE_ISOLATED", "DISCONNECTED"}
  BY DEF GraphProblems
<1> HIDE DEF all
<1> QED
  BY <1>2, <1>3, <1>4, <1>5, <1>6, <1>7, <1>8 DEF TrueOf, all

\* The checks of the chain and of its ends find the same problems in the copy.
LEMMA ChainAlike ==
    ASSUME NEW a, NEW b, NEW f, NEW g, IsStored(a), Alike(a, b, f, g), Rows(a, b, f, g)
    PROVE  /\ TrueOf(ChainProblems(b)) = TrueOf(ChainProblems(a))
           /\ TrueOf(EndProblems(b)) = TrueOf(EndProblems(a))
           /\ Ends(a) \subseteq Ids(a.nodes) /\ Ends(b) = NamesOf(f, Ends(a))
           /\ b.edges = <<>> <=> a.edges = <<>>
           /\ a.edges # <<>> => /\ Head(b.edges).from = f[Head(a.edges).from] /\ Last(b.edges).to = f[Last(a.edges).to]
                                /\ Head(a.edges).from \in Ids(a.nodes) /\ Last(a.edges).to \in Ids(a.nodes)
<1>1. /\ Len(b.edges) = Len(a.edges) /\ Len(a.edges) \in Nat /\ DOMAIN a.edges = 1..Len(a.edges)
      /\ a.edges \in Seq(Range(a.edges)) /\ b.edges \in Seq(Range(b.edges))
  <2>1. IsKeyed(a.edges) /\ IsKeyed(b.edges)
    BY DEF Alike, IsStored
  <2> QED
    BY <2>1, RowsAreKeyed DEF Alike, IsKeyed
<1>2. TrueOf(ChainProblems(b)) = TrueOf(ChainProblems(a))
  <2> DEFINE all(net) == ChainProblems(net)
  <2>1. all(b).EDGE_SEQUENCE <=> all(a).EDGE_SEQUENCE
    BY SMTT(30) DEF ChainProblems, Rows, SameEdge
  <2>2. \A i \in 2..Len(a.edges) : b.edges[i - 1].to # b.edges[i].from <=> a.edges[i - 1].to # a.edges[i].from
    <3> TAKE i \in 2..Len(a.edges)
    <3>1. i \in DOMAIN a.edges /\ i - 1 \in DOMAIN a.edges
      BY <1>1
    <3> QED
      BY SMTT(30), <3>1 DEF Rows
  <2>3. all(b).EDGE_CHAIN <=> all(a).EDGE_CHAIN
    BY <1>1, <2>2 DEF ChainProblems
  <2>4. DOMAIN all(a) = DOMAIN all(b) /\ DOMAIN all(a) = {"EDGE_SEQUENCE", "EDGE_CHAIN"}
    BY DEF ChainProblems
  <2> HIDE DEF all
  <2> QED
    BY <2>1, <2>3, <2>4 DEF TrueOf, all
<1>3. b.edges = <<>> <=> a.edges = <<>>
  BY <1>1
<1>4. ASSUME a.edges # <<>>
      PROVE  /\ Head(b.edges).from = f[Head(a.edges).from] /\ Last(b.edges).to = f[Last(a.edges).to]
             /\ Head(a.edges).from \in Ids(a.nodes) /\ Last(a.edges).to \in Ids(a.nodes)
  <2>1. 1 \in DOMAIN a.edges /\ Len(a.edges) \in DOMAIN a.edges /\ Head(a.edges) = a.edges[1] /\ Head(b.edges) = b.edges[1]
    BY <1>1, <1>3, <1>4
  <2>2. Last(a.edges) = a.edges[Len(a.edges)] /\ Last(b.edges) = b.edges[Len(a.edges)]
    BY <1>1 DEF Last
  <2> QED
    BY <2>1, <2>2 DEF Rows
<1>5. Ends(a) \subseteq Ids(a.nodes) /\ Ends(b) = NamesOf(f, Ends(a))
  BY <1>3, <1>4 DEF Ends, NamesOf
<1>6. TrueOf(EndProblems(b)) = TrueOf(EndProblems(a))
  <2> DEFINE all(net) == EndProblems(net)
  <2>1. \A x \in Ids(a.nodes) : Named(b.nodes, f[x]).kind = Named(a.nodes, x).kind
    BY DEF Rows, SameNode
  <2>2. all(b).CHAIN_SOURCE <=> all(a).CHAIN_SOURCE
    BY <1>3, <1>4, <2>1 DEF EndProblems
  <2>3. all(b).CHAIN_TERMINAL <=> all(a).CHAIN_TERMINAL
    BY <1>3, <1>4, <2>1 DEF EndProblems
  <2>4. DOMAIN all(a) = DOMAIN all(b) /\ DOMAIN all(a) = {"CHAIN_SOURCE", "CHAIN_TERMINAL"}
    BY DEF EndProblems
  <2> HIDE DEF all
  <2> QED
    BY <2>2, <2>3, <2>4 DEF TrueOf, all
<1> QED
  BY <1>2, <1>3, <1>4, <1>5, <1>6

\* The pumps of a node, as the positions of their rows.
PumpSpots(net, id) == {i \in DOMAIN net.assets : net.assets[i].node = id /\ KindOf(net.assets[i]) = "pump"}

\* A node and its copy hold pumps at the same positions.
LEMMA PumpsAlike ==
    ASSUME NEW a, NEW b, NEW f, NEW g, Rows(a, b, f, g), NEW m, NEW n, m.id \in Ids(a.nodes), n.id = f[m.id]
    PROVE  /\ PumpSpots(b, n.id) = PumpSpots(a, m.id)
           /\ PumpsAt(a, m) = {a.assets[i] : i \in PumpSpots(a, m.id)}
           /\ PumpsAt(b, n) = {b.assets[i] : i \in PumpSpots(a, m.id)}
<1>1. \A i \in DOMAIN a.assets : b.assets[i].node = n.id <=> a.assets[i].node = m.id
  BY DEF Rows
<1>2. \A i \in DOMAIN a.assets : KindOf(b.assets[i]) = KindOf(a.assets[i])
  BY DEF Rows, SameAsset, KindOf
<1>3. PumpSpots(b, n.id) = PumpSpots(a, m.id)
  BY <1>1, <1>2 DEF PumpSpots, Rows
<1>4. PumpsAt(a, m) = {a.assets[i] : i \in PumpSpots(a, m.id)}
  BY DEF PumpsAt, PumpSpots, Rows
<1>5. PumpsAt(b, n) = {b.assets[i] : i \in PumpSpots(b, n.id)}
  BY DEF PumpsAt, PumpSpots, Rows
<1> QED
  BY <1>3, <1>4, <1>5

\* The checks of the equipment and of the catalog find the same problems in the copy.
LEMMA EquipmentAlike ==
    ASSUME NEW a, NEW b, NEW f, NEW g, IsStored(a), Alike(a, b, f, g), Rows(a, b, f, g)
    PROVE  TrueOf(EquipmentProblems(b)) = TrueOf(EquipmentProblems(a))
<1> DEFINE all(net) == EquipmentProblems(net)
<1>1. /\ Range(a.nodes) = {a.nodes[i] : i \in DOMAIN a.nodes} /\ Range(b.nodes) = {b.nodes[i] : i \in DOMAIN a.nodes}
      /\ Range(a.assets) = {a.assets[i] : i \in DOMAIN a.assets} /\ Range(b.assets) = {b.assets[i] : i \in DOMAIN a.assets}
  BY DEF Rows
<1>2. \A i \in DOMAIN a.nodes : /\ b.nodes[i].kind = a.nodes[i].kind /\ b.nodes[i].tank = a.nodes[i].tank
                                /\ b.nodes[i].flow = a.nodes[i].flow
                                /\ b.nodes[i].id = f[a.nodes[i].id] /\ a.nodes[i].id \in Ids(a.nodes)
  BY DEF Rows, SameNode
<1>3. \A i \in DOMAIN a.nodes : b.nodes[i].id \in Ends(b) <=> a.nodes[i].id \in Ends(a)
  <2> TAKE i \in DOMAIN a.nodes
  <2>1. Ends(a) \in SUBSET Ids(a.nodes) /\ Ends(b) = NamesOf(f, Ends(a))
    BY ChainAlike
  <2> QED
    BY <1>2, <2>1, PartsAlike
<1>4. all(b).ASSET_UNAPPROVED <=> all(a).ASSET_UNAPPROVED
  <2>1. \A i \in DOMAIN a.assets : b.assets[i].item = a.assets[i].item
    BY DEF Rows, SameAsset
  <2>2. all(b).ASSET_UNAPPROVED = (\E i \in DOMAIN a.assets : Items[b.assets[i].item].status # "approved")
    BY <1>1 DEF EquipmentProblems
  <2>3. all(a).ASSET_UNAPPROVED = (\E i \in DOMAIN a.assets : Items[a.assets[i].item].status # "approved")
    BY <1>1 DEF EquipmentProblems
  <2> HIDE DEF all
  <2> QED
    BY <2>1, <2>2, <2>3
<1>5. all(b).STATION_EMPTY <=> all(a).STATION_EMPTY
  <2>1. \A i \in DOMAIN a.nodes : PumpsAt(b, b.nodes[i]) = {} <=> PumpsAt(a, a.nodes[i]) = {}
    <3> TAKE i \in DOMAIN a.nodes
    <3>1. a.nodes[i].id \in Ids(a.nodes) /\ b.nodes[i].id = f[a.nodes[i].id]
      BY <1>2
    <3>2. /\ PumpsAt(a, a.nodes[i]) = {a.assets[k] : k \in PumpSpots(a, a.nodes[i].id)}
          /\ PumpsAt(b, b.nodes[i]) = {b.assets[k] : k \in PumpSpots(a, a.nodes[i].id)}
      BY <3>1, PumpsAlike
    <3> QED
      BY <3>2
  <2>2. all(b).STATION_EMPTY = (\E i \in DOMAIN a.nodes : b.nodes[i].kind = "station" /\ PumpsAt(b, b.nodes[i]) = {})
    BY <1>1 DEF EquipmentProblems
  <2>3. all(a).STATION_EMPTY = (\E i \in DOMAIN a.nodes : a.nodes[i].kind = "station" /\ PumpsAt(a, a.nodes[i]) = {})
    BY <1>1 DEF EquipmentProblems
  <2> HIDE DEF all
  <2> QED
    BY <1>2, <2>1, <2>2, <2>3
<1>6. all(b).NODE_UNSUPPORTED <=> all(a).NODE_UNSUPPORTED
  <2>1. all(b).NODE_UNSUPPORTED = (\E i \in DOMAIN a.nodes : b.nodes[i].kind = "tank" /\ b.nodes[i].id \notin Ends(b))
    BY <1>1 DEF EquipmentProblems
  <2>2. all(a).NODE_UNSUPPORTED = (\E i \in DOMAIN a.nodes : a.nodes[i].kind = "tank" /\ a.nodes[i].id \notin Ends(a))
    BY <1>1 DEF EquipmentProblems
  <2> HIDE DEF all
  <2> QED
    BY <1>2, <1>3, <2>1, <2>2
<1>7. all(b).TANK_REFERENCE <=> all(a).TANK_REFERENCE
  <2>1. all(b).TANK_REFERENCE = (\E i \in DOMAIN a.nodes : b.nodes[i].kind = "tank" /\ b.nodes[i].id \in Ends(b) /\ b.nodes[i].tank = None)
    BY <1>1 DEF EquipmentProblems
  <2>2. all(a).TANK_REFERENCE = (\E i \in DOMAIN a.nodes : a.nodes[i].kind = "tank" /\ a.nodes[i].id \in Ends(a) /\ a.nodes[i].tank = None)
    BY <1>1 DEF EquipmentProblems
  <2> HIDE DEF all
  <2> QED
    BY <1>2, <1>3, <2>1, <2>2
<1>8. all(b).NODE_FLOW <=> all(a).NODE_FLOW
  <2> DEFINE Bad(n) == n.kind \in {"injection", "offtake"} /\ (n.flow = None \/ n.flow <= 0)
  <2>1. all(b).NODE_FLOW = (\E i \in DOMAIN a.nodes : Bad(b.nodes[i]))
    BY <1>1 DEF EquipmentProblems
  <2>2. all(a).NODE_FLOW = (\E i \in DOMAIN a.nodes : Bad(a.nodes[i]))
    BY <1>1 DEF EquipmentProblems
  <2>3. \A i \in DOMAIN a.nodes : Bad(b.nodes[i]) <=> Bad(a.nodes[i])
    BY <1>2
  <2> HIDE DEF all, Bad
  <2> QED
    BY <2>1, <2>2, <2>3
<1>9. DOMAIN all(a) = DOMAIN all(b)
      /\ DOMAIN all(a) = {"ASSET_UNAPPROVED", "STATION_EMPTY", "NODE_UNSUPPORTED", "TANK_REFERENCE", "NODE_FLOW"}
  BY DEF EquipmentProblems
<1> HIDE DEF all
<1> QED
  BY <1>4, <1>5, <1>6, <1>7, <1>8, <1>9 DEF TrueOf, all

\* validate_network says the same of a network and of its copy.
LEMMA ErrorsAlike ==
    ASSUME NEW a, NEW b, NEW f, NEW g, IsStored(a), Alike(a, b, f, g), Rows(a, b, f, g)
    PROVE  NetworkErrors(b) = NetworkErrors(a)
<1>1. MaterialsOf(b) = MaterialsOf(a)
  <2>1. \A i \in DOMAIN a.edges : b.edges[i].material = a.edges[i].material
    BY DEF Rows, SameEdge
  <2>2. {e.material : e \in Range(b.edges)} = {b.edges[i].material : i \in DOMAIN a.edges}
    BY DEF Rows
  <2>3. {e.material : e \in Range(a.edges)} = {a.edges[i].material : i \in DOMAIN a.edges}
    BY DEF Rows
  <2> QED
    BY <2>1, <2>2, <2>3 DEF MaterialsOf
<1>2. CatalogProblems(b) = CatalogProblems(a)
  <2>1. b.fluid = a.fluid
    BY DEF Alike
  <2> QED
    BY <1>1, <2>1 DEF CatalogProblems
<1> QED
  BY <1>2, GraphAlike, ChainAlike, EquipmentAlike DEF NetworkErrors

\* The tank of a node, and what _compile_network asks of the rows.
LEMMA CompilableAlike ==
    ASSUME NEW a, NEW b, NEW f, NEW g, IsStored(a), Alike(a, b, f, g), Rows(a, b, f, g)
    PROVE  /\ \A x \in Ids(a.nodes) : BoundaryTank(b, f[x]) = BoundaryTank(a, x)
           /\ Compilable(b) <=> Compilable(a)
<1>1. ASSUME NEW x \in Ids(a.nodes) PROVE BoundaryTank(b, f[x]) = BoundaryTank(a, x)
  BY DEF BoundaryTank, Rows, SameNode
<1>2. {BoundaryTank(b, id) : id \in Ends(b)} = {BoundaryTank(a, id) : id \in Ends(a)}
  <2>1. Ends(a) \subseteq Ids(a.nodes) /\ Ends(b) = {f[x] : x \in Ends(a)}
    BY ChainAlike DEF NamesOf
  <2>2. {BoundaryTank(b, id) : id \in Ends(b)} = {BoundaryTank(b, f[x]) : x \in Ends(a)}
    BY <2>1
  <2> QED
    BY <1>1, <2>1, <2>2
<1>3. (\A c \in Range(b.assets) : c.edge # None => KindOf(c) \in {"valve", "accessory"})
         <=> \A c \in Range(a.assets) : c.edge # None => KindOf(c) \in {"valve", "accessory"}
  <2>1. \A i \in DOMAIN a.assets : /\ KindOf(b.assets[i]) = KindOf(a.assets[i])
                                   /\ b.assets[i].edge = None <=> a.assets[i].edge = None
    BY DEF Rows, SameAsset, KindOf
  <2> QED
    BY <2>1 DEF Rows
<1>4. (\A n \in Range(b.nodes) : n.kind = "station" => n.arrangement \in {"series", "parallel"})
         <=> \A n \in Range(a.nodes) : n.kind = "station" => n.arrangement \in {"series", "parallel"}
  <2>1. \A i \in DOMAIN a.nodes : b.nodes[i].kind = a.nodes[i].kind /\ b.nodes[i].arrangement = a.nodes[i].arrangement
    BY DEF Rows, SameNode
  <2> QED
    BY <2>1 DEF Rows
<1> QED
  BY <1>1, <1>2, <1>3, <1>4 DEF Compilable

(***************************************************************************)
(* A network and its copy are assembled to the same sections.              *)
(***************************************************************************)

\* The edges of a network that is stored, and the chainages of its nodes.
LEMMA Chainages ==
    ASSUME NEW net, IsStored(net)
    PROVE  /\ Len(net.edges) \in Nat /\ DOMAIN net.edges = 1..Len(net.edges) /\ IsFiniteSet(DOMAIN net.edges)
           /\ \A i \in DOMAIN net.edges : net.edges[i].length \in Nat \ {0} /\ CoversEdge(net.edges[i])
           /\ \A i \in 1..(Len(net.edges) + 1) : StartOf(net, i) \in Nat
           /\ \A id : ChainageOf(net, id) \in Nat
<1> DEFINE n == Len(net.edges)
<1>1. n \in Nat /\ DOMAIN net.edges = 1..n /\ IsFiniteSet(DOMAIN net.edges)
  <2>1. n \in Nat /\ DOMAIN net.edges = 1..n
    BY RowsAreKeyed DEF IsStored
  <2>2. IsFiniteSet(1..n)
    <3> HIDE DEF n
    <3> QED
      BY <2>1, FS_Interval
  <2> QED
    BY <2>1, <2>2
<1>2. \A i \in DOMAIN net.edges : net.edges[i].length \in Nat \ {0} /\ CoversEdge(net.edges[i])
  BY DEF IsStored, Range, IsEdge, CoversEdge
<1>3. ASSUME NEW i \in 1..(n + 1) PROVE StartOf(net, i) \in Nat
  <2> DEFINE lengths == [j \in 1..(i - 1) |-> net.edges[j].length]
  <2>1. \A j \in 1..(i - 1) : j \in DOMAIN net.edges
    BY <1>1
  <2>2. lengths \in [1..(i - 1) -> Nat] /\ IsFiniteSet(1..(i - 1))
    <3>1. IsFiniteSet(1..(i - 1))
      BY FS_Interval
    <3> QED
      BY <1>2, <2>1, <3>1
  <2>3. SumOver(lengths) \in Nat
    <3> HIDE DEF lengths
    <3> QED
      BY <2>2, SumNatural
  <2> QED
    BY <2>3 DEF StartOf
<1>4. ASSUME NEW id PROVE ChainageOf(net, id) \in Nat
  <2> DEFINE leaving == {i \in DOMAIN net.edges : net.edges[i].from = id}
             reaching == {i \in DOMAIN net.edges : net.edges[i].to = id}
  <2>1. leaving \subseteq DOMAIN net.edges /\ reaching \subseteq DOMAIN net.edges
    OBVIOUS
  <2>2. ChainageOf(net, id) = IF reaching # {} THEN StartOf(net, Max(reaching) + 1)
                              ELSE IF leaving # {} THEN StartOf(net, Min(leaving)) ELSE 0
    BY DEF ChainageOf
  <2> HIDE DEF leaving, reaching
  <2>3. IsFiniteSet(leaving) /\ IsFiniteSet(reaching) /\ leaving \subseteq Int /\ reaching \subseteq Int
    BY <1>1, <2>1, FS_Subset
  <2>4. reaching # {} => Max(reaching) + 1 \in 1..(n + 1)
    <3> SUFFICES ASSUME reaching # {} PROVE Max(reaching) + 1 \in 1..(n + 1)
      OBVIOUS
    <3>1. Max(reaching) \in reaching
      BY <2>3, MaxOf
    <3>2. Max(reaching) \in 1..n
      BY <1>1, <2>1, <3>1
    <3> QED
      BY <1>1, <3>2
  <2>5. leaving # {} => Min(leaving) \in 1..(n + 1)
    <3> SUFFICES ASSUME leaving # {} PROVE Min(leaving) \in 1..(n + 1)
      OBVIOUS
    <3>1. Min(leaving) \in leaving
      BY <2>3, MinOf
    <3>2. Min(leaving) \in 1..n
      BY <1>1, <2>1, <3>1
    <3> QED
      BY <1>1, <3>2
  <2> QED
    BY <1>3, <2>2, <2>4, <2>5
<1> QED
  BY <1>1, <1>2, <1>3, <1>4

\* A node and its copy are at the same chainage.
LEMMA ChainagesAlike ==
    ASSUME NEW a, NEW b, NEW f, NEW g, IsStored(a), Alike(a, b, f, g), Rows(a, b, f, g)
    PROVE  /\ Len(b.edges) = Len(a.edges)
           /\ \A i \in 1..(Len(a.edges) + 1) : StartOf(b, i) = StartOf(a, i)
           /\ \A x \in Ids(a.nodes) : ChainageOf(b, f[x]) = ChainageOf(a, x)
<1>1. /\ Len(a.edges) \in Nat /\ DOMAIN a.edges = 1..Len(a.edges) /\ IsFiniteSet(DOMAIN a.edges)
      /\ Len(b.edges) = Len(a.edges)
  BY Chainages DEF Alike
<1>2. ASSUME NEW i \in 1..(Len(a.edges) + 1) PROVE StartOf(b, i) = StartOf(a, i)
  <2>1. \A j \in 1..(i - 1) : b.edges[j].length = a.edges[j].length
    <3> TAKE j \in 1..(i - 1)
    <3>1. j \in DOMAIN a.edges
      BY <1>1
    <3> QED
      BY <3>1 DEF Rows, SameEdge
  <2>2. [j \in 1..(i - 1) |-> b.edges[j].length] = [j \in 1..(i - 1) |-> a.edges[j].length]
    BY <2>1
  <2> QED
    BY <2>2 DEF StartOf
<1>3. ASSUME NEW x \in Ids(a.nodes) PROVE ChainageOf(b, f[x]) = ChainageOf(a, x)
  <2> DEFINE leaving == {i \in DOMAIN a.edges : a.edges[i].from = x}
             reaching == {i \in DOMAIN a.edges : a.edges[i].to = x}
  <2>1. {i \in DOMAIN b.edges : b.edges[i].from = f[x]} = leaving
    BY DEF Rows
  <2>2. {i \in DOMAIN b.edges : b.edges[i].to = f[x]} = reaching
    BY DEF Rows
  <2>3. leaving \subseteq DOMAIN a.edges /\ reaching \subseteq DOMAIN a.edges
    OBVIOUS
  <2>4. ChainageOf(a, x) = IF reaching # {} THEN StartOf(a, Max(reaching) + 1)
                           ELSE IF leaving # {} THEN StartOf(a, Min(leaving)) ELSE 0
    BY DEF ChainageOf
  <2>5. ChainageOf(b, f[x]) = IF reaching # {} THEN StartOf(b, Max(reaching) + 1)
                              ELSE IF leaving # {} THEN StartOf(b, Min(leaving)) ELSE 0
    BY <2>1, <2>2 DEF ChainageOf
  <2> HIDE DEF leaving, reaching
  <2>6. IsFiniteSet(leaving) /\ IsFiniteSet(reaching) /\ leaving \subseteq Int /\ reaching \subseteq Int
    BY <1>1, <2>3, FS_Subset
  <2>7. reaching # {} => Max(reaching) + 1 \in 1..(Len(a.edges) + 1)
    <3> SUFFICES ASSUME reaching # {} PROVE Max(reaching) + 1 \in 1..(Len(a.edges) + 1)
      OBVIOUS
    <3>1. Max(reaching) \in 1..Len(a.edges)
      BY <1>1, <2>3, <2>6, MaxOf
    <3> QED
      BY <1>1, <3>1
  <2>8. leaving # {} => Min(leaving) \in 1..(Len(a.edges) + 1)
    <3> SUFFICES ASSUME leaving # {} PROVE Min(leaving) \in 1..(Len(a.edges) + 1)
      OBVIOUS
    <3>1. Min(leaving) \in 1..Len(a.edges)
      BY <1>1, <2>3, <2>6, MinOf
    <3> QED
      BY <1>1, <3>1
  <2> QED
    BY <1>2, <2>4, <2>5, <2>7, <2>8
<1> QED
  BY <1>1, <1>2, <1>3

\* The assets of some rows, by their codes.
CodesOn(net, spots) == {net.assets[i].code : i \in spots}
LEMMA CodesAlike ==
    ASSUME NEW a, NEW b, NEW f, NEW g, IsStored(a), Alike(a, b, f, g), Rows(a, b, f, g),
           NEW spots \in SUBSET (DOMAIN a.assets), NEW codes, codes = CodesOn(a, spots)
    PROVE  /\ CodesOn(b, spots) = codes
           /\ codes \subseteq Int /\ IsFiniteSet(codes)
           /\ \A c \in codes : \E i \in spots : /\ a.assets[i].code = c
                                                /\ Coded(a.assets, c) = a.assets[i] /\ Coded(b.assets, c) = b.assets[i]
<1>1. /\ IsKeyed(a.assets) /\ IsKeyed(b.assets) /\ DOMAIN b.assets = DOMAIN a.assets
      /\ \A i \in DOMAIN a.assets : b.assets[i].code = a.assets[i].code
  BY DEF IsStored, Alike, Rows, SameAsset
<1>2. \A i \in spots : b.assets[i].code = a.assets[i].code /\ a.assets[i].code \in Int
                         /\ Coded(a.assets, a.assets[i].code) = a.assets[i] /\ Coded(b.assets, a.assets[i].code) = b.assets[i]
  <2> TAKE i \in spots
  <2>1. i \in DOMAIN a.assets /\ i \in DOMAIN b.assets /\ b.assets[i].code = a.assets[i].code
    BY <1>1
  <2> QED
    BY <1>1, <2>1, RowsAreKeyed
<1>3. CodesOn(b, spots) = codes /\ codes \subseteq Int
  BY <1>2 DEF CodesOn
<1>4. IsFiniteSet(codes)
  <2>1. IsFiniteSet(spots)
    <3>1. IsFiniteSet(DOMAIN a.assets)
      <4>1. Len(a.assets) \in Nat /\ DOMAIN a.assets = 1..Len(a.assets)
        BY <1>1, RowsAreKeyed
      <4> QED
        BY <4>1, FS_Interval
    <3> QED
      BY <3>1, FS_Subset
  <2> DEFINE h == [i \in spots |-> a.assets[i].code]
  <2>2. codes = {h[i] : i \in spots}
    BY DEF CodesOn
  <2>3. IsFiniteSet({h[i] : i \in spots})
    <3> HIDE DEF h
    <3> QED
      BY <2>1, FiniteImage
  <2> QED
    BY <2>2, <2>3
<1>5. \A c \in codes : \E i \in spots : c = a.assets[i].code
  BY DEF CodesOn
<1> QED
  BY <1>2, <1>3, <1>4, <1>5

\* The segments and the profile of the copy are those of the network.
LEMMA SegmentsAlike ==
    ASSUME NEW a, NEW b, NEW f, NEW g, IsStored(a), Alike(a, b, f, g), Rows(a, b, f, g)
    PROVE  SegmentsOf(b) = SegmentsOf(a) /\ ProfileOf(b) = ProfileOf(a) /\ LengthOf(b) = LengthOf(a)
<1>1. /\ Len(a.edges) \in Nat /\ DOMAIN a.edges = 1..Len(a.edges) /\ DOMAIN b.edges = DOMAIN a.edges
      /\ Len(b.edges) = Len(a.edges)
      /\ \A i \in 1..(Len(a.edges) + 1) : StartOf(b, i) = StartOf(a, i)
  BY Chainages, ChainagesAlike DEF Rows
<1>2. ASSUME NEW i \in DOMAIN a.edges, NEW start PROVE FittingsOn(b, b.edges[i], start) = FittingsOn(a, a.edges[i], start)
  <2> DEFINE d == a.edges[i]
             e == b.edges[i]
             spots == {k \in DOMAIN a.assets : a.assets[k].edge = d.id}
             codes == CodesOn(a, spots)
             placed == Sorted(codes, CodeBefore)
             written(x) == [k \in DOMAIN x.fittings |-> [x.fittings[k] EXCEPT !.at = Shifted(@, start)]]
  <2>1. d.id \in Ids(a.edges) /\ e.id = g[d.id] /\ e.fittings = d.fittings
    BY DEF Rows, SameEdge
  <2>2. {c.code : c \in {c \in Range(a.assets) : c.edge = d.id}} = codes
    BY DEF Rows, CodesOn
  <2>3. {c.code : c \in {c \in Range(b.assets) : c.edge = e.id}} = codes
    <3>1. \A k \in DOMAIN a.assets : (b.assets[k].edge = e.id <=> a.assets[k].edge = d.id) /\ b.assets[k].code = a.assets[k].code
      BY <2>1 DEF Rows, SameAsset
    <3>2. {k \in DOMAIN a.assets : b.assets[k].edge = e.id} = spots
      BY <3>1
    <3>3. {c.code : c \in {c \in Range(b.assets) : c.edge = e.id}} = {b.assets[k].code : k \in {k \in DOMAIN a.assets : b.assets[k].edge = e.id}}
      <4>1. Range(b.assets) = {b.assets[k] : k \in DOMAIN a.assets}
        BY DEF Rows
      <4> HIDE DEF e
      <4> QED
        BY <4>1
    <3>4. {b.assets[k].code : k \in spots} = codes
      BY <3>1 DEF CodesOn
    <3> QED
      BY <3>2, <3>3, <3>4
  <2>4. /\ codes \subseteq Int /\ IsFiniteSet(codes)
        /\ \A c \in codes : \E k \in spots : Coded(a.assets, c) = a.assets[k] /\ Coded(b.assets, c) = b.assets[k]
    <3>1. spots \in SUBSET (DOMAIN a.assets)
      OBVIOUS
    <3> HIDE DEF spots
    <3> QED
      BY <3>1, CodesAlike
  <2>5. \A k \in DOMAIN placed : placed[k] \in codes
    <3> HIDE DEF codes
    <3>1. Range(placed) = codes
      BY <2>4, CodesAreListed
    <3> QED
      BY <3>1 DEF Range
  <2>6. \A k \in DOMAIN placed : AssetFitting(Coded(b.assets, placed[k]), start) = AssetFitting(Coded(a.assets, placed[k]), start)
    <3> TAKE k \in DOMAIN placed
    <3> HIDE DEF placed
    <3>1. PICK j \in spots : Coded(a.assets, placed[k]) = a.assets[j] /\ Coded(b.assets, placed[k]) = b.assets[j]
      BY <2>4, <2>5
    <3>2. SameAsset(a.assets[j], b.assets[j])
      BY DEF Rows
    <3> QED
      BY <3>1, <3>2 DEF AssetFitting, SameAsset
  <2>7. FittingsOn(a, d, start) = written(d) \o [k \in DOMAIN placed |-> AssetFitting(Coded(a.assets, placed[k]), start)]
    <3> HIDE DEF d, codes
    <3> QED
      BY <2>2 DEF FittingsOn
  <2>8. FittingsOn(b, e, start) = written(e) \o [k \in DOMAIN placed |-> AssetFitting(Coded(b.assets, placed[k]), start)]
    <3> HIDE DEF e, codes
    <3> QED
      BY <2>3 DEF FittingsOn
  <2>9. written(e) = written(d)
    BY <2>1
  <2> HIDE DEF placed, written, d, e
  <2>10. [k \in DOMAIN placed |-> AssetFitting(Coded(a.assets, placed[k]), start)]
            = [k \in DOMAIN placed |-> AssetFitting(Coded(b.assets, placed[k]), start)]
    BY <2>6
  <2>11. FittingsOn(b, e, start) = FittingsOn(a, d, start)
    BY <2>7, <2>8, <2>9, <2>10
  <2> QED
    BY <2>11 DEF d, e
<1>3. \A i \in DOMAIN a.edges : \A start : SegmentRow(b, b.edges[i], start) = SegmentRow(a, a.edges[i], start)
  <2> TAKE i \in DOMAIN a.edges
  <2> TAKE start
  <2>1. SameEdge(a.edges[i], b.edges[i])
    BY DEF Rows
  <2> QED
    BY <1>2, <2>1 DEF SegmentRow, SameEdge
<1>4. SegmentsOf(b) = SegmentsOf(a)
  <2>1. \A i \in DOMAIN a.edges : i \in 1..(Len(a.edges) + 1)
    BY <1>1
  <2> QED
    BY <1>1, <1>3, <2>1 DEF SegmentsOf
<1>5. ProfileOf(b) = ProfileOf(a)
  <2>1. \A i \in DOMAIN a.edges : b.edges[i].profile = a.edges[i].profile /\ StartOf(b, i) = StartOf(a, i)
    <3> TAKE i \in DOMAIN a.edges
    <3>1. i \in 1..(Len(a.edges) + 1)
      BY <1>1
    <3> QED
      BY <1>1, <3>1 DEF Rows, SameEdge
  <2>2. \A i \in DOMAIN a.edges : PointsAlong(b.edges[i], i, StartOf(b, i)) = PointsAlong(a.edges[i], i, StartOf(a, i))
    BY <2>1 DEF PointsAlong
  <2>3. [i \in DOMAIN b.edges |-> PointsAlong(b.edges[i], i, StartOf(b, i))]
           = [i \in DOMAIN a.edges |-> PointsAlong(a.edges[i], i, StartOf(a, i))]
    BY <1>1, <2>2
  <2> QED
    BY <2>3 DEF ProfileOf
<1>6. LengthOf(b) = LengthOf(a)
  <2>1. Len(a.edges) + 1 \in 1..(Len(a.edges) + 1)
    BY <1>1
  <2> QED
    BY <1>1, <2>1 DEF LengthOf
<1> QED
  BY <1>4, <1>5, <1>6

\* The nodes of some kinds, in the order of their places.
LEMMA PlacesListed ==
    ASSUME NEW net, IsStored(net), NEW kinds, NEW places, places = Sorted(PlacesOf(net, kinds), PlacedBefore)
    PROVE  /\ places \in Seq(PlacesOf(net, kinds)) /\ Range(places) = PlacesOf(net, kinds)
           /\ DOMAIN places = 1..Len(places) /\ Len(places) \in Nat
           /\ \A j, k \in DOMAIN places : j < k => PlacedBefore(places[j], places[k])
           /\ \A p \in PlacesOf(net, kinds) : \E i \in DOMAIN net.nodes :
                 /\ p = <<ChainageOf(net, net.nodes[i].id), net.nodes[i].code>> /\ net.nodes[i].kind \in kinds
                 /\ Coded(net.nodes, p[2]) = net.nodes[i]
           /\ \A i \in DOMAIN net.nodes : net.nodes[i].kind \in kinds =>
                 <<ChainageOf(net, net.nodes[i].id), net.nodes[i].code>> \in PlacesOf(net, kinds)
<1> DEFINE Place(i) == <<ChainageOf(net, net.nodes[i].id), net.nodes[i].code>>
           spots == {i \in DOMAIN net.nodes : net.nodes[i].kind \in kinds}
<1>1. IsKeyed(net.nodes)
  BY DEF IsStored
<1>2. /\ DOMAIN net.nodes = 1..Len(net.nodes) /\ Len(net.nodes) \in Nat
      /\ Range(net.nodes) = {net.nodes[i] : i \in DOMAIN net.nodes}
      /\ \A i \in DOMAIN net.nodes : net.nodes[i].code \in Int /\ Coded(net.nodes, net.nodes[i].code) = net.nodes[i]
  BY <1>1, RowsAreKeyed
<1>3. PlacesOf(net, kinds) = {Place(i) : i \in spots}
  BY <1>2 DEF PlacesOf
<1>4. \A i \in spots : Place(i) \in Int \X Int
  BY <1>2, Chainages
<1>5. IsFiniteSet(PlacesOf(net, kinds))
  <2>1. IsFiniteSet(spots)
    <3>1. IsFiniteSet(DOMAIN net.nodes)
      BY <1>2, FS_Interval
    <3> QED
      BY <3>1, FS_Subset
  <2> DEFINE h == [i \in spots |-> Place(i)]
  <2>2. {h[i] : i \in spots} = PlacesOf(net, kinds)
    <3> HIDE DEF spots, Place
    <3> QED
      BY <1>3
  <2>3. IsFiniteSet({h[i] : i \in spots})
    <3> HIDE DEF h, spots
    <3> QED
      BY <2>1, FiniteImage
  <2> QED
    BY <2>2, <2>3
<1>6. PlacesOf(net, kinds) \subseteq Int \X Int
  <2> HIDE DEF spots, Place
  <2> QED
    BY <1>3, <1>4
<1>7. /\ places \in Seq(PlacesOf(net, kinds)) /\ Range(places) = PlacesOf(net, kinds)
      /\ \A j, k \in DOMAIN places : j < k => PlacedBefore(places[j], places[k])
  BY <1>5, <1>6, PlacesAreListed
<1>8. ASSUME NEW p \in PlacesOf(net, kinds)
      PROVE  \E i \in DOMAIN net.nodes : p = Place(i) /\ net.nodes[i].kind \in kinds /\ Coded(net.nodes, p[2]) = net.nodes[i]
  <2>1. PICK i \in spots : p = Place(i)
    <3> HIDE DEF spots, Place
    <3> QED
      BY <1>3
  <2>2. p[2] = net.nodes[i].code
    BY <2>1
  <2> QED
    BY <1>2, <2>1, <2>2
<1>9. \A i \in DOMAIN net.nodes : net.nodes[i].kind \in kinds => Place(i) \in PlacesOf(net, kinds)
  <2>1. \A i \in spots : Place(i) \in PlacesOf(net, kinds)
    <3> HIDE DEF spots, Place
    <3> QED
      BY <1>3
  <2> QED
    BY <2>1
<1>10. DOMAIN places = 1..Len(places) /\ Len(places) \in Nat
  BY <1>7
<1> QED
  BY <1>7, <1>8, <1>9, <1>10

\* The nodes of some kinds along the line are those of the copy, one by one.
LEMMA AlongAlike ==
    ASSUME NEW a, NEW b, NEW f, NEW g, IsStored(a), Alike(a, b, f, g), Rows(a, b, f, g), NEW kinds,
           NEW s, s = AlongLine(a, kinds), NEW t, t = AlongLine(b, kinds)
    PROVE  /\ s = [k \in 1..Len(s) |-> s[k]] /\ t = [k \in 1..Len(s) |-> t[k]] /\ Len(s) \in Nat /\ Len(t) = Len(s)
           /\ DOMAIN s = 1..Len(s) /\ DOMAIN t = 1..Len(s)
           /\ \A k \in 1..Len(s) : \E i \in DOMAIN a.nodes : s[k] = a.nodes[i] /\ t[k] = b.nodes[i] /\ a.nodes[i].kind \in kinds
<1> DEFINE Place(i) == <<ChainageOf(a, a.nodes[i].id), a.nodes[i].code>>
           places == Sorted(PlacesOf(a, kinds), PlacedBefore)
<1>1. \A i \in DOMAIN a.nodes : /\ b.nodes[i].kind = a.nodes[i].kind /\ b.nodes[i].code = a.nodes[i].code
                                /\ ChainageOf(b, b.nodes[i].id) = ChainageOf(a, a.nodes[i].id)
  BY SMTT(30), ChainagesAlike DEF Rows, SameNode
<1>2. PlacesOf(b, kinds) = PlacesOf(a, kinds)
  <2>0. Range(a.nodes) = {a.nodes[i] : i \in DOMAIN a.nodes} /\ Range(b.nodes) = {b.nodes[i] : i \in DOMAIN a.nodes}
    BY DEF Rows
  <2>1. PlacesOf(a, kinds) = {<<ChainageOf(a, a.nodes[i].id), a.nodes[i].code>> : i \in {i \in DOMAIN a.nodes : a.nodes[i].kind \in kinds}}
    BY <2>0 DEF PlacesOf
  <2>2. PlacesOf(b, kinds) = {<<ChainageOf(b, b.nodes[i].id), b.nodes[i].code>> : i \in {i \in DOMAIN a.nodes : b.nodes[i].kind \in kinds}}
    BY <2>0 DEF PlacesOf
  <2>3. {i \in DOMAIN a.nodes : b.nodes[i].kind \in kinds} = {i \in DOMAIN a.nodes : a.nodes[i].kind \in kinds}
    BY <1>1
  <2> QED
    BY <1>1, <2>1, <2>2, <2>3
<1>3. s = [k \in DOMAIN places |-> Coded(a.nodes, places[k][2])] /\ t = [k \in DOMAIN places |-> Coded(b.nodes, places[k][2])]
  BY <1>2 DEF AlongLine
<1> HIDE DEF places
<1>4. DOMAIN places = 1..Len(places) /\ Len(places) \in Nat /\ Range(places) = PlacesOf(a, kinds)
      /\ \A p \in PlacesOf(a, kinds) : \E i \in DOMAIN a.nodes :
           p = Place(i) /\ a.nodes[i].kind \in kinds /\ Coded(a.nodes, p[2]) = a.nodes[i]
  <2> USE DEF places
  <2> QED
    BY PlacesListed
<1>5. ASSUME NEW k \in DOMAIN places
      PROVE  \E i \in DOMAIN a.nodes : s[k] = a.nodes[i] /\ t[k] = b.nodes[i] /\ a.nodes[i].kind \in kinds
  <2>1. places[k] \in PlacesOf(a, kinds)
    BY <1>4 DEF Range
  <2>2. PICK i \in DOMAIN a.nodes : places[k] = Place(i) /\ a.nodes[i].kind \in kinds /\ Coded(a.nodes, places[k][2]) = a.nodes[i]
    BY <1>4, <2>1
  <2>3. places[k][2] = b.nodes[i].code
    BY <1>1, <2>2
  <2>4. IsKeyed(b.nodes) /\ i \in DOMAIN b.nodes
    BY DEF Alike, Rows
  <2>5. Coded(b.nodes, b.nodes[i].code) = b.nodes[i]
    BY <2>4, RowsAreKeyed
  <2> QED
    BY <1>3, <2>2, <2>3, <2>5
<1>6. /\ Len(s) = Len(places) /\ Len(t) = Len(places) /\ DOMAIN s = 1..Len(places) /\ DOMAIN t = 1..Len(places)
      /\ s = [k \in 1..Len(places) |-> s[k]] /\ t = [k \in 1..Len(places) |-> t[k]]
  <2>1. /\ DOMAIN s = 1..Len(places) /\ DOMAIN t = 1..Len(places)
        /\ s = [k \in 1..Len(places) |-> s[k]] /\ t = [k \in 1..Len(places) |-> t[k]]
    BY <1>3, <1>4
  <2>2. s \in [1..Len(places) -> Range(s)] /\ t \in [1..Len(places) -> Range(t)]
    BY <2>1 DEF Range
  <2>3. Len(s) = Len(places) /\ Len(t) = Len(places)
    BY <1>4, <2>2, FunctionIsSequence
  <2> QED
    BY <2>1, <2>3
<1> QED
  BY <1>4, <1>5, <1>6

\* The pumps of a node, by their codes.
LEMMA PumpRowsAlike ==
    ASSUME NEW a, NEW b, NEW f, NEW g, IsStored(a), Alike(a, b, f, g), Rows(a, b, f, g), NEW i \in DOMAIN a.nodes
    PROVE  LET m == a.nodes[i]
               n == b.nodes[i]
           IN  /\ PumpCodes(b, n) = PumpCodes(a, m) /\ PumpRows(b, n) = PumpRows(a, m)
               /\ PumpCodes(a, m) \in Seq({c.code : c \in Range(a.assets)})
<1> DEFINE m == a.nodes[i]
           n == b.nodes[i]
           spots == PumpSpots(a, m.id)
           codes == CodesOn(a, spots)
           listed == Sorted(codes, CodeBefore)
<1>1. m.id \in Ids(a.nodes) /\ n.id = f[m.id]
  BY DEF Rows
<1>2. PumpsAt(a, m) = {a.assets[k] : k \in spots} /\ PumpsAt(b, n) = {b.assets[k] : k \in spots}
  BY <1>1, PumpsAlike
<1>3. spots \in SUBSET (DOMAIN a.assets)
  BY DEF PumpSpots
<1> HIDE DEF spots
<1>4. /\ CodesOn(b, spots) = codes /\ codes \subseteq Int /\ IsFiniteSet(codes)
      /\ \A c \in codes : \E k \in spots : Coded(a.assets, c) = a.assets[k] /\ Coded(b.assets, c) = b.assets[k]
  BY <1>3, CodesAlike
<1>5. {c.code : c \in PumpsAt(a, m)} = codes
  <2> HIDE DEF m, n
  <2> QED
    BY <1>2 DEF CodesOn
<1>6. {c.code : c \in PumpsAt(b, n)} = codes
  <2>1. {c.code : c \in PumpsAt(b, n)} = CodesOn(b, spots)
    <3> HIDE DEF m, n
    <3> QED
      BY <1>2 DEF CodesOn
  <2> QED
    BY <1>4, <2>1
<1>7. PumpCodes(a, m) = listed /\ PumpCodes(b, n) = listed
  <2> HIDE DEF codes, m, n
  <2> QED
    BY <1>5, <1>6 DEF PumpCodes
<1>8. listed \in Seq(codes) /\ DOMAIN listed = 1..Cardinality(codes) /\ Range(listed) = codes
  <2> HIDE DEF codes
  <2> QED
    BY <1>4, CodesAreListed
<1>9. \A k \in DOMAIN listed : listed[k] \in codes
  <2> HIDE DEF listed, codes
  <2> QED
    BY <1>8 DEF Range
<1>10. \A k \in DOMAIN listed : PumpRow(Coded(b.assets, listed[k])) = PumpRow(Coded(a.assets, listed[k]))
  <2> TAKE k \in DOMAIN listed
  <2> HIDE DEF listed, codes
  <2>1. PICK j \in spots : Coded(a.assets, listed[k]) = a.assets[j] /\ Coded(b.assets, listed[k]) = b.assets[j]
    BY <1>4, <1>9
  <2>2. SameAsset(a.assets[j], b.assets[j])
    BY <1>3 DEF Rows
  <2> QED
    BY <2>1, <2>2 DEF PumpRow, SameAsset
<1>11. PumpRows(b, n) = PumpRows(a, m)
  <2> HIDE DEF listed, m, n
  <2> QED
    BY <1>7, <1>10 DEF PumpRows
<1>12. codes \subseteq {c.code : c \in Range(a.assets)}
  BY <1>3 DEF CodesOn, Rows
<1>13. listed \in Seq({c.code : c \in Range(a.assets)})
  <2> HIDE DEF listed, codes
  <2> QED
    BY <1>8, <1>12
<1> QED
  BY <1>7, <1>11, <1>13

\* Lists of the same nodes of a network and of its copy.
Paired(a, b, s, t) ==
    /\ Len(s) \in Nat /\ DOMAIN s = 1..Len(s) /\ DOMAIN t = 1..Len(s)
    /\ \A k \in 1..Len(s) : \E i \in DOMAIN a.nodes : s[k] = a.nodes[i] /\ t[k] = b.nodes[i]

\* The models of the pumps of the same nodes are the same.
LEMMA ModelsAlike ==
    ASSUME NEW a, NEW b, NEW f, NEW g, IsStored(a), Alike(a, b, f, g), Rows(a, b, f, g),
           NEW s, NEW t, Paired(a, b, s, t)
    PROVE  ModelsOf(b, t) = ModelsOf(a, s)
<1> DEFINE n == Len(s)
           C == {c.code : c \in Range(a.assets)}
           seqs == [k \in 1..n |-> PumpCodes(a, s[k])]
           pumps == FlattenSeq(seqs)
           item(k) == Coded(a.assets, pumps[k]).item
           copied_item(k) == Coded(b.assets, pumps[k]).item
           carrying(code) == {k \in DOMAIN pumps : Items[item(k)].code = code}
<1>0. /\ n \in Nat /\ DOMAIN s = 1..n /\ DOMAIN t = 1..n
      /\ \A k \in 1..n : \E i \in DOMAIN a.nodes : s[k] = a.nodes[i] /\ t[k] = b.nodes[i]
  BY DEF Paired
<1>1. \A k \in 1..n : PumpCodes(b, t[k]) = PumpCodes(a, s[k]) /\ PumpCodes(a, s[k]) \in Seq(C)
  <2> TAKE k \in 1..n
  <2>1. PICK i \in DOMAIN a.nodes : s[k] = a.nodes[i] /\ t[k] = b.nodes[i]
    BY <1>0
  <2>2. PumpCodes(b, b.nodes[i]) = PumpCodes(a, a.nodes[i]) /\ PumpCodes(a, a.nodes[i]) \in Seq(C)
    BY PumpRowsAlike
  <2> QED
    BY <2>1, <2>2
<1>2. [k \in DOMAIN s |-> PumpCodes(a, s[k])] = seqs /\ [k \in DOMAIN t |-> PumpCodes(b, t[k])] = seqs
  BY <1>0, <1>1
<1>3. seqs \in [1..n -> Seq(C)]
  BY <1>1
<1> HIDE DEF seqs
<1>4. pumps \in Seq(C)
  <2> HIDE DEF C
  <2> QED
    BY <1>0, <1>3, FlattenRange
<1> HIDE DEF pumps
<1>5. DOMAIN pumps = 1..Len(pumps) /\ Len(pumps) \in Nat /\ \A k \in DOMAIN pumps : pumps[k] \in C
  <2> HIDE DEF C
  <2> QED
    BY <1>4
<1>6. \A k \in DOMAIN pumps : copied_item(k) = item(k)
  <2> TAKE k \in DOMAIN pumps
  <2>1. PICK i \in DOMAIN a.assets : pumps[k] = a.assets[i].code
    BY <1>5 DEF Rows
  <2>2. IsKeyed(a.assets) /\ IsKeyed(b.assets) /\ i \in DOMAIN b.assets /\ SameAsset(a.assets[i], b.assets[i])
    BY DEF IsStored, Alike, Rows
  <2>3. Coded(a.assets, a.assets[i].code) = a.assets[i] /\ Coded(b.assets, b.assets[i].code) = b.assets[i]
    BY <2>2, RowsAreKeyed
  <2> QED
    BY <2>1, <2>2, <2>3 DEF SameAsset
<1>7. ModelsOf(a, s) = [code \in {Items[item(k)].code : k \in DOMAIN pumps} |-> item(Max(carrying(code)))]
  <2>1. ModelsOf(a, s) = ModelsFor(a, pumps)
    BY <1>2 DEF ModelsOf, pumps
  <2> QED
    BY <2>1 DEF ModelsFor
<1>8. ModelsOf(b, t) = [code \in {Items[copied_item(k)].code : k \in DOMAIN pumps} |->
                           copied_item(Max({k \in DOMAIN pumps : Items[copied_item(k)].code = code}))]
  <2>1. ModelsOf(b, t) = ModelsFor(b, pumps)
    BY <1>2 DEF ModelsOf, pumps
  <2> QED
    BY <2>1 DEF ModelsFor
<1> HIDE DEF item, copied_item
<1>9. {Items[copied_item(k)].code : k \in DOMAIN pumps} = {Items[item(k)].code : k \in DOMAIN pumps}
  BY <1>6
<1>10. \A code : {k \in DOMAIN pumps : Items[copied_item(k)].code = code} = carrying(code)
  BY <1>6
<1>11. ASSUME NEW code \in {Items[item(k)].code : k \in DOMAIN pumps} PROVE Max(carrying(code)) \in DOMAIN pumps
  <2>1. carrying(code) # {} /\ carrying(code) \subseteq DOMAIN pumps /\ carrying(code) \subseteq Int
    BY <1>5
  <2>2. IsFiniteSet(carrying(code))
    <3>1. IsFiniteSet(DOMAIN pumps)
      <4>1. IsFiniteSet(1..Len(pumps))
        BY <1>5, FS_Interval
      <4> QED
        BY <1>5, <4>1
    <3> HIDE DEF carrying
    <3> QED
      BY <2>1, <3>1, FS_Subset
  <2> HIDE DEF carrying
  <2> QED
    BY <2>1, <2>2, MaxOf
<1> HIDE DEF carrying
<1> QED
  BY <1>6, <1>7, <1>8, <1>9, <1>10, <1>11

\* The sections of the copy are those of the network, or both are refused.
LEMMA SectionsAlike ==
    ASSUME NEW a, NEW b, NEW f, NEW g, IsStored(a), Alike(a, b, f, g)
    PROVE  SectionsOf(b) = SectionsOf(a)
<1>1. Rows(a, b, f, g)
  BY AlikeRows
<1>2. NetworkErrors(b) = NetworkErrors(a) /\ (Compilable(b) <=> Compilable(a))
  BY <1>1, ErrorsAlike, CompilableAlike
<1>3. ASSUME NetworkErrors(a) = {} PROVE SectionsOn(b) = SectionsOn(a)
  <2> DEFINE s == AlongLine(a, {"station"})
             t == AlongLine(b, {"station"})
             p == AlongLine(a, {"injection", "offtake"})
             q == AlongLine(b, {"injection", "offtake"})
  <2>1. SegmentsOf(b) = SegmentsOf(a) /\ ProfileOf(b) = ProfileOf(a) /\ LengthOf(b) = LengthOf(a) /\ b.fluid = a.fluid
    BY <1>1, SegmentsAlike DEF Alike
  <2>2. /\ Len(s) \in Nat /\ DOMAIN s = 1..Len(s) /\ DOMAIN t = 1..Len(s)
        /\ \A k \in 1..Len(s) : \E i \in DOMAIN a.nodes : s[k] = a.nodes[i] /\ t[k] = b.nodes[i] /\ a.nodes[i].kind \in {"station"}
    BY <1>1, AlongAlike
  <2>3. /\ Len(p) \in Nat /\ DOMAIN p = 1..Len(p) /\ DOMAIN q = 1..Len(p)
        /\ \A k \in 1..Len(p) : \E i \in DOMAIN a.nodes : p[k] = a.nodes[i] /\ q[k] = b.nodes[i] /\ a.nodes[i].kind \in {"injection", "offtake"}
    BY <1>1, AlongAlike
  <2> HIDE DEF s, t, p, q
  <2>4. ModelsOf(b, t) = ModelsOf(a, s)
    <3>1. \A k \in 1..Len(s) : \E i \in DOMAIN a.nodes : s[k] = a.nodes[i] /\ t[k] = b.nodes[i]
      BY <2>2
    <3>2. Paired(a, b, s, t)
      BY <2>2, <3>1 DEF Paired
    <3> QED
      BY <1>1, <3>2, ModelsAlike
  <2>5. ASSUME NEW i \in DOMAIN a.nodes
        PROVE  StationRow(b, b.nodes[i]) = StationRow(a, a.nodes[i]) /\ InjectionRow(b, b.nodes[i]) = InjectionRow(a, a.nodes[i])
    <3>1. SameNode(a.nodes[i], b.nodes[i]) /\ ChainageOf(b, b.nodes[i].id) = ChainageOf(a, a.nodes[i].id)
      BY SMTT(30), <1>1, ChainagesAlike DEF Rows
    <3>2. PumpRows(b, b.nodes[i]) = PumpRows(a, a.nodes[i])
      BY <1>1, PumpRowsAlike
    <3> QED
      BY <3>1, <3>2 DEF StationRow, InjectionRow, GroupsFor, SameNode
  <2>6. [k \in DOMAIN t |-> StationRow(b, t[k])] = [k \in DOMAIN s |-> StationRow(a, s[k])]
    <3>1. \A k \in 1..Len(s) : StationRow(b, t[k]) = StationRow(a, s[k])
      BY <2>2, <2>5
    <3> QED
      BY <2>2, <3>1
  <2>7. [k \in DOMAIN q |-> InjectionRow(b, q[k])] = [k \in DOMAIN p |-> InjectionRow(a, p[k])]
    <3>1. \A k \in 1..Len(p) : InjectionRow(b, q[k]) = InjectionRow(a, p[k])
      BY <2>3, <2>5
    <3> QED
      BY <2>3, <3>1
  <2>8. /\ BoundaryTank(b, Head(b.edges).from) = BoundaryTank(a, Head(a.edges).from)
        /\ BoundaryTank(b, Last(b.edges).to) = BoundaryTank(a, Last(a.edges).to)
    <3>1. a.edges # <<>>
      <4>1. TrueOf(GraphProblems(a)) = {}
        BY <1>3 DEF NetworkErrors
      <4>2. "EDGE_COUNT" \in DOMAIN GraphProblems(a) /\ GraphProblems(a)["EDGE_COUNT"] = (a.edges = <<>>)
        BY DEF GraphProblems
      <4> QED
        BY <4>1, <4>2 DEF TrueOf
    <3> QED
      BY <1>1, <3>1, ChainAlike, CompilableAlike
  <2>9. SectionsOn(a) = SectionsAlong(a, s, p) /\ SectionsOn(b) = SectionsAlong(b, t, q)
    BY DEF SectionsOn, s, t, p, q
  <2> QED
    BY <2>1, <2>4, <2>6, <2>7, <2>8, <2>9 DEF SectionsAlong
<1> QED
  BY <1>2, <1>3 DEF SectionsOf

\* What has been computed was computed of the rows as they are.
NetworksFollow ==
    /\ site # None => site \in Networks
    /\ report # None => site # None
    /\ sections # None => report # None /\ sections = SectionsOf(site)
    /\ copy # None => sections # None /\ copy = Imported(Exported(site), site.fluid)
    /\ copied # None => copy \notin {None, Refused} /\ copied = SectionsOf(copy)
    /\ journey # None => /\ sections # None
                         /\ \E ctx \in Contexts(site) : journey = [ctx |-> ctx, payload |-> JourneyOf(site, sections, ctx)]

\* Nothing has been computed at first.
LEMMA NetworksStart == NetworkInit => NetworksFollow
BY DEF NetworkInit, NetworksFollow

\* No step changes the rows of a version that was read.
LEMMA NetworksStep == NetworksFollow /\ [NetworkNext]_networkVars => NetworksFollow'
<1> SUFFICES ASSUME NetworksFollow, [NetworkNext]_networkVars PROVE NetworksFollow'
  OBVIOUS
<1> USE DEF NetworksFollow
<1>1. CASE DrawNetwork
  BY <1>1 DEF DrawNetwork
<1>2. CASE ValidateNetwork
  BY <1>2 DEF ValidateNetwork
<1>3. CASE AssembleSections
  BY <1>3 DEF AssembleSections
<1>4. CASE ExchangeTopology
  BY <1>4 DEF ExchangeTopology
<1>5. CASE AssembleCopy
  BY <1>5 DEF AssembleCopy
<1>6. CASE PlanJourney
  BY <1>6 DEF PlanJourney
<1>7. CASE UNCHANGED networkVars
  BY <1>7 DEF networkVars
<1> QED
  BY <1>1, <1>2, <1>3, <1>4, <1>5, <1>6, <1>7 DEF NetworkNext

\* The sections of a copy are those of the network when its items are the last of their codes.
LEMMA ImportIsFaithful == NetworksFollow => TopologyComesBack
<1> SUFFICES ASSUME NetworksFollow, copied # None, ~NewerExists(site) PROVE copied = sections
  BY DEF TopologyComesBack
<1>1. /\ site \in Networks /\ sections = SectionsOf(site) /\ copy # Refused
      /\ copy = Imported(Exported(site), site.fluid) /\ copied = SectionsOf(copy)
  BY DEF NetworksFollow
<1>2. IsStored(site)
  BY <1>1, NetworkAssumption
<1>3. Alike(site, copy, NewNames(site.nodes), NewNames(site.edges))
  BY <1>1, <1>2, CopyIsAlike
<1> QED
  BY <1>1, <1>2, <1>3, SectionsAlike

\* A network that is exported and imported into an empty version gives the same sections, when
\* each of its items is the last version that carries its code.
THEOREM TopologySurvivesExport == NetworkSpec => []TopologyComesBack
<1>1. NetworkInit => NetworksFollow
  BY NetworksStart
<1>2. NetworksFollow /\ [NetworkNext]_networkVars => NetworksFollow'
  BY NetworksStep
<1>3. NetworksFollow => TopologyComesBack
  BY ImportIsFaithful
<1> QED
  BY <1>1, <1>2, <1>3, PTL DEF NetworkSpec

(***************************************************************************)
(* The line of a network that is accepted: its chainages and its profile.  *)
(***************************************************************************)

\* Points in the order of their abscissas.
Climbs(s) == \A k \in 2..Len(s) : s[k - 1][1] < s[k][1]

\* Two profiles that climb, one before the other, are one that climbs.
LEMMA JoinClimbs ==
    ASSUME NEW P, NEW u \in Seq(P), NEW v \in Seq(P), u # <<>>, v # <<>>, Climbs(u), Climbs(v), Last(u)[1] < Head(v)[1]
    PROVE  /\ u \o v \in Seq(P) /\ u \o v # <<>> /\ Climbs(u \o v)
           /\ Head(u \o v) = Head(u) /\ Last(u \o v) = Last(v)
<1>1. /\ Len(u) \in Nat \ {0} /\ Len(v) \in Nat \ {0} /\ u \o v \in Seq(P) /\ Len(u \o v) = Len(u) + Len(v)
      /\ Head(u) = u[1] /\ Head(v) = v[1]
  OBVIOUS
<1>2. /\ \A i \in 1..Len(u) : (u \o v)[i] = u[i]
      /\ \A i \in (Len(u) + 1)..(Len(u) + Len(v)) : (u \o v)[i] = v[i - Len(u)]
  OBVIOUS
<1>3. u \o v # <<>> /\ Head(u \o v) = u[1] /\ Last(u \o v) = v[Len(v)] /\ Last(u) = u[Len(u)] /\ Last(v) = v[Len(v)]
  <2>1. u \o v # <<>> /\ Head(u \o v) = (u \o v)[1]
    BY <1>1
  <2>2. (u \o v)[1] = u[1] /\ (u \o v)[Len(u) + Len(v)] = v[Len(v)]
    BY <1>1, <1>2
  <2> QED
    BY <1>1, <2>1, <2>2 DEF Last
<1>4. ASSUME NEW k \in 2..(Len(u) + Len(v)) PROVE (u \o v)[k - 1][1] < (u \o v)[k][1]
  <2>1. CASE k <= Len(u)
    <3>1. (u \o v)[k - 1] = u[k - 1] /\ (u \o v)[k] = u[k] /\ k \in 2..Len(u)
      BY <1>1, <1>2, <2>1
    <3> QED
      BY <3>1 DEF Climbs
  <2>2. CASE k = Len(u) + 1
    <3>1. (u \o v)[k - 1] = Last(u) /\ (u \o v)[k] = Head(v)
      BY <1>1, <1>2, <1>3, <2>2
    <3> QED
      BY <3>1
  <2>3. CASE k > Len(u) + 1
    <3>1. k - Len(u) \in 2..Len(v) /\ (k - 1) - Len(u) = (k - Len(u)) - 1
      BY <1>1, <2>3
    <3>2. (u \o v)[k - 1] = v[(k - Len(u)) - 1] /\ (u \o v)[k] = v[k - Len(u)]
      BY <1>1, <1>2, <2>3
    <3> QED
      BY <3>1, <3>2 DEF Climbs
  <2> QED
    BY <1>1, <2>1, <2>2, <2>3
<1> QED
  BY <1>1, <1>3, <1>4 DEF Climbs

\* So are many.
LEMMA FlattenClimbs ==
    ASSUME NEW P, NEW seqs \in Seq(Seq(P)), seqs # <<>>,
           \A i \in 1..Len(seqs) : seqs[i] # <<>> /\ Climbs(seqs[i]),
           \A i \in 2..Len(seqs) : Last(seqs[i - 1])[1] < Head(seqs[i])[1]
    PROVE  /\ FlattenSeq(seqs) \in Seq(P) /\ FlattenSeq(seqs) # <<>> /\ Climbs(FlattenSeq(seqs))
           /\ Head(FlattenSeq(seqs)) = Head(seqs[1]) /\ Last(FlattenSeq(seqs)) = Last(seqs[Len(seqs)])
<1> DEFINE n == Len(seqs)
<1>1. PICK f : FlattenSeq(seqs) = f[n] /\ Joins(f, seqs)
  BY FlattenUnfolds
<1>2. n \in Nat \ {0} /\ \A i \in 1..n : seqs[i] \in Seq(P)
  OBVIOUS
<1> DEFINE Fine(k) == /\ f[k] \in Seq(P) /\ f[k] # <<>> /\ Climbs(f[k])
                      /\ Head(f[k]) = Head(seqs[1]) /\ Last(f[k]) = Last(seqs[k])
           Good == {k \in Nat : k = 0 \/ Fine(k)}
<1>3. ASSUME NEW k \in 0..(n - 1), k \in Good PROVE k + 1 \in Good
  <2>1. CASE k = 0
    <3>1. f[1] = seqs[1] /\ 1 \in 1..n
      BY <1>1, <1>2 DEF Joins
    <3>2. Fine(1)
      BY <1>2, <3>1
    <3> HIDE DEF Fine
    <3> QED
      BY <2>1, <3>2
  <2>2. CASE k # 0
    <3>1. f[k + 1] = f[k] \o seqs[k + 1] /\ k \in 1..n /\ k + 1 \in 1..n /\ Last(seqs[k])[1] < Head(seqs[k + 1])[1]
      <4>1. k + 1 \in 2..n /\ (k + 1) - 1 = k
        BY <1>2, <2>2
      <4>2. f[k + 1] = f[(k + 1) - 1] \o seqs[k + 1]
        BY <1>1, <4>1 DEF Joins
      <4>3. Last(seqs[(k + 1) - 1])[1] < Head(seqs[k + 1])[1]
        BY <4>1
      <4>4. k \in 1..n /\ k + 1 \in 1..n
        BY <1>2, <2>2
      <4> QED
        BY <4>1, <4>2, <4>3, <4>4
    <3>2. Fine(k)
      BY <1>3, <2>2
    <3>3. /\ f[k] \in Seq(P) /\ seqs[k + 1] \in Seq(P) /\ f[k] # <<>> /\ seqs[k + 1] # <<>> /\ Climbs(f[k])
          /\ Climbs(seqs[k + 1]) /\ Last(f[k])[1] < Head(seqs[k + 1])[1] /\ Head(f[k]) = Head(seqs[1])
      BY <1>2, <3>1, <3>2
    <3>4. /\ f[k] \o seqs[k + 1] \in Seq(P) /\ f[k] \o seqs[k + 1] # <<>> /\ Climbs(f[k] \o seqs[k + 1])
          /\ Head(f[k] \o seqs[k + 1]) = Head(f[k]) /\ Last(f[k] \o seqs[k + 1]) = Last(seqs[k + 1])
      BY <3>3, JoinClimbs
    <3>5. Fine(k + 1)
      BY <3>1, <3>3, <3>4
    <3> HIDE DEF Fine
    <3> QED
      BY <3>5
  <2> QED
    BY <2>1, <2>2
<1>4. n \in Good
  <2>1. 0 \in Good
    OBVIOUS
  <2> HIDE DEF Good, n
  <2> QED
    BY <1>2, <1>3, <2>1, UpTo
<1>5. Fine(n)
  BY <1>2, <1>4
<1> QED
  BY <1>1, <1>5

\* What validate_network asks of the rows it accepts.
LEMMA AcceptedRows ==
    ASSUME NEW net, IsStored(net), NetworkErrors(net) = {}
    PROVE  /\ net.edges # <<>> /\ Len(net.edges) \in Nat \ {0} /\ DOMAIN net.edges = 1..Len(net.edges)
           /\ Head(net.edges) = net.edges[1] /\ Last(net.edges) = net.edges[Len(net.edges)]
           /\ \A i \in 2..Len(net.edges) : net.edges[i - 1].to = net.edges[i].from
           /\ Ids(net.nodes) \subseteq UNION Linked(net)
           /\ \A n \in Range(net.nodes) : n.kind = "station" => PumpsAt(net, n) # {}
           /\ \A n \in Range(net.nodes) : n.kind = "tank" => n.id \in Ends(net)
<1>1. TrueOf(GraphProblems(net)) = {} /\ TrueOf(ChainProblems(net)) = {} /\ TrueOf(EquipmentProblems(net)) = {}
  BY DEF NetworkErrors
<1>2. net.edges # <<>>
  <2>1. "EDGE_COUNT" \in DOMAIN GraphProblems(net) /\ GraphProblems(net)["EDGE_COUNT"] = (net.edges = <<>>)
    BY DEF GraphProblems
  <2> QED
    BY <1>1, <2>1 DEF TrueOf
<1>3. Ids(net.nodes) \subseteq UNION Linked(net)
  <2>1. "NODE_ISOLATED" \in DOMAIN GraphProblems(net) /\ GraphProblems(net)["NODE_ISOLATED"] = ~ Ids(net.nodes) \subseteq UNION Linked(net)
    BY DEF GraphProblems
  <2> QED
    BY <1>1, <2>1 DEF TrueOf
<1>4. \A i \in 2..Len(net.edges) : net.edges[i - 1].to = net.edges[i].from
  <2>1. /\ "EDGE_CHAIN" \in DOMAIN ChainProblems(net)
        /\ ChainProblems(net)["EDGE_CHAIN"] = \E i \in 2..Len(net.edges) : net.edges[i - 1].to # net.edges[i].from
    BY DEF ChainProblems
  <2> QED
    BY <1>1, <2>1 DEF TrueOf
<1>5. \A n \in Range(net.nodes) : n.kind = "station" => PumpsAt(net, n) # {}
  <2>1. /\ "STATION_EMPTY" \in DOMAIN EquipmentProblems(net)
        /\ EquipmentProblems(net)["STATION_EMPTY"] = \E n \in Range(net.nodes) : n.kind = "station" /\ PumpsAt(net, n) = {}
    BY DEF EquipmentProblems
  <2> QED
    BY <1>1, <2>1 DEF TrueOf
<1>6. \A n \in Range(net.nodes) : n.kind = "tank" => n.id \in Ends(net)
  <2>1. /\ "NODE_UNSUPPORTED" \in DOMAIN EquipmentProblems(net)
        /\ EquipmentProblems(net)["NODE_UNSUPPORTED"] = \E n \in Range(net.nodes) : n.kind = "tank" /\ n.id \notin Ends(net)
    BY DEF EquipmentProblems
  <2> QED
    BY <1>1, <2>1 DEF TrueOf
<1>7. net.edges \in Seq(Range(net.edges))
  BY DEF IsStored, IsKeyed
<1> QED
  BY <1>2, <1>3, <1>4, <1>5, <1>6, <1>7 DEF Last

\* The chainage at which an edge starts is where the one before it ends.
LEMMA StartsFollow ==
    ASSUME NEW net, IsStored(net)
    PROVE  /\ StartOf(net, 1) = 0
           /\ \A i \in DOMAIN net.edges : StartOf(net, i + 1) = StartOf(net, i) + net.edges[i].length
           /\ \A i, j \in 1..(Len(net.edges) + 1) : i < j => StartOf(net, i) < StartOf(net, j)
<1> DEFINE n == Len(net.edges)
           Lengths(i) == [j \in 1..(i - 1) |-> net.edges[j].length]
<1>1. n \in Nat /\ DOMAIN net.edges = 1..n /\ \A i \in DOMAIN net.edges : net.edges[i].length \in Nat \ {0}
  BY Chainages
<1>2. \A i : StartOf(net, i) = SumOver(Lengths(i))
  BY DEF StartOf
<1>3. ASSUME NEW i \in 1..(n + 1) PROVE /\ IsFiniteSet(DOMAIN Lengths(i)) /\ DOMAIN Lengths(i) = 1..(i - 1)
                                        /\ \A j \in DOMAIN Lengths(i) : Lengths(i)[j] \in Int
  <2>1. IsFiniteSet(1..(i - 1))
    BY FS_Interval
  <2>2. \A j \in 1..(i - 1) : j \in DOMAIN net.edges
    BY <1>1
  <2> QED
    BY <1>1, <2>1, <2>2
<1>4. StartOf(net, 1) = 0
  <2>1. 1 \in 1..(n + 1) /\ DOMAIN Lengths(1) = {}
    BY <1>1
  <2> HIDE DEF Lengths, n
  <2> QED
    BY <1>2, <1>3, <2>1, SumTerms
<1>5. ASSUME NEW i \in DOMAIN net.edges PROVE StartOf(net, i + 1) = StartOf(net, i) + net.edges[i].length
  <2>1. i + 1 \in 1..(n + 1) /\ i \in 1..(n + 1) /\ i \in 1..((i + 1) - 1)
    BY <1>1
  <2>2. Lengths(i + 1)[i] = net.edges[i].length
    BY <2>1
  <2>3. Rest(Lengths(i + 1), i) = Lengths(i)
    <3>1. (1..((i + 1) - 1)) \ {i} = 1..(i - 1)
      BY <2>1
    <3>2. \A j \in 1..(i - 1) : j \in 1..((i + 1) - 1)
      BY <2>1
    <3> QED
      BY <3>1, <3>2 DEF Rest
  <2> DEFINE f == Lengths(i + 1)
  <2>4. IsFiniteSet(DOMAIN f) /\ i \in DOMAIN f /\ \A j \in DOMAIN f : f[j] \in Int
    <3> HIDE DEF Lengths, n
    <3> QED
      BY <1>3, <2>1
  <2>5. SumOver(f) = f[i] + SumOver(Rest(f, i))
    <3> HIDE DEF f
    <3> QED
      BY <2>4, SumTerms
  <2>6. StartOf(net, i + 1) = net.edges[i].length + StartOf(net, i)
    <3> HIDE DEF Lengths
    <3> QED
      BY <1>2, <2>2, <2>3, <2>5
  <2>7. StartOf(net, i) \in Nat /\ net.edges[i].length \in Nat
    BY <1>1, <2>1, Chainages
  <2> QED
    BY <2>6, <2>7
<1>6. \A i, j \in 1..(n + 1) : i < j => StartOf(net, i) < StartOf(net, j)
  <2> DEFINE f == [i \in 1..(n + 1) |-> StartOf(net, i)]
  <2>1. \A i \in 1..(n + 1) : f[i] \in Int
    BY Chainages
  <2>2. \A i \in 2..(n + 1) : f[i - 1] < f[i]
    <3> TAKE i \in 2..(n + 1)
    <3>1. i - 1 \in DOMAIN net.edges /\ (i - 1) + 1 = i /\ i - 1 \in 1..(n + 1) /\ i \in 1..(n + 1)
      BY <1>1
    <3>2. StartOf(net, i) = StartOf(net, i - 1) + net.edges[i - 1].length
      BY <1>5, <3>1
    <3>3. StartOf(net, i - 1) \in Nat /\ net.edges[i - 1].length \in Nat \ {0} /\ StartOf(net, i) \in Nat
      BY <1>1, <3>1, Chainages
    <3>4. f[i - 1] = StartOf(net, i - 1) /\ f[i] = StartOf(net, i)
      BY <3>1
    <3> HIDE DEF f
    <3> QED
      BY <3>2, <3>3, <3>4
  <2>3. \A i, j \in 1..(n + 1) : i < j => f[i] < f[j]
    <3>1. n + 1 \in Nat
      BY <1>1
    <3> HIDE DEF f, n
    <3> QED
      BY <2>1, <2>2, <3>1, IncreasingByOne
  <2> QED
    BY <2>3
<1> QED
  BY <1>4, <1>5, <1>6

\* Every chainage is on the line.
LEMMA ChainagesOnLine ==
    ASSUME NEW net, IsStored(net), NEW id
    PROVE  0 <= ChainageOf(net, id) /\ ChainageOf(net, id) <= LengthOf(net) /\ LengthOf(net) \in Nat
<1> DEFINE n == Len(net.edges)
<1>1. n \in Nat /\ DOMAIN net.edges = 1..n /\ IsFiniteSet(DOMAIN net.edges)
  BY Chainages
<1>2. LengthOf(net) = StartOf(net, n + 1) /\ n + 1 \in 1..(n + 1)
  BY <1>1 DEF LengthOf
<1>3. \A i \in 1..(n + 1) : StartOf(net, i) <= LengthOf(net) /\ StartOf(net, i) \in Nat
  <2> TAKE i \in 1..(n + 1)
  <2>1. i = n + 1 \/ i < n + 1
    BY <1>1
  <2>2. StartOf(net, i) \in Nat /\ StartOf(net, n + 1) \in Nat
    BY <1>2, Chainages
  <2> QED
    BY <1>2, <2>1, <2>2, StartsFollow
<1> DEFINE leaving == {i \in DOMAIN net.edges : net.edges[i].from = id}
           reaching == {i \in DOMAIN net.edges : net.edges[i].to = id}
<1>4. ChainageOf(net, id) = IF reaching # {} THEN StartOf(net, Max(reaching) + 1)
                            ELSE IF leaving # {} THEN StartOf(net, Min(leaving)) ELSE 0
  BY DEF ChainageOf
<1>5. leaving \subseteq DOMAIN net.edges /\ reaching \subseteq DOMAIN net.edges
  OBVIOUS
<1> HIDE DEF leaving, reaching
<1>6. IsFiniteSet(leaving) /\ IsFiniteSet(reaching) /\ leaving \subseteq Int /\ reaching \subseteq Int
  BY <1>1, <1>5, FS_Subset
<1>7. reaching # {} => Max(reaching) \in 1..n
  BY <1>1, <1>5, <1>6, MaxOf
<1>8. leaving # {} => Min(leaving) \in 1..n
  BY <1>1, <1>5, <1>6, MinOf
<1>9. \A i \in 1..n : i \in 1..(n + 1) /\ i + 1 \in 1..(n + 1)
  BY <1>1
<1>10. LengthOf(net) \in Nat
  BY <1>2, <1>3
<1> QED
  BY <1>3, <1>4, <1>7, <1>8, <1>9, <1>10

\* An abscissa and an elevation, which may be unknown.
ProfilePoints == Int \X (Int \cup {None})

\* The points an edge adds to the profile start after its first one and end where it ends.
LEMMA PointsOfEdge ==
    ASSUME NEW e, CoversEdge(e), NEW at \in Nat, NEW start \in Nat, NEW s, s = PointsAlong(e, at, start)
    PROVE  /\ s \in Seq(ProfilePoints) /\ s # <<>> /\ Climbs(s) /\ Last(s)[1] = start + e.length
           /\ at = 1 => Head(s)[1] = start
           /\ at # 1 => start < Head(s)[1]
<1> DEFINE P == ProfilePoints
           p == e.profile
           kept == IF at = 1 THEN p ELSE Tail(p)
           n == Len(kept)
<1>1. /\ p \in Seq(P) /\ Len(p) \in Nat /\ Len(p) >= 2 /\ e.length \in Nat /\ p[1][1] = 0 /\ p[Len(p)][1] = e.length
      /\ \A i \in 2..Len(p) : p[i - 1][1] < p[i][1]
      /\ \A i \in 1..Len(p) : p[i] \in P
  BY DEF CoversEdge, Last, ProfilePoints
<1> HIDE DEF p
<1>2. /\ kept \in Seq(P) /\ n \in Nat \ {0} /\ DOMAIN kept = 1..n
      /\ \A i \in 1..n : kept[i] = IF at = 1 THEN p[i] ELSE p[i + 1]
      /\ n = IF at = 1 THEN Len(p) ELSE Len(p) - 1
  <2>1. CASE at = 1
    BY <1>1, <2>1
  <2>2. CASE at # 1
    BY <1>1, <2>2
  <2> QED
    BY <2>1, <2>2
<1>3. s = [i \in 1..n |-> <<start + kept[i][1], kept[i][2]>>]
  BY <1>2 DEF PointsAlong, p
<1> HIDE DEF kept, n, P
<1>4. \A i \in 1..n : kept[i] \in P
  BY <1>2
<1>5. s \in [1..n -> P]
  BY <1>3, <1>4 DEF P, ProfilePoints
<1>6. s \in Seq(P) /\ Len(s) = n
  BY <1>2, <1>5, FunctionIsSequence
<1>7. s # <<>> /\ Head(s) = s[1] /\ Last(s) = s[n]
  <2>1. s # <<>>
    BY <1>2, <1>6
  <2>2. Head(s) = s[1]
    BY <1>6, <2>1
  <2> QED
    BY <1>6, <2>1, <2>2 DEF Last
<1>8. \A i \in 1..n : s[i][1] = start + kept[i][1] /\ kept[i][1] \in Int
  <2>1. \A i \in 1..n : kept[i][1] \in Int
    BY <1>4 DEF P, ProfilePoints
  <2>2. \A i \in 1..n : s[i][1] = start + kept[i][1]
    BY <1>3
  <2> QED
    BY <2>1, <2>2
<1>9. ASSUME NEW k \in 2..n PROVE s[k - 1][1] < s[k][1]
  <2>1. k - 1 \in 1..n /\ k \in 1..n
    BY <1>2
  <2>2. kept[k - 1][1] < kept[k][1]
    <3>1. CASE at = 1
      BY <1>1, <1>2, <2>1, <3>1
    <3>2. CASE at # 1
      <4>1. k + 1 \in 2..Len(p) /\ (k + 1) - 1 = k /\ (k - 1) + 1 = k
        BY <1>1, <1>2, <3>2
      <4>2. p[k][1] < p[k + 1][1]
        BY <1>1, <4>1
      <4> QED
        BY <1>2, <2>1, <3>2, <4>1, <4>2
    <3> QED
      BY <3>1, <3>2
  <2> QED
    BY <1>8, <2>1, <2>2
<1>10. Last(s)[1] = start + e.length
  <2>1. n \in 1..n /\ kept[n] = p[Len(p)]
    BY <1>1, <1>2
  <2> QED
    BY <1>1, <1>7, <1>8, <2>1
<1>11. at = 1 => Head(s)[1] = start
  <2> SUFFICES ASSUME at = 1 PROVE Head(s)[1] = start
    OBVIOUS
  <2>1. 1 \in 1..n /\ kept[1] = p[1]
    BY <1>1, <1>2
  <2>2. s[1][1] = start + 0 /\ start + 0 = start
    BY <1>1, <1>8, <2>1
  <2> QED
    BY <1>7, <2>2
<1>12. at # 1 => start < Head(s)[1]
  <2>1. 1 \in 1..n /\ (at # 1 => kept[1] = p[2])
    BY <1>1, <1>2
  <2>2. 0 < p[2][1]
    <3>1. 2 \in 2..Len(p) /\ 2 - 1 = 1
      BY <1>1
    <3> QED
      BY <1>1, <3>1
  <2> QED
    BY <1>7, <1>8, <2>1, <2>2
<1>13. Climbs(s)
  BY <1>6, <1>9 DEF Climbs
<1> QED
  BY <1>6, <1>7, <1>10, <1>11, <1>12, <1>13 DEF P

\* The profile climbs from 0 to the length of the line.
LEMMA ProfileIsDrawn ==
    ASSUME NEW net, IsStored(net), NetworkErrors(net) = {}
    PROVE  /\ Climbs(ProfileOf(net)) /\ ProfileOf(net) # <<>>
           /\ Head(ProfileOf(net))[1] = 0 /\ Last(ProfileOf(net))[1] = LengthOf(net)
<1> DEFINE n == Len(net.edges)
           P == ProfilePoints
           points(i) == PointsAlong(net.edges[i], i, StartOf(net, i))
           seqs == [i \in DOMAIN net.edges |-> points(i)]
<1>1. n \in Nat \ {0} /\ DOMAIN net.edges = 1..n
  BY AcceptedRows
<1>2. ASSUME NEW i \in 1..n
      PROVE  /\ points(i) \in Seq(P) /\ points(i) # <<>> /\ Climbs(points(i)) /\ Last(points(i))[1] = StartOf(net, i + 1)
             /\ i = 1 => Head(points(i))[1] = StartOf(net, i)
             /\ i # 1 => StartOf(net, i) < Head(points(i))[1]
  <2>1. CoversEdge(net.edges[i]) /\ i \in 1..(n + 1)
    BY <1>1, Chainages
  <2>2. StartOf(net, i) \in Nat /\ i \in Nat
    BY <2>1, Chainages
  <2>3. StartOf(net, i + 1) = StartOf(net, i) + net.edges[i].length
    BY <1>1, StartsFollow
  <2> HIDE DEF points
  <2>4. points(i) = PointsAlong(net.edges[i], i, StartOf(net, i))
    BY DEF points
  <2>5. /\ points(i) \in Seq(P) /\ points(i) # <<>> /\ Climbs(points(i))
        /\ Last(points(i))[1] = StartOf(net, i) + net.edges[i].length
        /\ i = 1 => Head(points(i))[1] = StartOf(net, i)
        /\ i # 1 => StartOf(net, i) < Head(points(i))[1]
    <3> DEFINE e == net.edges[i]
               start == StartOf(net, i)
    <3>1. CoversEdge(e) /\ i \in Nat /\ start \in Nat /\ points(i) = PointsAlong(e, i, start)
      BY <2>1, <2>2, <2>4
    <3> HIDE DEF e, start
    <3>2. /\ points(i) \in Seq(ProfilePoints) /\ points(i) # <<>> /\ Climbs(points(i))
          /\ Last(points(i))[1] = start + e.length
          /\ i = 1 => Head(points(i))[1] = start
          /\ i # 1 => start < Head(points(i))[1]
      BY <3>1, PointsOfEdge
    <3> QED
      BY <3>2 DEF e, start
  <2> QED
    BY <2>3, <2>5
<1> HIDE DEF points
<1>3. seqs \in [1..n -> Seq(P)] /\ \A i \in 1..n : seqs[i] = points(i)
  BY <1>1, <1>2
<1> HIDE DEF seqs, P, n
<1>4. seqs \in Seq(Seq(P)) /\ Len(seqs) = n /\ seqs # <<>>
  BY <1>1, <1>3
<1>5. ASSUME NEW i \in 2..n PROVE Last(seqs[i - 1])[1] < Head(seqs[i])[1]
  <2>1. i - 1 \in 1..n /\ i \in 1..n /\ (i - 1) + 1 = i /\ i # 1
    BY <1>1
  <2>2. seqs[i - 1] = points(i - 1) /\ seqs[i] = points(i)
    BY <1>3, <2>1
  <2>3. Last(points(i - 1))[1] = StartOf(net, i)
    BY <1>2, <2>1
  <2> QED
    BY <1>2, <2>1, <2>2, <2>3
<1>6. \A i \in 1..n : seqs[i] # <<>> /\ Climbs(seqs[i])
  BY <1>2, <1>3
<1>7. /\ FlattenSeq(seqs) # <<>> /\ Climbs(FlattenSeq(seqs))
      /\ Head(FlattenSeq(seqs)) = Head(seqs[1]) /\ Last(FlattenSeq(seqs)) = Last(seqs[n])
  BY <1>4, <1>5, <1>6, FlattenClimbs
<1>8. ProfileOf(net) = FlattenSeq(seqs)
  BY DEF ProfileOf, seqs, points
<1>9. 1 \in 1..n /\ n \in 1..n
  BY <1>1
<1>10. Head(seqs[1])[1] = 0 /\ Last(seqs[n])[1] = LengthOf(net)
  <2>1. seqs[1] = points(1) /\ seqs[n] = points(n)
    BY <1>3, <1>9
  <2>2. Head(points(1))[1] = StartOf(net, 1) /\ Last(points(n))[1] = StartOf(net, n + 1)
    BY <1>2, <1>9
  <2> QED
    BY <2>1, <2>2, StartsFollow DEF LengthOf, n
<1> QED
  BY <1>7, <1>8, <1>10

(***************************************************************************)
(* Its stations, and their pumps.                                          *)
(***************************************************************************)

\* Each node of some kinds is once in the list of their places.
LEMMA NodesListed ==
    ASSUME NEW net, IsStored(net), NEW kinds, NEW s, s = AlongLine(net, kinds)
    PROVE  /\ DOMAIN s = 1..Len(s) /\ Len(s) \in Nat
           /\ \A k \in DOMAIN s : \E i \in DOMAIN net.nodes : s[k] = net.nodes[i] /\ net.nodes[i].kind \in kinds
           /\ \A i \in DOMAIN net.nodes : net.nodes[i].kind \in kinds => \E k \in DOMAIN s : s[k] = net.nodes[i]
           /\ \A j, k \in DOMAIN s : s[j] = s[k] => j = k
<1> DEFINE Place(n) == <<ChainageOf(net, n.id), n.code>>
           places == Sorted(PlacesOf(net, kinds), PlacedBefore)
<1>1. s = [k \in DOMAIN places |-> Coded(net.nodes, places[k][2])]
  BY DEF AlongLine
<1>2. /\ Range(places) = PlacesOf(net, kinds) /\ DOMAIN places = 1..Len(places) /\ Len(places) \in Nat
      /\ \A j, k \in DOMAIN places : j < k => PlacedBefore(places[j], places[k])
      /\ \A p \in PlacesOf(net, kinds) : \E i \in DOMAIN net.nodes :
            /\ p = <<ChainageOf(net, net.nodes[i].id), net.nodes[i].code>> /\ net.nodes[i].kind \in kinds
            /\ Coded(net.nodes, p[2]) = net.nodes[i]
      /\ \A i \in DOMAIN net.nodes : net.nodes[i].kind \in kinds =>
            <<ChainageOf(net, net.nodes[i].id), net.nodes[i].code>> \in PlacesOf(net, kinds)
  BY PlacesListed
<1> HIDE DEF places
<1>3. DOMAIN s = 1..Len(s) /\ Len(s) \in Nat /\ DOMAIN s = DOMAIN places
  <2>1. s \in [1..Len(places) -> Range(s)] /\ DOMAIN s = 1..Len(places)
    BY <1>1, <1>2 DEF Range
  <2> QED
    BY <1>2, <2>1, FunctionIsSequence
<1>4. ASSUME NEW k \in DOMAIN s
      PROVE  \E i \in DOMAIN net.nodes : s[k] = net.nodes[i] /\ net.nodes[i].kind \in kinds /\ places[k] = Place(net.nodes[i])
  <2>1. places[k] \in PlacesOf(net, kinds)
    BY <1>2, <1>3 DEF Range
  <2>2. PICK i \in DOMAIN net.nodes : /\ places[k] = Place(net.nodes[i]) /\ net.nodes[i].kind \in kinds
                                      /\ Coded(net.nodes, places[k][2]) = net.nodes[i]
    BY <1>2, <2>1
  <2> QED
    BY <1>1, <1>3, <2>2
<1>5. ASSUME NEW i \in DOMAIN net.nodes, net.nodes[i].kind \in kinds PROVE \E k \in DOMAIN s : s[k] = net.nodes[i]
  <2>1. Place(net.nodes[i]) \in Range(places)
    BY <1>2, <1>5
  <2>2. PICK k \in DOMAIN places : places[k] = Place(net.nodes[i])
    BY <2>1 DEF Range
  <2>3. IsKeyed(net.nodes) /\ places[k][2] = net.nodes[i].code
    BY <2>2 DEF IsStored
  <2>4. Coded(net.nodes, net.nodes[i].code) = net.nodes[i]
    BY <2>3, RowsAreKeyed
  <2> QED
    BY <1>1, <1>3, <2>3, <2>4
<1>6. ASSUME NEW j \in DOMAIN s, NEW k \in DOMAIN s, s[j] = s[k], j < k PROVE FALSE
  <2>1. places[j] = places[k]
    BY <1>4, <1>6
  <2>2. PlacedBefore(places[j], places[k])
    BY <1>2, <1>3, <1>6
  <2>3. places[j][1] \in Int /\ places[j][2] \in Int
    <3>1. PICK i \in DOMAIN net.nodes : places[j] = Place(net.nodes[i])
      BY <1>4
    <3>2. IsKeyed(net.nodes)
      BY DEF IsStored
    <3>3. ChainageOf(net, net.nodes[i].id) \in Nat /\ net.nodes[i].code \in Int
      BY <3>2, Chainages, RowsAreKeyed
    <3> QED
      BY <3>1, <3>3
  <2> QED
    BY <2>1, <2>2, <2>3 DEF PlacedBefore
<1> QED
  BY <1>3, <1>4, <1>5, <1>6

\* The codes of the assets.
AssetCodes(net) == {a.code : a \in Range(net.assets)}

\* Each pump of a node is once in the list of their codes.
LEMMA PumpsListed ==
    ASSUME NEW net, IsStored(net), NEW node, NEW codes, codes = PumpCodes(net, node), NEW rows, rows = PumpRows(net, node)
    PROVE  /\ Len(codes) \in Nat /\ DOMAIN codes = 1..Len(codes) /\ DOMAIN rows = DOMAIN codes
           /\ rows = [k \in 1..Len(codes) |-> rows[k]]
           /\ codes \in Seq(AssetCodes(net))
           /\ \A k \in DOMAIN codes : \E a \in PumpsAt(net, node) :
                 codes[k] = a.code /\ Coded(net.assets, codes[k]) = a /\ rows[k].id = a.code
           /\ \A a \in PumpsAt(net, node) : \E k \in DOMAIN codes : codes[k] = a.code
           /\ \A j, k \in DOMAIN codes : codes[j] = codes[k] => j = k
<1> DEFINE C == {a.code : a \in PumpsAt(net, node)}
<1>1. /\ DOMAIN net.assets = 1..Len(net.assets) /\ Len(net.assets) \in Nat
      /\ Range(net.assets) = {net.assets[i] : i \in DOMAIN net.assets}
      /\ \A i \in DOMAIN net.assets : net.assets[i].code \in Int /\ Coded(net.assets, net.assets[i].code) = net.assets[i]
  BY RowsAreKeyed DEF IsStored
<1>2. PumpsAt(net, node) \subseteq Range(net.assets)
  BY DEF PumpsAt
<1>3. C \subseteq Int /\ \A a \in PumpsAt(net, node) : Coded(net.assets, a.code) = a
  BY <1>1, <1>2
<1>4. IsFiniteSet(C)
  <2> DEFINE spots == {i \in DOMAIN net.assets : net.assets[i] \in PumpsAt(net, node)}
             h == [i \in spots |-> net.assets[i].code]
  <2>1. IsFiniteSet(spots)
    <3>1. IsFiniteSet(DOMAIN net.assets)
      BY <1>1, FS_Interval
    <3> QED
      BY <3>1, FS_Subset
  <2>2. C = {h[i] : i \in spots}
    <3>1. \A a \in PumpsAt(net, node) : \E i \in spots : net.assets[i] = a
      BY <1>1, <1>2
    <3>2. \A i \in spots : net.assets[i] \in PumpsAt(net, node) /\ h[i] = net.assets[i].code
      OBVIOUS
    <3> HIDE DEF h, spots
    <3>3. \A c \in C : \E i \in spots : c = h[i]
      BY <3>1, <3>2
    <3>4. \A i \in spots : h[i] \in C
      BY <3>2
    <3> HIDE DEF C
    <3> QED
      BY <3>3, <3>4
  <2>3. IsFiniteSet({h[i] : i \in spots})
    <3> HIDE DEF h, spots
    <3> QED
      BY <2>1, FiniteImage
  <2> HIDE DEF C
  <2> QED
    BY <2>2, <2>3
<1>5. codes = Sorted(C, CodeBefore)
  BY DEF PumpCodes
<1>6. /\ codes \in Seq(C) /\ Len(codes) = Cardinality(C) /\ DOMAIN codes = 1..Cardinality(C) /\ Range(codes) = C
      /\ \A j, k \in DOMAIN codes : j < k => codes[j] < codes[k]
  <2> HIDE DEF C
  <2> QED
    BY <1>3, <1>4, <1>5, CodesAreListed
<1>7. Len(codes) \in Nat /\ DOMAIN codes = 1..Len(codes) /\ \A k \in DOMAIN codes : codes[k] \in C
  <2> HIDE DEF C
  <2> QED
    BY <1>6 DEF Range
<1>8. codes \in Seq(AssetCodes(net))
  <2>1. C \subseteq AssetCodes(net)
    BY <1>2 DEF AssetCodes
  <2> HIDE DEF C
  <2> QED
    BY <1>6, <2>1
<1>9. rows = [k \in DOMAIN codes |-> PumpRow(Coded(net.assets, codes[k]))]
  BY DEF PumpRows
<1>10. \A k \in DOMAIN codes : \E a \in PumpsAt(net, node) :
          codes[k] = a.code /\ Coded(net.assets, codes[k]) = a /\ rows[k].id = a.code
  <2> TAKE k \in DOMAIN codes
  <2>1. PICK a \in PumpsAt(net, node) : codes[k] = a.code
    BY <1>7
  <2>2. rows[k] = PumpRow(a)
    BY <1>3, <1>9, <2>1
  <2> QED
    BY <1>3, <2>1, <2>2 DEF PumpRow
<1>11. \A a \in PumpsAt(net, node) : \E k \in DOMAIN codes : codes[k] = a.code
  BY <1>6 DEF Range
<1>12. \A j, k \in DOMAIN codes : codes[j] = codes[k] => j = k
  <2>1. ASSUME NEW j \in DOMAIN codes, NEW k \in DOMAIN codes, codes[j] = codes[k], j < k PROVE FALSE
    <3>1. codes[j] \in Int /\ codes[j] < codes[k]
      BY <1>3, <1>6, <1>7, <2>1
    <3> QED
      BY <2>1, <3>1
  <2>2. \A j \in DOMAIN codes : j \in Nat
    BY <1>7
  <2>3. \A j, k \in DOMAIN codes : j = k \/ j < k \/ k < j
    BY <2>2
  <2> QED
    BY <2>1, <2>3
<1> QED
  BY <1>7, <1>8, <1>9, <1>10, <1>11, <1>12

\* Where a station keeps each of its pumps.
Spot(node, k) == IF node.arrangement = "series" THEN <<1, k>> ELSE <<k, 1>>

\* GroupsFor puts each pump at its spot and nothing else; a station with a pump has no empty group.
LEMMA GroupsHold ==
    ASSUME NEW node, NEW rows, NEW groups, groups = GroupsFor(node, rows)
    PROVE  /\ \A g \in DOMAIN groups : \A k \in DOMAIN groups[g] : \E j \in DOMAIN rows : <<g, k>> = Spot(node, j) /\ groups[g][k] = rows[j]
           /\ \A j \in DOMAIN rows : \E g \in DOMAIN groups : \E k \in DOMAIN groups[g] : <<g, k>> = Spot(node, j) /\ groups[g][k] = rows[j]
           /\ 1 \in DOMAIN rows => groups # <<>> /\ <<>> \notin Range(groups)
<1>0. \A x : DOMAIN <<x>> = {1} /\ <<x>>[1] = x /\ <<x>> # <<>>
  <2> TAKE x
  <2>1. DOMAIN <<x>> = {1} /\ <<x>>[1] = x
    OBVIOUS
  <2>2. DOMAIN <<>> = {} /\ 1 \in DOMAIN <<x>>
    BY <2>1
  <2>3. <<x>> # <<>>
    BY <2>2
  <2> QED
    BY <2>1, <2>3
<1>1. CASE node.arrangement = "series"
  <2>1. groups = <<rows>>
    BY <1>1 DEF GroupsFor
  <2>2. DOMAIN groups = {1} /\ groups[1] = rows /\ groups # <<>>
    BY <1>0, <2>1
  <2>4. 1 \in DOMAIN rows => rows # <<>>
    <3> SUFFICES ASSUME 1 \in DOMAIN rows PROVE rows # <<>>
      OBVIOUS
    <3>1. DOMAIN <<>> = {}
      OBVIOUS
    <3> QED
      BY <3>1
  <2>5. 1 \in DOMAIN rows => groups # <<>> /\ <<>> \notin Range(groups)
    <3>1. 1 \in DOMAIN rows => \A g \in DOMAIN groups : groups[g] # <<>>
      BY <2>2, <2>4
    <3> QED
      BY <2>2, <3>1 DEF Range
  <2>6. \A j \in DOMAIN rows : Spot(node, j) = <<1, j>>
    BY <1>1 DEF Spot
  <2> HIDE DEF Spot
  <2>7. \A g \in DOMAIN groups : \A k \in DOMAIN groups[g] : \E j \in DOMAIN rows : <<g, k>> = Spot(node, j) /\ groups[g][k] = rows[j]
    BY <2>1, <2>2, <2>6
  <2>8. \A j \in DOMAIN rows : \E g \in DOMAIN groups : \E k \in DOMAIN groups[g] : <<g, k>> = Spot(node, j) /\ groups[g][k] = rows[j]
    BY <2>1, <2>2, <2>6
  <2> QED
    BY <2>5, <2>7, <2>8
<1>2. CASE node.arrangement # "series"
  <2>1. groups = [k \in DOMAIN rows |-> <<rows[k]>>]
    BY <1>2 DEF GroupsFor
  <2>2. DOMAIN groups = DOMAIN rows /\ \A g \in DOMAIN rows : groups[g] = <<rows[g]>>
    BY <2>1
  <2>3. \A g \in DOMAIN groups : DOMAIN groups[g] = {1} /\ groups[g][1] = rows[g] /\ groups[g] # <<>>
    <3> TAKE g \in DOMAIN groups
    <3>1. groups[g] = <<rows[g]>>
      BY <2>2
    <3> DEFINE x == rows[g]
    <3>2. DOMAIN <<x>> = {1} /\ <<x>>[1] = x /\ <<x>> # <<>>
      BY <1>0
    <3> QED
      BY <3>1, <3>2
  <2>4. 1 \in DOMAIN rows => groups # <<>>
    <3> SUFFICES ASSUME 1 \in DOMAIN rows PROVE groups # <<>>
      OBVIOUS
    <3>1. 1 \in DOMAIN groups
      BY <2>2
    <3>2. DOMAIN <<>> = {}
      OBVIOUS
    <3> QED
      BY <3>1, <3>2
  <2>5. <<>> \notin Range(groups)
    BY <2>3 DEF Range
  <2>6. \A j \in DOMAIN rows : Spot(node, j) = <<j, 1>>
    BY <1>2 DEF Spot
  <2>7. ASSUME NEW g \in DOMAIN groups, NEW k \in DOMAIN groups[g]
        PROVE  \E j \in DOMAIN rows : <<g, k>> = Spot(node, j) /\ groups[g][k] = rows[j]
    <3>1. k = 1 /\ g \in DOMAIN rows /\ groups[g][k] = rows[g] /\ Spot(node, g) = <<g, 1>>
      BY <2>2, <2>3, <2>6, <2>7
    <3> QED
      BY <3>1
  <2>8. ASSUME NEW j \in DOMAIN rows
        PROVE  \E g \in DOMAIN groups : \E k \in DOMAIN groups[g] : <<g, k>> = Spot(node, j) /\ groups[g][k] = rows[j]
    <3>1. j \in DOMAIN groups /\ 1 \in DOMAIN groups[j] /\ groups[j][1] = rows[j] /\ Spot(node, j) = <<j, 1>>
      BY <2>2, <2>3, <2>6
    <3> QED
      BY <3>1
  <2> QED
    BY <2>4, <2>5, <2>7, <2>8
<1> QED
  BY <1>1, <1>2

\* The fields of the sections, and the node that each row of them stands for.
LEMMA LineRows ==
    ASSUME NEW net, IsStored(net), NEW line, line = SectionsOn(net), NEW st, st = AlongLine(net, {"station"})
    PROVE  /\ line.length = LengthOf(net) /\ line.segments = SegmentsOf(net) /\ line.profile = ProfileOf(net)
           /\ line.models = ModelsOf(net, st)
           /\ line.origin = BoundaryTank(net, Head(net.edges).from)
           /\ line.destination = BoundaryTank(net, Last(net.edges).to)
           /\ DOMAIN line.stations = DOMAIN st /\ \A i \in DOMAIN st : line.stations[i] = StationRow(net, st[i])
           /\ \A s \in Range(line.stations) : \E n \in Range(net.nodes) : n.kind = "station" /\ s = StationRow(net, n)
           /\ \A s \in Range(line.injections) : \E n \in Range(net.nodes) : s = InjectionRow(net, n)
<1> DEFINE ta == AlongLine(net, {"injection", "offtake"})
<1>1. /\ line.length = LengthOf(net) /\ line.segments = SegmentsOf(net) /\ line.profile = ProfileOf(net)
      /\ line.models = ModelsOf(net, st)
      /\ line.origin = BoundaryTank(net, Head(net.edges).from)
      /\ line.destination = BoundaryTank(net, Last(net.edges).to)
      /\ line.stations = [i \in DOMAIN st |-> StationRow(net, st[i])]
      /\ line.injections = [i \in DOMAIN ta |-> InjectionRow(net, ta[i])]
  <2> HIDE DEF ta
  <2> QED
    BY DEF SectionsOn, SectionsAlong, ta
<1>2. Range(net.nodes) = {net.nodes[i] : i \in DOMAIN net.nodes}
  BY DEF Range
<1>3. \A i \in DOMAIN st : st[i] \in Range(net.nodes) /\ st[i].kind = "station"
  <2>1. \A k \in DOMAIN st : \E i \in DOMAIN net.nodes : st[k] = net.nodes[i] /\ net.nodes[i].kind \in {"station"}
    BY NodesListed
  <2> QED
    BY <1>2, <2>1
<1>4. \A i \in DOMAIN ta : ta[i] \in Range(net.nodes)
  <2>1. \A k \in DOMAIN ta : \E i \in DOMAIN net.nodes : ta[k] = net.nodes[i]
    BY NodesListed
  <2> QED
    BY <1>2, <2>1
<1> HIDE DEF ta
<1>5. \A s \in Range(line.stations) : \E n \in Range(net.nodes) : n.kind = "station" /\ s = StationRow(net, n)
  <2> TAKE s \in Range(line.stations)
  <2>1. PICK i \in DOMAIN st : s = StationRow(net, st[i])
    BY <1>1 DEF Range
  <2> QED
    BY <1>3, <2>1
<1>6. \A s \in Range(line.injections) : \E n \in Range(net.nodes) : s = InjectionRow(net, n)
  <2> TAKE s \in Range(line.injections)
  <2>1. PICK i \in DOMAIN ta : s = InjectionRow(net, ta[i])
    BY <1>1 DEF Range
  <2> QED
    BY <1>4, <2>1
<1> QED
  BY <1>1, <1>5, <1>6

\* IsOneLine, for the sections of a network that is accepted.
LEMMA LineIsOne ==
    ASSUME NEW net, IsStored(net), NetworkErrors(net) = {}, NEW line, line = SectionsOn(net)
    PROVE  IsOneLine(line)
<1> DEFINE st == AlongLine(net, {"station"})
<1>1. /\ line.length = LengthOf(net) /\ line.segments = SegmentsOf(net) /\ line.profile = ProfileOf(net)
      /\ \A s \in Range(line.stations) : \E n \in Range(net.nodes) : n.kind = "station" /\ s = StationRow(net, n)
      /\ \A s \in Range(line.injections) : \E n \in Range(net.nodes) : s = InjectionRow(net, n)
  BY SMTT(30), LineRows
<1>2. /\ DOMAIN net.edges = 1..Len(net.edges) /\ Len(net.edges) \in Nat
      /\ \A n \in Range(net.nodes) : n.kind = "station" => PumpsAt(net, n) # {}
  BY AcceptedRows
<1>3. \A i \in DOMAIN line.segments : line.segments[i].start
          = IF i = 1 THEN 0 ELSE line.segments[i - 1].start + line.segments[i - 1].length
  <2>1. DOMAIN line.segments = DOMAIN net.edges
        /\ \A i \in DOMAIN net.edges : line.segments[i] = SegmentRow(net, net.edges[i], StartOf(net, i))
    BY <1>1 DEF SegmentsOf
  <2>2. \A e, start : SegmentRow(net, e, start).start = start /\ SegmentRow(net, e, start).length = e.length
    BY DEF SegmentRow
  <2>3. \A i \in DOMAIN net.edges : line.segments[i].start = StartOf(net, i) /\ line.segments[i].length = net.edges[i].length
    BY <2>1, <2>2
  <2> TAKE i \in DOMAIN line.segments
  <2>4. CASE i = 1
    BY <2>1, <2>3, <2>4, StartsFollow
  <2>5. CASE i # 1
    <3>1. i - 1 \in DOMAIN net.edges /\ (i - 1) + 1 = i
      BY <1>2, <2>1, <2>5
    <3>2. StartOf(net, i) = StartOf(net, i - 1) + net.edges[i - 1].length
      BY <3>1, StartsFollow
    <3> QED
      BY <2>1, <2>3, <2>5, <3>1, <3>2
  <2> QED
    BY <2>4, <2>5
<1>4. /\ \A i \in 2..Len(line.profile) : line.profile[i - 1][1] < line.profile[i][1]
      /\ Head(line.profile)[1] = 0 /\ Last(line.profile)[1] = line.length
  BY <1>1, ProfileIsDrawn DEF Climbs
<1>5. \A s \in Range(line.stations) \cup Range(line.injections) : 0 <= s.at /\ s.at <= line.length
  <2> TAKE s \in Range(line.stations) \cup Range(line.injections)
  <2>1. \E n : s.at = ChainageOf(net, n.id)
    BY <1>1 DEF StationRow, InjectionRow
  <2> QED
    BY <1>1, <2>1, ChainagesOnLine
<1>6. ASSUME NEW s \in Range(line.stations) PROVE s.groups # <<>> /\ <<>> \notin Range(s.groups)
  <2>1. PICK node \in Range(net.nodes) : node.kind = "station" /\ s = StationRow(net, node)
    BY <1>1
  <2> DEFINE rows == PumpRows(net, node)
             codes == PumpCodes(net, node)
             groups == GroupsFor(node, rows)
  <2>2. s.groups = groups
    BY <2>1 DEF StationRow
  <2>3. 1 \in DOMAIN rows
    <3>1. codes = PumpCodes(net, node) /\ rows = PumpRows(net, node)
      OBVIOUS
    <3> HIDE DEF rows, codes, groups
    <3>2. Len(codes) \in Nat /\ DOMAIN codes = 1..Len(codes) /\ DOMAIN rows = DOMAIN codes
      BY <3>1, PumpsListed
    <3>3. \A a \in PumpsAt(net, node) : \E k \in DOMAIN codes : codes[k] = a.code
      BY <3>1, PumpsListed
    <3> QED
      BY <1>2, <2>1, <3>2, <3>3
  <2> HIDE DEF rows, codes
  <2>4. groups # <<>> /\ <<>> \notin Range(groups)
    <3>1. groups = GroupsFor(node, rows)
      OBVIOUS
    <3> HIDE DEF groups
    <3> QED
      BY <2>3, <3>1, GroupsHold
  <2> QED
    BY <2>2, <2>4
<1> QED
  BY <1>3, <1>4, <1>5, <1>6 DEF IsOneLine

\* A row of the assets is known by its code and by its identifier.
LEMMA KeysOfRows ==
    ASSUME NEW rows, IsKeyed(rows)
    PROVE  \A r, q \in Range(rows) : /\ r.code = q.code \/ r.id = q.id => r = q
                                     /\ Named(rows, r.id) = r /\ Coded(rows, r.code) = r /\ r.code \in Int
<1>1. /\ Range(rows) = {rows[i] : i \in DOMAIN rows}
      /\ \A i \in DOMAIN rows : /\ Named(rows, rows[i].id) = rows[i] /\ Coded(rows, rows[i].code) = rows[i]
                                /\ rows[i].code \in Int
  BY RowsAreKeyed
<1>2. \A i, j \in DOMAIN rows : rows[i].id = rows[j].id \/ rows[i].code = rows[j].code => i = j
  BY DEF IsKeyed
<1> QED
  BY <1>1, <1>2

\* A station holds each pump of its node, and no other, at one spot.
Holds(net, node, groups) ==
    /\ \A g \in DOMAIN groups : \A k \in DOMAIN groups[g] : \E a \in PumpsAt(net, node) : groups[g][k].id = a.code
    /\ \A a \in PumpsAt(net, node) : \E g \in DOMAIN groups : \E k \in DOMAIN groups[g] : groups[g][k].id = a.code
    /\ \A g, h \in DOMAIN groups : \A k \in DOMAIN groups[g] : \A l \in DOMAIN groups[h] :
          groups[g][k].id = groups[h][l].id => g = h /\ k = l

\* So it is of the station that is assembled for a node.
LEMMA StationHolds ==
    ASSUME NEW net, IsStored(net), NEW node
    PROVE  Holds(net, node, StationRow(net, node).groups)
<1> DEFINE codes == PumpCodes(net, node)
           rows == PumpRows(net, node)
           groups == StationRow(net, node).groups
<1>1. groups = GroupsFor(node, rows)
  BY DEF StationRow
<1>2. codes = PumpCodes(net, node) /\ rows = PumpRows(net, node)
  OBVIOUS
<1> HIDE DEF codes, rows, groups
<1>3. DOMAIN rows = DOMAIN codes
  BY <1>2, PumpsListed
<1>5. \A k \in DOMAIN codes : \E a \in PumpsAt(net, node) : codes[k] = a.code /\ rows[k].id = a.code
  BY <1>2, PumpsListed
<1>6. \A a \in PumpsAt(net, node) : \E k \in DOMAIN codes : codes[k] = a.code
  BY <1>2, PumpsListed
<1>7. \A j, k \in DOMAIN codes : codes[j] = codes[k] => j = k
  BY <1>2, PumpsListed
<1>8. \A g \in DOMAIN groups : \A k \in DOMAIN groups[g] :
         \E j \in DOMAIN rows : <<g, k>> = Spot(node, j) /\ groups[g][k] = rows[j]
  BY <1>1, GroupsHold
<1>9. \A j \in DOMAIN rows : \E g \in DOMAIN groups : \E k \in DOMAIN groups[g] : groups[g][k] = rows[j]
  BY <1>1, GroupsHold
<1>10. \A j \in DOMAIN rows : rows[j].id = codes[j]
  BY <1>3, <1>5
<1>11. ASSUME NEW g \in DOMAIN groups, NEW k \in DOMAIN groups[g]
       PROVE  \E a \in PumpsAt(net, node) : groups[g][k].id = a.code
  BY <1>3, <1>5, <1>8
<1>12. ASSUME NEW a \in PumpsAt(net, node)
       PROVE  \E g \in DOMAIN groups : \E k \in DOMAIN groups[g] : groups[g][k].id = a.code
  <2>1. PICK j \in DOMAIN rows : codes[j] = a.code
    BY <1>3, <1>6
  <2>2. PICK g \in DOMAIN groups : \E k \in DOMAIN groups[g] : groups[g][k] = rows[j]
    BY <1>9
  <2> QED
    BY <1>10, <2>1, <2>2
<1>13. ASSUME NEW g \in DOMAIN groups, NEW h \in DOMAIN groups, NEW k \in DOMAIN groups[g], NEW l \in DOMAIN groups[h],
              groups[g][k].id = groups[h][l].id
       PROVE  g = h /\ k = l
  <2>1. PICK i \in DOMAIN rows : <<g, k>> = Spot(node, i) /\ groups[g][k] = rows[i]
    BY <1>8
  <2>2. PICK j \in DOMAIN rows : <<h, l>> = Spot(node, j) /\ groups[h][l] = rows[j]
    BY <1>8
  <2>3. i = j
    BY <1>3, <1>7, <1>10, <1>13, <2>1, <2>2
  <2>4. <<g, k>> = <<h, l>>
    BY <2>1, <2>2, <2>3
  <2> QED
    BY <2>4
<1>14. Holds(net, node, groups)
  BY <1>11, <1>12, <1>13 DEF Holds
<1> QED
  BY <1>14 DEF groups

\* The places of a pump in the stations of a line.
LEMMA PlacesOfPump ==
    ASSUME NEW line, NEW id, NEW p
    PROVE  p \in PumpPlaces(line, id)
               <=> \E s \in DOMAIN line.stations : \E g \in DOMAIN line.stations[s].groups :
                      \E k \in DOMAIN line.stations[s].groups[g] :
                         p = <<s, g, k>> /\ line.stations[s].groups[g][k].id = id
BY DEF PumpPlaces

\* A pump is at one place of the line.
LEMMA PumpHasOnePlace ==
    ASSUME NEW net, IsStored(net), NEW line, line = SectionsOn(net),
           NEW n \in Range(net.nodes), n.kind = "station", NEW a \in PumpsAt(net, n)
    PROVE  Cardinality(PumpPlaces(line, a.code)) = 1
<1> DEFINE st == AlongLine(net, {"station"})
           groups(s) == line.stations[s].groups
<1>1. DOMAIN line.stations = DOMAIN st /\ \A i \in DOMAIN st : line.stations[i] = StationRow(net, st[i])
  BY LineRows
<1>2. /\ \A k \in DOMAIN st : \E i \in DOMAIN net.nodes : st[k] = net.nodes[i]
      /\ \A i \in DOMAIN net.nodes : net.nodes[i].kind \in {"station"} => \E k \in DOMAIN st : st[k] = net.nodes[i]
      /\ \A j, k \in DOMAIN st : st[j] = st[k] => j = k
  BY NodesListed
<1> HIDE DEF st
<1>3. \A r, q \in Range(net.nodes) : r.id = q.id => r = q
  BY KeysOfRows DEF IsStored
<1>4. \A r, q \in Range(net.assets) : r.code = q.code => r = q
  BY KeysOfRows DEF IsStored
<1>5. \A node : PumpsAt(net, node) \subseteq Range(net.assets) /\ \A b \in PumpsAt(net, node) : b.node = node.id
  BY DEF PumpsAt
<1>6. \A i \in DOMAIN st : st[i] \in Range(net.nodes)
  BY <1>2 DEF Range
<1>7. \A s \in DOMAIN st : groups(s) = StationRow(net, st[s]).groups
  BY <1>1
<1> HIDE DEF groups
<1>8. PICK s \in DOMAIN st : st[s] = n
  BY <1>2 DEF Range
<1>9. \A t \in DOMAIN st : Holds(net, st[t], groups(t))
  BY <1>7, StationHolds
<1>10a. PICK g \in DOMAIN groups(s) : \E k \in DOMAIN groups(s)[g] : groups(s)[g][k].id = a.code
  BY <1>8, <1>9 DEF Holds
<1>10b. PICK k \in DOMAIN groups(s)[g] : groups(s)[g][k].id = a.code
  BY <1>10a
<1>10. ASSUME NEW t \in DOMAIN st, NEW h \in DOMAIN groups(t), NEW l \in DOMAIN groups(t)[h], groups(t)[h][l].id = a.code
       PROVE  <<t, h, l>> = <<s, g, k>>
  <2>1. PICK b \in PumpsAt(net, st[t]) : groups(t)[h][l].id = b.code
    BY <1>9 DEF Holds
  <2>2. b = a
    BY <1>4, <1>5, <1>10, <2>1
  <2>3. st[t] = n
    BY <1>3, <1>5, <1>6, <2>2
  <2>4. t = s
    BY <1>2, <1>8, <2>3
  <2>5. h = g /\ l = k
    BY <1>9, <1>10b, <1>10, <2>4 DEF Holds
  <2> QED
    BY <2>4, <2>5
<1>11. \A p : p \in PumpPlaces(line, a.code)
             <=> \E t \in DOMAIN st : \E h \in DOMAIN groups(t) : \E l \in DOMAIN groups(t)[h] :
                    p = <<t, h, l>> /\ groups(t)[h][l].id = a.code
  BY <1>1, PlacesOfPump DEF groups
<1>12. PumpPlaces(line, a.code) = {<<s, g, k>>}
  <2>1. <<s, g, k>> \in PumpPlaces(line, a.code)
    BY <1>10b, <1>11
  <2>2. \A p \in PumpPlaces(line, a.code) : p = <<s, g, k>>
    BY <1>10, <1>11
  <2> QED
    BY <2>1, <2>2
<1> QED
  BY <1>12, FS_Singleton

\* What is kept of the models when no two versions of an item are placed.
LEMMA ModelsKept ==
    ASSUME NEW net, IsStored(net), ~VersionsCollide(net), NEW pumps, pumps \in Seq(AssetCodes(net)),
           NEW a \in Range(net.assets), a.code \in Range(pumps)
    PROVE  ModelsFor(net, pumps)[Items[a.item].code] = a.item
<1> DEFINE item(i) == Coded(net.assets, pumps[i]).item
           carrying == {i \in DOMAIN pumps : Items[item(i)].code = Items[a.item].code}
<1>1. \A r, q \in Range(net.assets) : (r.code = q.code => r = q) /\ Coded(net.assets, r.code) = r
  BY KeysOfRows DEF IsStored
<1>2. Len(pumps) \in Nat /\ DOMAIN pumps = 1..Len(pumps) /\ \A i \in DOMAIN pumps : pumps[i] \in AssetCodes(net)
  <2> DEFINE C == AssetCodes(net)
  <2>1. pumps \in Seq(C)
    OBVIOUS
  <2> HIDE DEF C
  <2> QED
    BY <2>1
<1>3. \A i \in DOMAIN pumps : \E b \in Range(net.assets) : pumps[i] = b.code /\ item(i) = b.item
  <2> TAKE i \in DOMAIN pumps
  <2>1. PICK b \in Range(net.assets) : pumps[i] = b.code
    BY <1>2 DEF AssetCodes
  <2> QED
    BY <1>1, <2>1
<1>4. PICK j \in DOMAIN pumps : pumps[j] = a.code
  BY DEF Range
<1>5. item(j) = a.item
  BY <1>1, <1>4
<1>6. \A i \in DOMAIN pumps : Items[item(i)].code = Items[a.item].code => item(i) = a.item
  <2> TAKE i \in DOMAIN pumps
  <2>1. PICK b \in Range(net.assets) : item(i) = b.item
    BY <1>3
  <2> HIDE DEF item
  <2> QED
    BY <2>1 DEF VersionsCollide
<1>7. ModelsFor(net, pumps) = [code \in {Items[item(i)].code : i \in DOMAIN pumps} |->
                                  item(Max({i \in DOMAIN pumps : Items[item(i)].code = code}))]
  BY DEF ModelsFor
<1> HIDE DEF item
<1>8. ModelsFor(net, pumps)[Items[a.item].code] = item(Max(carrying))
  BY <1>4, <1>5, <1>7
<1>9. Max(carrying) \in carrying
  <2>1. carrying \subseteq DOMAIN pumps /\ j \in carrying
    BY <1>4, <1>5
  <2>2. IsFiniteSet(1..Len(pumps))
    <3> DEFINE m == Len(pumps)
    <3>1. m \in Int /\ 1 \in Int
      BY <1>2
    <3> HIDE DEF m
    <3>2. IsFiniteSet(1..m)
      BY <3>1, FS_Interval
    <3> QED
      BY <3>2 DEF m
  <2> HIDE DEF carrying
  <2>3. IsFiniteSet(carrying) /\ carrying # {} /\ carrying \subseteq Int
    BY <1>2, <2>1, <2>2, FS_Subset
  <2> QED
    BY <2>3, MaxOf
<1> QED
  BY <1>6, <1>8, <1>9

\* PumpsAreAssembled, for the sections of a network.
LEMMA LineIsAssembled ==
    ASSUME NEW net, IsStored(net), NEW line, line = SectionsOn(net)
    PROVE  PumpsAreAssembled(net, line)
<1> DEFINE st == AlongLine(net, {"station"})
           seqs == [i \in DOMAIN st |-> PumpCodes(net, st[i])]
<1>1. line.models = ModelsOf(net, st)
  BY LineRows
<1>2. /\ DOMAIN st = 1..Len(st) /\ Len(st) \in Nat
      /\ \A i \in DOMAIN net.nodes : net.nodes[i].kind \in {"station"} => \E k \in DOMAIN st : st[k] = net.nodes[i]
  BY NodesListed
<1> HIDE DEF st
<1>3. \A i \in DOMAIN st : PumpCodes(net, st[i]) \in Seq(AssetCodes(net))
  BY PumpsListed
<1>4. seqs \in [1..Len(st) -> Seq(AssetCodes(net))] /\ \A i \in DOMAIN st : seqs[i] = PumpCodes(net, st[i])
  BY <1>2, <1>3
<1>5. line.models = ModelsFor(net, FlattenSeq(seqs))
  BY <1>1 DEF ModelsOf
<1> HIDE DEF seqs
<1>6. FlattenSeq(seqs) \in Seq(AssetCodes(net)) /\ Range(FlattenSeq(seqs)) = UNION {Range(seqs[i]) : i \in 1..Len(st)}
  <2> DEFINE C == AssetCodes(net)
             m == Len(st)
  <2>1. m \in Nat /\ seqs \in [1..m -> Seq(C)]
    BY <1>2, <1>4
  <2> HIDE DEF C, m
  <2>2. FlattenSeq(seqs) \in Seq(C) /\ Range(FlattenSeq(seqs)) = UNION {Range(seqs[i]) : i \in 1..m}
    BY <2>1, FlattenRange
  <2> QED
    BY <2>2 DEF C, m
<1>7. ASSUME NEW n \in Range(net.nodes), n.kind = "station", NEW a \in PumpsAt(net, n), ~VersionsCollide(net)
      PROVE  line.models[Items[a.item].code] = a.item
  <2>1. PICK s \in DOMAIN st : st[s] = n
    BY <1>2, <1>7 DEF Range
  <2>2. a.code \in Range(seqs[s])
    <3>1. \E k \in DOMAIN PumpCodes(net, n) : PumpCodes(net, n)[k] = a.code
      BY PumpsListed
    <3> QED
      BY <1>4, <2>1, <3>1 DEF Range
  <2>3. a.code \in Range(FlattenSeq(seqs)) /\ a \in Range(net.assets)
    BY <1>2, <1>6, <2>2 DEF PumpsAt
  <2> QED
    BY <1>5, <1>6, <1>7, <2>3, ModelsKept
<1> QED
  BY <1>7, PumpHasOnePlace DEF PumpsAreAssembled

(***************************************************************************)
(* Where the nodes are, and the path of a transfer.                        *)
(***************************************************************************)

\* The nodes that a chain of edges passes, in their order.
NodeAt(net, k) == IF k = 1 THEN net.edges[1].from ELSE net.edges[k - 1].to

\* A chain passes one node more than it has edges, each of them once unless one is passed twice.
LEMMA StopsApart ==
    ASSUME NEW net, IsStored(net), NetworkErrors(net) = {}
    PROVE  /\ \A k \in 1..Len(net.edges) : net.edges[k].from = NodeAt(net, k) /\ net.edges[k].to = NodeAt(net, k + 1)
           /\ Ends(net) = {NodeAt(net, 1), NodeAt(net, Len(net.edges) + 1)}
           /\ ~PassedTwice(net) => \A j, k \in 1..(Len(net.edges) + 1) : NodeAt(net, j) = NodeAt(net, k) => j = k
<1> DEFINE n == Len(net.edges)
           S == {e.from : e \in Range(net.edges)} \cup Ends(net)
           f == [k \in 1..(n + 1) |-> NodeAt(net, k)]
<1>1. /\ n \in Nat \ {0} /\ DOMAIN net.edges = 1..n /\ net.edges # <<>>
      /\ Head(net.edges) = net.edges[1] /\ Last(net.edges) = net.edges[n]
      /\ \A i \in 2..n : net.edges[i - 1].to = net.edges[i].from
  BY AcceptedRows
<1>2. ASSUME NEW k \in 1..n PROVE net.edges[k].from = NodeAt(net, k) /\ net.edges[k].to = NodeAt(net, k + 1)
  <2>1. k + 1 # 1 /\ (k + 1) - 1 = k /\ (k # 1 => k \in 2..n)
    BY <1>1
  <2> QED
    BY <1>1, <2>1 DEF NodeAt
<1>3. Ends(net) = {NodeAt(net, 1), NodeAt(net, n + 1)}
  <2>1. Ends(net) = {net.edges[1].from, net.edges[n].to} /\ 1 \in 1..n /\ n \in 1..n
    BY <1>1 DEF Ends
  <2> HIDE DEF n
  <2> QED
    BY <1>2, <2>1
<1>4. \A k \in 1..(n + 1) : NodeAt(net, k) \in S
  <2> TAKE k \in 1..(n + 1)
  <2>1. CASE k = n + 1
    BY <1>3, <2>1
  <2>2. CASE k # n + 1
    <3>1. k \in 1..n
      BY <1>1, <2>2
    <3>2. net.edges[k] \in Range(net.edges) /\ NodeAt(net, k) = net.edges[k].from
      BY <1>1, <1>2, <3>1 DEF Range
    <3> QED
      BY <3>2
  <2> QED
    BY <2>1, <2>2
<1>5. \A x \in S : \E k \in 1..(n + 1) : x = NodeAt(net, k)
  <2> TAKE x \in S
  <2>1. 1 \in 1..(n + 1) /\ n + 1 \in 1..(n + 1) /\ \A k \in 1..n : k \in 1..(n + 1)
    BY <1>1
  <2>2. CASE x \in Ends(net)
    BY <1>3, <2>1, <2>2
  <2>3. CASE x \notin Ends(net)
    <3>1. PICK e \in Range(net.edges) : x = e.from
      BY <2>3
    <3>2. PICK i \in 1..n : e = net.edges[i]
      BY <1>1, <3>1 DEF Range
    <3> QED
      BY <1>2, <2>1, <3>1, <3>2
  <2> QED
    BY <2>2, <2>3
<1>6. ~PassedTwice(net) => Cardinality(S) = n + 1
  BY DEF PassedTwice
<1> HIDE DEF S
<1>7. f \in Surjection(1..(n + 1), S)
  <2>1. f \in [1..(n + 1) -> S]
    BY <1>4
  <2>2. \A x \in S : \E k \in 1..(n + 1) : f[k] = x
    BY <1>5
  <2> HIDE DEF f, n
  <2> QED
    BY <2>1, <2>2 DEF Surjection
<1>8. IsFiniteSet(1..(n + 1)) /\ Cardinality(1..(n + 1)) = n + 1
  <2> DEFINE m == n + 1
  <2>1. m \in Nat /\ m >= 1 /\ m - 1 + 1 = m
    BY <1>1
  <2> HIDE DEF m
  <2>2. IsFiniteSet(1..m) /\ Cardinality(1..m) = IF 1 > m THEN 0 ELSE m - 1 + 1
    BY <2>1, FS_Interval
  <2>3. IsFiniteSet(1..m) /\ Cardinality(1..m) = m
    BY <2>1, <2>2
  <2> QED
    BY <2>3 DEF m
<1>9. ASSUME ~PassedTwice(net) PROVE \A j, k \in 1..(n + 1) : NodeAt(net, j) = NodeAt(net, k) => j = k
  <2> DEFINE D == 1..(n + 1)
  <2>1. IsFiniteSet(D) /\ f \in Surjection(D, S) /\ Cardinality(S) = Cardinality(D)
    BY <1>6, <1>7, <1>8, <1>9
  <2>2. f \in Injection(D, S)
    <3> HIDE DEF D, f, n
    <3>1. IsFiniteSet(S)
      BY <2>1, FS_Surjection
    <3> QED
      BY <2>1, <3>1, FS_SurjSameCardinalityImpliesInj
  <2>3. \A j, k \in D : f[j] = f[k] => j = k
    <3> HIDE DEF D, f
    <3> QED
      BY <2>2 DEF Injection, IsInjective
  <2>4. \A k \in D : f[k] = NodeAt(net, k)
    OBVIOUS
  <2> HIDE DEF f
  <2> QED
    BY <2>3, <2>4
<1> QED
  BY <1>2, <1>3, <1>9

\* The chainage of a stop is the one at which its edge starts.
LEMMA StopsInOrder ==
    ASSUME NEW net, IsStored(net), NetworkErrors(net) = {}, ~PassedTwice(net), NEW k \in 1..(Len(net.edges) + 1)
    PROVE  ChainageOf(net, NodeAt(net, k)) = StartOf(net, k)
<1> DEFINE n == Len(net.edges)
           leaving == {i \in DOMAIN net.edges : net.edges[i].from = NodeAt(net, k)}
           reaching == {i \in DOMAIN net.edges : net.edges[i].to = NodeAt(net, k)}
<1>1. n \in Nat \ {0} /\ DOMAIN net.edges = 1..n
  BY AcceptedRows
<1>2. \A i \in 1..n : /\ net.edges[i].from = NodeAt(net, i) /\ net.edges[i].to = NodeAt(net, i + 1)
                      /\ i \in 1..(n + 1) /\ i + 1 \in 1..(n + 1)
  BY <1>1, StopsApart
<1>3. \A i, j \in 1..(n + 1) : NodeAt(net, i) = NodeAt(net, j) => i = j
  BY StopsApart
<1>4. \A i : i \in reaching <=> i \in 1..n /\ i + 1 = k
  BY <1>1, <1>2, <1>3
<1>5. \A i : i \in leaving <=> i \in 1..n /\ i = k
  BY <1>1, <1>2, <1>3
<1>6. ChainageOf(net, NodeAt(net, k)) = IF reaching # {} THEN StartOf(net, Max(reaching) + 1)
                                      ELSE IF leaving # {} THEN StartOf(net, Min(leaving)) ELSE 0
  BY DEF ChainageOf
<1>7. k = 1 \/ k - 1 \in 1..n
  BY <1>1
<1> HIDE DEF leaving, reaching
<1>8. CASE k = 1
  <2>1. reaching = {} /\ leaving = {1}
    <3>1. \A i : i \notin reaching
      BY <1>4, <1>8
    <3>2. \A i : i \in leaving <=> i = 1
      BY <1>1, <1>5, <1>8
    <3> QED
      BY <3>1, <3>2
  <2>2. Min({1}) = 1
    <3>1. IsFiniteSet({1})
      BY FS_Singleton
    <3>2. Min({1}) \in {1}
      BY <3>1, MinOf
    <3> QED
      BY <3>2
  <2> QED
    BY <1>6, <1>8, <2>1, <2>2
<1>9. CASE k # 1
  <2> DEFINE p == k - 1
  <2>1. p \in 1..n /\ p + 1 = k
    BY <1>7, <1>9
  <2>2. reaching = {p}
    <3>1. \A i : i \in reaching <=> i = p
      BY <1>1, <1>4, <2>1
    <3> QED
      BY <3>1
  <2>3. p \in Int
    BY <2>1
  <2> HIDE DEF p
  <2>4. Max({p}) = p
    <3>1. IsFiniteSet({p})
      BY FS_Singleton
    <3>2. Max({p}) \in {p}
      BY <2>3, <3>1, MaxOf
    <3> QED
      BY <3>2
  <2>5. reaching # {} /\ Max(reaching) + 1 = k
    BY <2>1, <2>2, <2>4
  <2> QED
    BY <1>6, <2>5
<1> QED
  BY <1>8, <1>9

\* A station, an injection and an offtake are at the chainage where the edges of their node meet.
LEMMA LineIsPlaced ==
    ASSUME NEW net, IsStored(net), NetworkErrors(net) = {}, ~PassedTwice(net), NEW line, line = SectionsOn(net)
    PROVE  PlacedOnLine(net, line)
<1> DEFINE n == Len(net.edges)
<1>1. /\ line.segments = SegmentsOf(net)
      /\ \A s \in Range(line.stations) : \E node \in Range(net.nodes) : s = StationRow(net, node)
      /\ \A s \in Range(line.injections) : \E node \in Range(net.nodes) : s = InjectionRow(net, node)
  BY LineRows
<1>2. n \in Nat \ {0} /\ DOMAIN net.edges = 1..n
  BY AcceptedRows
<1>3. \A i \in DOMAIN net.edges : line.segments[i].start = StartOf(net, i) /\ line.segments[i].length = net.edges[i].length
  <2>1. \A i \in DOMAIN net.edges : line.segments[i] = SegmentRow(net, net.edges[i], StartOf(net, i))
    BY <1>1 DEF SegmentsOf
  <2>2. \A e, start : SegmentRow(net, e, start).start = start /\ SegmentRow(net, e, start).length = e.length
    BY DEF SegmentRow
  <2> QED
    BY <2>1, <2>2
<1>4. \A r, q \in Range(net.nodes) : /\ r.code = q.code \/ r.id = q.id => r = q
                                     /\ Named(net.nodes, r.id) = r
  BY KeysOfRows DEF IsStored
<1>5. ASSUME NEW i \in DOMAIN net.edges, NEW s \in Range(line.stations) \cup Range(line.injections)
      PROVE  /\ s.id = Named(net.nodes, net.edges[i].from).code => s.at = line.segments[i].start
             /\ s.id = Named(net.nodes, net.edges[i].to).code   => s.at = line.segments[i].start + line.segments[i].length
  <2>1. PICK node \in Range(net.nodes) : s.id = node.code /\ s.at = ChainageOf(net, node.id)
    BY <1>1 DEF StationRow, InjectionRow
  <2>2. {net.edges[i].from, net.edges[i].to} \subseteq Ids(net.nodes)
    BY DEF IsStored, IsEdge, Range
  <2>3. \A id \in Ids(net.nodes) : s.id = Named(net.nodes, id).code => node.id = id
    <3> TAKE id \in Ids(net.nodes)
    <3>1. PICK r \in Range(net.nodes) : r.id = id
      BY DEF Ids
    <3> QED
      BY <1>4, <2>1, <3>1
  <2>4. /\ net.edges[i].from = NodeAt(net, i) /\ net.edges[i].to = NodeAt(net, i + 1)
        /\ i \in 1..(n + 1) /\ i + 1 \in 1..(n + 1)
    BY <1>2, StopsApart
  <2>5. ChainageOf(net, NodeAt(net, i)) = StartOf(net, i) /\ ChainageOf(net, NodeAt(net, i + 1)) = StartOf(net, i + 1)
    BY <2>4, StopsInOrder
  <2>6. StartOf(net, i + 1) = StartOf(net, i) + net.edges[i].length
    BY StartsFollow
  <2> QED
    BY <1>3, <2>1, <2>2, <2>3, <2>4, <2>5, <2>6
<1> QED
  BY <1>5 DEF PlacedOnLine

\* A tank is at an end of the chain.
LEMMA TanksAreEnds ==
    ASSUME NEW net, IsStored(net), NetworkErrors(net) = {}, NEW id \in Ids(net.nodes), NEW tank, JoinsTank(net, id, tank)
    PROVE  id \in Ends(net) /\ BoundaryTank(net, id) = tank
<1>1. PICK r \in Range(net.nodes) : r.id = id
  BY DEF Ids
<1>2. Named(net.nodes, id) = r
  BY <1>1, KeysOfRows DEF IsStored
<1>3. r.kind = "tank" /\ r.tank = tank
  BY <1>2 DEF JoinsTank
<1>4. id \in Ends(net)
  BY <1>1, <1>3, AcceptedRows
<1> QED
  BY <1>2, <1>3, <1>4 DEF BoundaryTank

\* An accepted path follows the chain from its first node to its last one.
LEMMA PathIsTheChain ==
    ASSUME NEW net, IsStored(net), NetworkErrors(net) = {}, ~PassedTwice(net),
           NEW ctx, ContextIsSound(net, ctx), ctx.path \in Seq(Range(ctx.path))
    PROVE  /\ ctx.source = NodeAt(net, 1) /\ ctx.destination = NodeAt(net, Len(net.edges) + 1)
           /\ Len(ctx.path) = Len(net.edges)
           /\ ctx.path = [i \in DOMAIN net.edges |-> net.edges[i].id]
           /\ Ids(net.nodes) \subseteq PassedBy(net, ctx, Len(ctx.path))
<1> DEFINE n == Len(net.edges)
           m == Len(ctx.path)
<1>1. /\ n \in Nat \ {0} /\ DOMAIN net.edges = 1..n
      /\ Ids(net.nodes) \subseteq UNION Linked(net)
  BY AcceptedRows
<1>2. /\ \A k \in 1..n : net.edges[k].from = NodeAt(net, k) /\ net.edges[k].to = NodeAt(net, k + 1)
      /\ Ends(net) = {NodeAt(net, 1), NodeAt(net, n + 1)}
      /\ \A j, k \in 1..(n + 1) : NodeAt(net, j) = NodeAt(net, k) => j = k
  BY StopsApart
<1>3. m \in Nat /\ DOMAIN ctx.path = 1..m /\ ctx.path = [i \in 1..m |-> ctx.path[i]]
  <2> DEFINE R == Range(ctx.path)
  <2>1. ctx.path \in Seq(R)
    OBVIOUS
  <2> HIDE DEF R
  <2> QED
    BY <2>1
<1>4. /\ Range(ctx.path) \subseteq Ids(net.edges)
      /\ \A k \in 1..m : Leg(net, ctx, k).from = ReachedBy(net, ctx, k - 1)
      /\ ReachedBy(net, ctx, m) = ctx.destination
      /\ ctx.source # ctx.destination
  BY <1>3 DEF ContextIsSound, PathIsContinuous
<1>5. ctx.source \in {NodeAt(net, 1), NodeAt(net, n + 1)} /\ ctx.destination \in {NodeAt(net, 1), NodeAt(net, n + 1)}
  <2>1. {ctx.source, ctx.destination} \subseteq Ids(net.nodes)
        /\ JoinsTank(net, ctx.source, ctx.sourceTank) /\ JoinsTank(net, ctx.destination, ctx.destinationTank)
    BY DEF ContextIsSound
  <2> QED
    BY <1>2, <2>1, TanksAreEnds
<1>6. ASSUME NEW k \in 1..m
      PROVE  \E i \in 1..n : Leg(net, ctx, k) = net.edges[i] /\ net.edges[i].id = ctx.path[k]
  <2>1. ctx.path[k] \in Ids(net.edges)
    BY <1>3, <1>4 DEF Range
  <2>2. PICK e \in Range(net.edges) : e.id = ctx.path[k]
    BY <2>1 DEF Ids
  <2>3. Named(net.edges, e.id) = e
    BY KeysOfRows DEF IsStored
  <2>4. PICK i \in 1..n : e = net.edges[i]
    BY <1>1 DEF Range
  <2> QED
    BY <2>2, <2>3, <2>4 DEF Leg
<1>7. ctx.source = NodeAt(net, 1) /\ ctx.destination = NodeAt(net, n + 1)
  <2> SUFFICES ASSUME ctx.source # NodeAt(net, 1) PROVE FALSE
    BY <1>4, <1>5
  <2>1. ctx.source = NodeAt(net, n + 1)
    BY <1>5
  <2>2. m # 0
    BY <1>4 DEF ReachedBy
  <2>3. 1 \in 1..m /\ 1 - 1 = 0
    BY <1>3, <2>2
  <2>4. Leg(net, ctx, 1).from = ctx.source
    BY <1>4, <2>3 DEF ReachedBy
  <2>5. PICK i \in 1..n : Leg(net, ctx, 1) = net.edges[i]
    BY <1>6, <2>3
  <2>6. NodeAt(net, i) = NodeAt(net, n + 1) /\ i \in 1..(n + 1) /\ n + 1 \in 1..(n + 1)
    BY <1>1, <1>2, <2>1, <2>4, <2>5
  <2> QED
    BY <1>1, <1>2, <2>6
<1> DEFINE Fine(k) == /\ k <= n /\ ReachedBy(net, ctx, k) = NodeAt(net, k + 1)
                      /\ \A j \in 1..k : ctx.path[j] = net.edges[j].id /\ Leg(net, ctx, j) = net.edges[j]
           Good == {k \in Nat : Fine(k)}
<1>8. ASSUME NEW k \in 0..(m - 1), k \in Good PROVE k + 1 \in Good
  <2>1. k + 1 \in 1..m /\ (k + 1) - 1 = k /\ k + 1 # 0
    BY <1>3
  <2>2. Fine(k)
    BY <1>8
  <2>3. Leg(net, ctx, k + 1).from = NodeAt(net, k + 1)
    BY <1>4, <2>1, <2>2
  <2>4. PICK i \in 1..n : Leg(net, ctx, k + 1) = net.edges[i] /\ net.edges[i].id = ctx.path[k + 1]
    BY <1>6, <2>1
  <2>5. NodeAt(net, i) = NodeAt(net, k + 1) /\ i \in 1..(n + 1) /\ k + 1 \in 1..(n + 1)
    BY <1>1, <1>2, <2>2, <2>3, <2>4
  <2>6. i = k + 1
    BY <1>2, <2>5
  <2>7. ReachedBy(net, ctx, k + 1) = NodeAt(net, (k + 1) + 1)
    BY <1>2, <2>1, <2>4, <2>6 DEF ReachedBy
  <2>8. \A j \in 1..(k + 1) : ctx.path[j] = net.edges[j].id /\ Leg(net, ctx, j) = net.edges[j]
    <3> TAKE j \in 1..(k + 1)
    <3>1. j = k + 1 \/ j \in 1..k
      OBVIOUS
    <3> QED
      BY <2>2, <2>4, <2>6, <3>1
  <2>9. Fine(k + 1)
    BY <2>4, <2>6, <2>7, <2>8
  <2> HIDE DEF Fine
  <2> QED
    BY <2>9
<1>9. Fine(m)
  <2>1. Fine(0)
    BY <1>1, <1>7 DEF ReachedBy
  <2>2. 0 \in Good
    BY <2>1
  <2>3. m \in Good
    <3> HIDE DEF Good, m
    <3> QED
      BY <1>3, <1>8, <2>2, UpTo
  <2> QED
    BY <2>3
<1>10. m = n
  <2>1. NodeAt(net, m + 1) = NodeAt(net, n + 1) /\ m + 1 \in 1..(n + 1) /\ n + 1 \in 1..(n + 1)
    BY <1>1, <1>3, <1>4, <1>7, <1>9
  <2>2. m + 1 = n + 1
    BY <1>2, <2>1
  <2> QED
    BY <1>1, <1>3, <2>2
<1>11. ctx.path = [i \in DOMAIN net.edges |-> net.edges[i].id]
  <2>1. \A i \in 1..n : ctx.path[i] = net.edges[i].id
    BY <1>9, <1>10
  <2> QED
    BY <1>1, <1>3, <1>10, <2>1
<1>12. ASSUME NEW id \in Ids(net.nodes) PROVE id \in PassedBy(net, ctx, m)
  <2>1. \A k \in 1..n : net.edges[k].to \in PassedBy(net, ctx, m)
    BY <1>9, <1>10 DEF PassedBy
  <2>2. NodeAt(net, 1) \in PassedBy(net, ctx, m)
    BY <1>7 DEF PassedBy
  <2>3. \A k \in 1..n : net.edges[k].from \in PassedBy(net, ctx, m)
    <3> TAKE k \in 1..n
    <3>1. k = 1 \/ (k - 1 \in 1..n /\ (k - 1) + 1 = k)
      BY <1>1
    <3> QED
      BY <1>2, <2>1, <2>2, <3>1
  <2>4. PICK e \in Range(net.edges) : id \in {e.from, e.to}
    BY <1>1 DEF Linked
  <2>5. PICK k \in 1..n : e = net.edges[k]
    BY <1>1 DEF Range
  <2> QED
    BY <2>1, <2>3, <2>4, <2>5
<1> QED
  BY <1>7, <1>10, <1>11, <1>12

\* The pumps of a line are those of the station nodes.
LEMMA PumpsOfLine ==
    ASSUME NEW net, IsStored(net), NEW line, line = SectionsOn(net), NEW a \in Range(net.assets), a.code \in LinePumps(line)
    PROVE  a.node \in Ids(net.nodes)
<1>1. \A s \in Range(line.stations) : \E node \in Range(net.nodes) : s = StationRow(net, node)
  BY LineRows
<1>2. PICK s \in Range(line.stations) : \E p \in UNION {Range(g) : g \in Range(s.groups)} : p.id = a.code
  BY DEF LinePumps
<1>2a. PICK p \in UNION {Range(g) : g \in Range(s.groups)} : p.id = a.code
  BY <1>2
<1>3. PICK node \in Range(net.nodes) : s = StationRow(net, node)
  BY <1>1
<1>4. Holds(net, node, s.groups)
  BY <1>3, StationHolds
<1>5. PICK g \in DOMAIN s.groups : p \in Range(s.groups[g])
  BY <1>2a DEF Range
<1>6. PICK k \in DOMAIN s.groups[g] : p = s.groups[g][k]
  BY <1>5 DEF Range
<1>7. PICK b \in PumpsAt(net, node) : p.id = b.code
  BY <1>4, <1>6 DEF Holds
<1>8. b \in Range(net.assets) /\ b.node = node.id
  BY DEF PumpsAt
<1>9. \A r, q \in Range(net.assets) : r.code = q.code => r = q
  BY KeysOfRows DEF IsStored
<1>10. a = b
  BY <1>2a, <1>7, <1>8, <1>9
<1> QED
  BY <1>8, <1>10 DEF Ids

\* The overrides of a transfer run a pump of the line when it is among those that the path keeps.
LEMMA OverridesRun ==
    ASSUME NEW ctx, NEW pumps, NEW running, NEW code \in pumps
    PROVE  PayloadFor(ctx, pumps, running).overrides[code].running <=> code \in running
<1> DEFINE new == OverridesFor(pumps, running \cap pumps, ctx.previous)
<1>1. PayloadFor(ctx, pumps, running).overrides = Overridden(ctx.previous, new)
  BY DEF PayloadFor
<1>2. DOMAIN new = pumps /\ new[code].running = (code \in running \cap pumps)
  BY DEF OverridesFor
<1>3. Overridden(ctx.previous, new)[code] = new[code]
  <2> HIDE DEF new
  <2> QED
    BY <1>2 DEF Overridden
<1> QED
  BY <1>1, <1>2, <1>3

\* They leave the availability and the speed of the pumps as the scenario has them.
LEMMA OverridesKeep ==
    ASSUME NEW ctx, NEW pumps, NEW running, NEW pump \in pumps \cup DOMAIN ctx.previous
    PROVE  LET state == PayloadFor(ctx, pumps, running).overrides[pump]
           IN  <<state.status, state.speed>> =
                   IF pump \in DOMAIN ctx.previous THEN <<ctx.previous[pump].status, ctx.previous[pump].speed>>
                   ELSE <<None, None>>
<1> DEFINE new == OverridesFor(pumps, running \cap pumps, ctx.previous)
<1>1. PayloadFor(ctx, pumps, running).overrides = Overridden(ctx.previous, new)
  BY DEF PayloadFor
<1>2. DOMAIN new = pumps /\ (pump \in pumps => new[pump].status = IF pump \in DOMAIN ctx.previous THEN ctx.previous[pump].status ELSE None)
      /\ (pump \in pumps => new[pump].speed = IF pump \in DOMAIN ctx.previous THEN ctx.previous[pump].speed ELSE None)
  BY DEF OverridesFor
<1>3. Overridden(ctx.previous, new)[pump] = IF pump \in pumps THEN new[pump] ELSE ctx.previous[pump]
  <2> HIDE DEF new
  <2> QED
    BY <1>2 DEF Overridden
<1> QED
  BY <1>1, <1>2, <1>3

\* JourneyIsTheLine, for a context that is accepted.
LEMMA TripIsTheLine ==
    ASSUME NEW net, IsStored(net), NetworkErrors(net) = {}, ~PassedTwice(net), NEW line, line = SectionsOn(net),
           NEW ctx, ctx.path \in Seq(Range(ctx.path)), ContextIsSound(net, ctx),
           NEW trip, trip.ctx = ctx, trip.payload = JourneyAlong(net, line, ctx)
    PROVE  JourneyIsTheLine(net, line, trip)
<1> DEFINE n == Len(net.edges)
           candidates == PumpsOnPath(net, ctx)
           kept == PathPumps(net, ctx, candidates)
<1>1. /\ ctx.source = NodeAt(net, 1) /\ ctx.destination = NodeAt(net, n + 1)
      /\ ctx.path = [i \in DOMAIN net.edges |-> net.edges[i].id]
      /\ Ids(net.nodes) \subseteq PassedBy(net, ctx, Len(ctx.path))
  BY PathIsTheChain
<1>2. line.origin = ctx.sourceTank /\ line.destination = ctx.destinationTank
  <2>1. /\ line.origin = BoundaryTank(net, Head(net.edges).from)
        /\ line.destination = BoundaryTank(net, Last(net.edges).to)
    BY LineRows
  <2>2. /\ n \in Nat \ {0} /\ Head(net.edges) = net.edges[1] /\ Last(net.edges) = net.edges[n]
        /\ net.edges[1].from = NodeAt(net, 1) /\ net.edges[n].to = NodeAt(net, n + 1)
    BY AcceptedRows, StopsApart
  <2>3. /\ {ctx.source, ctx.destination} \subseteq Ids(net.nodes)
        /\ JoinsTank(net, ctx.source, ctx.sourceTank) /\ JoinsTank(net, ctx.destination, ctx.destinationTank)
    BY DEF ContextIsSound
  <2>4. BoundaryTank(net, ctx.source) = ctx.sourceTank /\ BoundaryTank(net, ctx.destination) = ctx.destinationTank
    BY <2>3, TanksAreEnds
  <2> QED
    BY <1>1, <2>1, <2>2, <2>4
<1>3. \A r, q \in Range(net.assets) : (r.code = q.code \/ r.id = q.id => r = q) /\ Named(net.assets, r.id) = r
  BY KeysOfRows DEF IsStored
<1>4. candidates \subseteq Range(net.assets)
  BY DEF PumpsOnPath
<1>5. \A id \in ctx.pumps : \E a \in candidates : a.id = id /\ Named(net.assets, id) = a
  <2> TAKE id \in ctx.pumps
  <2>1. id \in {a.id : a \in candidates}
    BY DEF ContextIsSound, SelectionIsSound
  <2> QED
    BY <1>3, <1>4, <2>1
<1>6. ASSUME NEW a \in Range(net.assets), a.code \in LinePumps(line)
      PROVE  trip.payload.overrides[a.code].running
                 <=> (a.role \in {"main", "standby"} /\ (ctx.pumps = {} \/ a.id \in ctx.pumps))
  <2>1. trip.payload = PayloadFor(ctx, LinePumps(line), {b.code : b \in kept})
    BY DEF JourneyAlong
  <2>2. a \in candidates <=> a.role \in {"main", "standby"}
    BY <1>1, <1>6, PumpsOfLine DEF PumpsOnPath
  <2>3. kept \subseteq Range(net.assets)
    BY <1>4, <1>5 DEF PathPumps
  <2>4. a \in kept <=> a \in candidates /\ (ctx.pumps = {} \/ a.id \in ctx.pumps)
    <3>1. CASE ctx.pumps = {}
      BY <3>1 DEF PathPumps
    <3>2. CASE ctx.pumps # {}
      <4>1. kept = {Named(net.assets, id) : id \in ctx.pumps}
        BY <3>2 DEF PathPumps
      <4>2. a \in kept => a \in candidates /\ a.id \in ctx.pumps
        BY <1>5, <4>1
      <4>3. a.id \in ctx.pumps => a \in kept
        BY <1>3, <4>1
      <4> QED
        BY <3>2, <4>2, <4>3
    <3> QED
      BY <3>1, <3>2
  <2>5. a.code \in {b.code : b \in kept} <=> a \in kept
    BY <1>3, <2>3
  <2> DEFINE running == {b.code : b \in kept}
  <2>6. trip.payload.overrides[a.code].running <=> a.code \in running
    <3> HIDE DEF running
    <3>1. trip.payload = PayloadFor(ctx, LinePumps(line), running)
      BY <2>1 DEF running
    <3>2. PayloadFor(ctx, LinePumps(line), running).overrides[a.code].running <=> a.code \in running
      BY <1>6, OverridesRun
    <3> QED
      BY <3>1, <3>2
  <2> QED
    BY <2>2, <2>4, <2>5, <2>6
<1>7. ASSUME NEW pump \in LinePumps(line) \cup DOMAIN ctx.previous
      PROVE  StateBefore(trip, pump) = <<trip.payload.overrides[pump].status, trip.payload.overrides[pump].speed>>
  <2> DEFINE on  == LinePumps(line)
             run == {b.code : b \in kept}
  <2>1. trip.payload = PayloadFor(ctx, on, run)
    BY DEF JourneyAlong
  <2>2. pump \in on \cup DOMAIN ctx.previous
    BY <1>7
  <2> HIDE DEF on, run
  <2> DEFINE state == PayloadFor(ctx, on, run).overrides[pump]
  <2>3. <<state.status, state.speed>> =
            IF pump \in DOMAIN ctx.previous THEN <<ctx.previous[pump].status, ctx.previous[pump].speed>> ELSE <<None, None>>
    BY ONLY <2>2, OverridesKeep
  <2> QED
    BY <2>1, <2>3 DEF StateBefore
<1> QED
  BY <1>1, <1>2, <1>6, <1>7 DEF JourneyIsTheLine

\* What is assembled of a network that is accepted, and what a transfer computes of it.
LEMMA AssembledAsDrawn == NetworksFollow => NetworksAreComputedAsDrawn
<1> SUFFICES ASSUME NetworksFollow, sections \notin {None, Refused}
             PROVE  /\ IsOneLine(sections)
                    /\ PassedTwice(site) \/ PlacedOnLine(site, sections)
                    /\ PumpsAreAssembled(site, sections)
                    /\ journey = None \/ PassedTwice(site) \/ journey.payload = Refused
                           \/ JourneyIsTheLine(site, sections, journey)
  BY DEF NetworksAreComputedAsDrawn
<1>1. site \in Networks /\ sections = SectionsOf(site)
  BY DEF NetworksFollow
<1>2. IsStored(site)
  BY <1>1, NetworkAssumption
<1>3. NetworkErrors(site) = {} /\ sections = SectionsOn(site)
  BY <1>1 DEF SectionsOf
<1>4. IsOneLine(sections)
  BY <1>2, <1>3, LineIsOne
<1>5. PassedTwice(site) \/ PlacedOnLine(site, sections)
  BY <1>2, <1>3, LineIsPlaced
<1>6. PumpsAreAssembled(site, sections)
  BY <1>2, <1>3, LineIsAssembled
<1>7. ASSUME journey # None, ~PassedTwice(site), journey.payload # Refused
      PROVE  JourneyIsTheLine(site, sections, journey)
  <2>1. PICK ctx \in Contexts(site) : journey = [ctx |-> ctx, payload |-> JourneyOf(site, sections, ctx)]
    BY <1>7 DEF NetworksFollow
  <2>2. ctx.path \in Seq(Range(ctx.path))
    BY <1>1, NetworkAssumption
  <2>3. journey.ctx = ctx /\ journey.payload = JourneyOf(site, sections, ctx)
    BY <2>1
  <2>4. ContextIsSound(site, ctx) /\ journey.payload = JourneyAlong(site, sections, ctx)
    BY <1>7, <2>3 DEF JourneyOf
  <2> QED
    BY <1>2, <1>3, <1>7, <2>2, <2>3, <2>4, TripIsTheLine
<1> QED
  BY <1>4, <1>5, <1>6, <1>7

\* NetworksAreComputedAsDrawn for every set of networks, of items and of contexts: the sections
\* of an accepted network are one line, its equipment is where it was drawn, and an accepted
\* transfer computes that line.
THEOREM NetworksAreDrawn == NetworkSpec => []NetworksAreComputedAsDrawn
<1>1. NetworksFollow /\ [NetworkNext]_networkVars => NetworksFollow'
  BY NetworksStep
<1> QED
  BY NetworksStart, <1>1, AssembledAsDrawn, PTL DEF NetworkSpec

(***************************************************************************)
(* Transfers: volumes, limits and reasons.                                 *)
(***************************************************************************)

\* Integer division, as the steps of a transfer use it.
LEMMA Quotient ==
    ASSUME NEW a \in Nat, NEW b \in Nat \ {0}
    PROVE  a \div b \in Nat /\ (a \div b) * b <= a
BY Z3

LEMMA QuotientBounded ==
    ASSUME NEW a \in Nat, NEW b \in Nat \ {0}, NEW c \in Nat, a <= b * c
    PROVE  a \div b <= c
BY Z3

\* What the losses leave.
LEMMA Kept ==
    ASSUME NEW w \in Nat, NEW keep \in {1, 2}
    PROVE  /\ w \div keep \in Nat /\ w \div keep <= w
           /\ \A m \in Nat : w <= m * keep => w \div keep <= m
           /\ \A m \in Nat : w = m * keep => w \div keep = m
BY Z3

\* A step takes no longer than its length.
LEMMA ElapsedBounded ==
    ASSUME NEW flow \in Nat \ {0}, NEW dt \in Nat, NEW ticks \in Nat \ {0},
           NEW w \in Nat, w <= (flow * dt) \div ticks
    PROVE  (w * ticks) \div flow \in Nat /\ (w * ticks) \div flow <= dt
<1>1. flow * dt \in Nat /\ w * ticks \in Nat
  OBVIOUS
<1>2. ((flow * dt) \div ticks) \in Nat /\ ((flow * dt) \div ticks) * ticks <= flow * dt
  BY <1>1, Quotient
<1> DEFINE p == (flow * dt) \div ticks
<1>3. w * ticks <= p * ticks
  <2> HIDE DEF p
  <2> SUFFICES ASSUME p \in Nat, w <= p PROVE w * ticks <= p * ticks
    BY <1>2 DEF p
  <2> QED
    BY Z3
<1>4. w * ticks <= flow * dt
  <2> HIDE DEF p
  <2> SUFFICES ASSUME p \in Nat, p * ticks <= flow * dt PROVE w * ticks <= flow * dt
    BY <1>2 DEF p
  <2> QED
    BY <1>1, <1>3
<1> QED
  BY <1>1, <1>4, Quotient, QuotientBounded

-----------------------------------------------------------------------------
\* The request of a transfer that runs passed the checks.
RequestInv ==
    /\ request # None => request \in Requests
    /\ stage = "running" => RequestIsSound(request) /\ Feasible(request)
    /\ cached # None => cached.point.flow \in Int

\* The target is ahead of a transfer that runs.
TargetAhead ==
    stage = "running" =>
        /\ request.kind = "volume" => withdrawn <= request.target
        /\ request.kind = "level" => destination <= VolumeAt(request.destination, request.target)
        /\ request.kind = "duration" => clock <= request.target

\* A record is that of a transfer that has stopped, and its balance that of its volumes.
RecordInv ==
    record # None =>
        /\ stage = "done"
        /\ record = [status |-> record.status, balance |-> record.balance]
        /\ record.balance = None \/ \E e \in Gaugings : record.balance = BalanceOf(e)

\* Nothing has moved before the start.
Fresh ==
    stage = "idle" =>
        /\ withdrawn = 0 /\ received = 0 /\ losses = 0 /\ clock = 0
        /\ evaluations = 0 /\ cached = None /\ record = None

\* All that a simulated transfer owes its request, and that a stop keeps.
VolumesInv == TransferConserves /\ TransferWithinLimits /\ StopIsTrue

TransferInv == TransferTypeOK /\ Fresh /\ RequestInv /\ TargetAhead /\ VolumesInv /\ RecordInv

LEMMA Requested ==
    ASSUME NEW r \in Requests
    PROVE  /\ r # None /\ r.coupled \in BOOLEAN
           /\ CurrentVolume(r.source) \in Nat /\ SourceLimit(r.source) \in Nat
           /\ CurrentVolume(r.destination) \in Nat /\ HighHighVolume(r.destination) \in Nat
           /\ r.flow \in Int /\ r.step \in Int /\ r.target \in Int /\ r.maxDuration \in Int
           /\ r.budget \in Nat \ {0} /\ r.keep \in {1, 2} /\ r.kind \in {"volume", "level", "duration"}
           /\ r.maxFlow \in Int \cup {None} /\ None \notin Int
           /\ Ticks \in Nat \ {0}
BY TransferAssumption, ReasonAssumption

\* A request that passes the checks is positive, and its limits are ahead.
LEMMA Planned0 ==
    ASSUME NEW r \in Requests, RequestIsSound(r), Feasible(r)
    PROVE  /\ r.flow > 0 /\ r.target > 0 /\ r.step > 0 /\ r.maxDuration > 0
           /\ CurrentVolume(r.source) >= SourceLimit(r.source)
           /\ CurrentVolume(r.destination) <= HighHighVolume(r.destination)
           /\ r.kind = "level" => /\ VolumeAt(r.destination, r.target) \in Int
                                  /\ CurrentVolume(r.destination) <= VolumeAt(r.destination, r.target)
<1>1. r.flow > 0 /\ r.target > 0 /\ r.step > 0 /\ r.maxDuration > 0
  BY Requested DEF RequestIsSound
<1> DEFINE w == PlannedWithdrawal(r)
<1>2. w \in Int /\ w >= r.keep /\ w # None /\ w > 0 /\ w >= 1
  BY PlanAssumption, Requested
<1>3. w <= PumpableVolume(r.source) /\ w \div r.keep <= AvailableCapacity(r.destination)
  BY <1>2 DEF Feasible, VolumesSuffice
<1>4. w \div r.keep >= 1
  <2> HIDE DEF w
  <2> SUFFICES ASSUME NEW k \in {1, 2}, r.keep = k PROVE w \div k >= 1
    BY Requested
  <2> QED
    BY <1>2, Z3
<1>5. CurrentVolume(r.source) >= SourceLimit(r.source)
  BY <1>2, <1>3, Requested DEF PumpableVolume, Above0
<1>6. CurrentVolume(r.destination) <= HighHighVolume(r.destination)
  <2> HIDE DEF w
  <2>1. w \div r.keep \in Int
    BY <1>2, Requested, Z3
  <2> QED
    BY <1>3, <1>4, <2>1, Requested DEF AvailableCapacity, Above0
<1>7. ASSUME r.kind = "level"
      PROVE  /\ VolumeAt(r.destination, r.target) \in Int
             /\ CurrentVolume(r.destination) <= VolumeAt(r.destination, r.target)
  <2>1. VolumeAt(r.destination, r.target) \in Int
    BY <1>7, PlanAssumption
  <2>2. w = Above0(VolumeAt(r.destination, r.target) - CurrentVolume(r.destination)) * r.keep
    BY <1>2, <1>7 DEF PlannedWithdrawal
  <2>3. Above0(VolumeAt(r.destination, r.target) - CurrentVolume(r.destination)) > 0
    BY <1>2, <2>1, <2>2, Requested DEF Above0
  <2> QED
    BY <2>1, <2>3, Requested DEF Above0
<1> QED
  BY <1>1, <1>5, <1>6, <1>7

-----------------------------------------------------------------------------
LEMMA TransferStarts == TransferInit => TransferInv
BY ReasonAssumption DEF TransferInit, TransferInv, TransferTypeOK, Fresh, RequestInv, TargetAhead, VolumesInv,
    TransferConserves, TransferWithinLimits, StopIsTrue, RecordInv, TransferReasons

LEMMA BeginKeepsInv ==
    ASSUME TransferInv, NEW r \in Requests, BeginTransfer(r)
    PROVE  TransferInv'
<1> USE DEF TransferInv
<1>1. /\ stage = "idle" /\ request' = r /\ r # None
      /\ source' = CurrentVolume(r.source) /\ destination' = CurrentVolume(r.destination)
      /\ withdrawn' = withdrawn /\ received' = received /\ losses' = losses /\ clock' = clock
      /\ evaluations' = evaluations /\ cached' = cached /\ record' = record
  BY Requested DEF BeginTransfer, resolverVars
<1>2. withdrawn = 0 /\ received = 0 /\ losses = 0 /\ clock = 0 /\ evaluations = 0 /\ cached = None /\ record = None
  BY <1>1 DEF Fresh
<1>3. TransferConserves' /\ RecordInv' /\ Fresh'
  <2>1. stage' # "idle"
    BY DEF BeginTransfer
  <2> QED
    BY <1>1, <1>2, <2>1, Requested DEF TransferConserves, RecordInv, Fresh
<1>4. CASE RequestIsSound(r) /\ Feasible(r)
  <2>1. stage' = "running" /\ reason' = None
    BY <1>4 DEF BeginTransfer
  <2>2. TransferTypeOK'
    BY <1>1, <1>2, <2>1, Requested, ReasonAssumption DEF TransferTypeOK
  <2>3. RequestInv'
    BY <1>1, <1>2, <1>4 DEF RequestInv
  <2>4. TargetAhead' /\ TransferWithinLimits' /\ StopIsTrue'
    BY <1>1, <1>2, <1>4, <2>1, Requested, Planned0, ReasonAssumption
       DEF TargetAhead, TransferWithinLimits, StopIsTrue, TransferReasons
  <2> QED
    BY <1>3, <2>2, <2>3, <2>4 DEF VolumesInv
<1>5. CASE ~(RequestIsSound(r) /\ Feasible(r))
  <2>1. stage' = "done" /\ reason' \in {"refused", "not_feasible"}
    BY <1>5 DEF BeginTransfer
  <2>2. TransferTypeOK'
    BY <1>1, <1>2, <2>1, Requested, ReasonAssumption DEF TransferTypeOK, TransferReasons
  <2>3. RequestInv' /\ TargetAhead' /\ TransferWithinLimits' /\ StopIsTrue'
    BY <1>1, <1>2, <2>1 DEF RequestInv, TargetAhead, TransferWithinLimits, StopIsTrue
  <2> QED
    BY <1>3, <2>2, <2>3 DEF VolumesInv
<1> QED
  BY <1>4, <1>5

-----------------------------------------------------------------------------
\* The gaps of a transfer that runs.
LEMMA GapsAhead ==
    ASSUME TransferInv, stage = "running"
    PROVE  /\ request \in Requests /\ RequestIsSound(request) /\ Feasible(request)
           /\ SourceGap(request) = source - SourceLimit(request.source) /\ SourceGap(request) \in Nat
           /\ HighHighVolume(request.destination) - destination \in Nat
           /\ DestinationGap(request) = (HighHighVolume(request.destination) - destination) * request.keep
           /\ DestinationGap(request) \in Nat
           /\ request.kind = "volume" => TargetGap(request) = request.target - withdrawn /\ TargetGap(request) \in Nat
           /\ request.kind = "level" =>
                 /\ VolumeAt(request.destination, request.target) - destination \in Nat
                 /\ TargetGap(request) = (VolumeAt(request.destination, request.target) - destination) * request.keep
                 /\ TargetGap(request) \in Nat
<1> USE DEF TransferInv
<1>1. request \in Requests /\ RequestIsSound(request) /\ Feasible(request)
  BY DEF TransferTypeOK, RequestInv
<1>2. {source, destination, withdrawn} \subseteq Nat
  BY DEF TransferTypeOK
<1>3. source >= SourceLimit(request.source) /\ destination <= HighHighVolume(request.destination)
  BY ReasonAssumption DEF VolumesInv, TransferWithinLimits, TransferTypeOK, TransferReasons
<1>4. HighHighVolume(request.destination) - destination \in Nat
  BY <1>1, <1>2, <1>3, Requested
<1>5. DestinationGap(request) = (HighHighVolume(request.destination) - destination) * request.keep
  BY <1>4 DEF DestinationGap, Above0
<1>6. SourceGap(request) = source - SourceLimit(request.source) /\ SourceGap(request) \in Nat
  BY <1>1, <1>2, <1>3, Requested DEF SourceGap, Above0
<1>7. request.kind = "volume" => TargetGap(request) = request.target - withdrawn /\ TargetGap(request) \in Nat
  BY <1>1, <1>2, Requested DEF TargetAhead, TargetGap, Above0
<1>8. ASSUME request.kind = "level"
      PROVE  /\ VolumeAt(request.destination, request.target) - destination \in Nat
             /\ TargetGap(request) = (VolumeAt(request.destination, request.target) - destination) * request.keep
  <2>1. VolumeAt(request.destination, request.target) - destination \in Nat
    BY <1>1, <1>2, <1>8, Planned0 DEF TargetAhead
  <2> QED
    BY <1>8, <2>1 DEF TargetGap, Above0
<1> QED
  BY <1>1, <1>4, <1>5, <1>6, <1>7, <1>8, Requested

\* What a step moves is within every gap, and takes no longer than the step.
LEMMA MovedWithin ==
    ASSUME TransferInv, stage = "running", clock < request.maxDuration, NEW flow \in Int, flow > 0
    PROVE  /\ Moved(request, flow) \in Nat
           /\ Moved(request, flow) <= SourceGap(request) /\ Moved(request, flow) <= DestinationGap(request)
           /\ request.kind # "duration" => Moved(request, flow) <= TargetGap(request)
           /\ Gap(request) <= Planned(request, flow) => Moved(request, flow) = Gap(request)
           /\ (Moved(request, flow) * Ticks) \div flow \in Nat
           /\ (Moved(request, flow) * Ticks) \div flow <= StepLength(request)
           /\ StepLength(request) \in Nat
           /\ request.kind = "duration" => StepLength(request) <= request.target - clock
<1> DEFINE r == request
           dt == StepLength(r)
           p == Planned(r, flow)
           w == Moved(r, flow)
<1>1. r \in Requests /\ RequestIsSound(r) /\ Feasible(r) /\ clock \in Nat
  BY GapsAhead DEF TransferInv, TransferTypeOK
<1>2. dt \in Nat /\ (r.kind = "duration" => dt <= r.target - clock)
  <2>1. r.step \in Nat /\ r.maxDuration - clock \in Nat
    BY <1>1, Planned0, Requested
  <2>2. r.kind = "duration" => r.target - clock \in Nat
    BY <1>1, Requested DEF TransferInv, TargetAhead
  <2> QED
    BY <2>1, <2>2 DEF StepLength, Least, Above0
<1>3. p \in Nat
  <2>1. flow * dt \in Nat
    BY <1>2
  <2> QED
    BY <2>1, Quotient, Requested, <1>1 DEF Planned
<1>4. LimitGap(r) \in Nat /\ LimitGap(r) <= SourceGap(r) /\ LimitGap(r) <= DestinationGap(r)
  BY GapsAhead DEF LimitGap, Least
<1>5. /\ Gap(r) \in Nat /\ Gap(r) <= LimitGap(r)
      /\ r.kind # "duration" => Gap(r) <= TargetGap(r)
  <2>1. r.kind # "duration" => TargetGap(r) \in Nat
    BY <1>1, GapsAhead, Requested
  <2> QED
    BY <1>4, <2>1 DEF Gap, Least
<1>6. w \in Nat /\ w <= p /\ w <= Gap(r) /\ (Gap(r) <= p => w = Gap(r))
  BY <1>3, <1>5 DEF Moved, Least
<1>7. (w * Ticks) \div flow \in Nat /\ (w * Ticks) \div flow <= dt
  <2>1. w <= (flow * dt) \div Ticks
    BY <1>6 DEF Planned
  <2>2. Ticks \in Nat \ {0} /\ flow \in Nat \ {0}
    BY Requested, <1>1
  <2> HIDE DEF w, dt
  <2> QED
    BY <1>2, <1>6, <2>1, <2>2, ElapsedBounded
<1>8. w <= SourceGap(r) /\ w <= DestinationGap(r)
  BY <1>4, <1>5, <1>6, GapsAhead
<1>9. r.kind # "duration" => w <= TargetGap(r)
  BY <1>1, <1>5, <1>6, GapsAhead, Requested
<1> QED
  BY <1>2, <1>6, <1>7, <1>8, <1>9

\* The smallest gap is the one the reason names.
LEMMA LimitNamed ==
    ASSUME TransferInv, stage = "running"
    PROVE  /\ LimitingReason(request) \in {"target_volume_reached", "target_level_reached", "source_low_level",
                                            "destination_high_level"}
           /\ LimitingReason(request) = "target_volume_reached" =>
                 request.kind = "volume" /\ Gap(request) = TargetGap(request)
           /\ LimitingReason(request) = "target_level_reached" =>
                 request.kind = "level" /\ Gap(request) = TargetGap(request)
           /\ LimitingReason(request) = "source_low_level" => Gap(request) = SourceGap(request)
           /\ LimitingReason(request) = "destination_high_level" => Gap(request) = DestinationGap(request)
<1>1. request.kind \in {"volume", "level", "duration"}
  BY GapsAhead, Requested
<1>2. /\ SourceGap(request) \in Nat /\ DestinationGap(request) \in Nat
      /\ request.kind # "duration" => TargetGap(request) \in Nat
  BY <1>1, GapsAhead
<1>3. CASE request.kind # "duration" /\ TargetGap(request) <= LimitGap(request)
  BY <1>1, <1>2, <1>3 DEF LimitingReason, Gap, LimitGap, Least
<1>4. CASE ~(request.kind # "duration" /\ TargetGap(request) <= LimitGap(request))
  BY <1>1, <1>2, <1>4 DEF LimitingReason, Gap, LimitGap, Least
<1> QED
  BY <1>3, <1>4

-----------------------------------------------------------------------------
\* What a step leaves to be shown: types and volumes.
StepKeeps ==
    /\ TransferConserves' /\ TransferWithinLimits' /\ StopIsTrue' /\ TargetAhead'
    /\ {source', destination', withdrawn', received', losses', clock'} \subseteq Nat
    /\ stage' \in {"running", "done"} /\ (stage' = "done" <=> reason' # None)
    /\ reason' \in TransferReasons \cup {None}

LEMMA AdvanceKeeps ==
    ASSUME TransferInv, stage = "running", clock < request.maxDuration,
           NEW flow \in Int, flow > 0, Advance(request, flow), request' = request
    PROVE  StepKeeps
<1> DEFINE w == Moved(request, flow)
           g == w \div request.keep
           elapsed == (w * Ticks) \div flow
<1>1. /\ request \in Requests /\ request # None /\ request.keep \in {1, 2}
      /\ request.target \in Int /\ request.kind \in {"volume", "level", "duration"}
  BY GapsAhead, Requested
<1>2. /\ source' = source - w /\ destination' = destination + g
      /\ withdrawn' = withdrawn + w /\ received' = received + g /\ losses' = losses + (w - g)
      /\ clock' = clock + elapsed /\ reason' = Reached(request, flow)
      /\ stage' = IF reason' = None THEN "running" ELSE "done"
  BY DEF Advance
<1>3. /\ {source, destination, withdrawn, received, losses, clock} \subseteq Nat
      /\ TransferConserves /\ TargetAhead
  BY DEF TransferInv, TransferTypeOK, VolumesInv
<1>4. /\ w \in Nat /\ w <= SourceGap(request) /\ w <= DestinationGap(request)
      /\ request.kind # "duration" => w <= TargetGap(request)
      /\ Gap(request) <= Planned(request, flow) => w = Gap(request)
      /\ elapsed \in Nat /\ elapsed <= StepLength(request) /\ StepLength(request) \in Nat
      /\ request.kind = "duration" => StepLength(request) <= request.target - clock
  BY MovedWithin
<1>5. /\ g \in Nat /\ g <= w
      /\ \A m \in Nat : w <= m * request.keep => g <= m
      /\ \A m \in Nat : w = m * request.keep => g = m
  <2> HIDE DEF w
  <2> QED
    BY <1>1, <1>4, Kept
<1> HIDE DEF w, g, elapsed
<1>6. {source', destination', withdrawn', received', losses', clock'} \subseteq Nat
  <2>1. w <= source
    BY <1>1, <1>3, <1>4, GapsAhead, Requested
  <2> QED
    BY <1>2, <1>3, <1>4, <1>5, <2>1
<1>7. TransferConserves'
  <2>1. CurrentVolume(request.source) \in Int /\ CurrentVolume(request.destination) \in Int
    BY <1>1, Requested
  <2> QED
    BY <1>1, <1>2, <1>3, <1>4, <1>5, <2>1 DEF TransferConserves
<1>8. TransferWithinLimits'
  <2>1. source' >= SourceLimit(request.source)
    BY <1>1, <1>2, <1>3, <1>4, GapsAhead, Requested
  <2>2. g <= HighHighVolume(request.destination) - destination
    BY <1>4, <1>5, GapsAhead
  <2>3. destination' <= HighHighVolume(request.destination)
    BY <1>1, <1>2, <1>3, <1>5, <2>2, Requested
  <2> QED
    BY <2>1, <2>3 DEF TransferWithinLimits
\* Each target is approached and not passed.
<1>9. TargetAhead'
  <2>1. request.kind = "volume" => withdrawn' <= request.target
    BY <1>1, <1>2, <1>3, <1>4, GapsAhead
  <2>2. ASSUME request.kind = "level"
        PROVE  destination' <= VolumeAt(request.destination, request.target)
    <3>1. VolumeAt(request.destination, request.target) \in Int
      BY <1>1, <2>2, GapsAhead, PlanAssumption
    <3>2. g <= VolumeAt(request.destination, request.target) - destination
      BY <1>4, <1>5, <2>2, GapsAhead
    <3> QED
      BY <1>2, <1>3, <1>5, <3>1, <3>2
  <2>3. request.kind = "duration" => clock' <= request.target
    BY <1>1, <1>2, <1>3, <1>4
  <2> QED
    BY <2>1, <2>2, <2>3 DEF TargetAhead
<1>10. CASE Gap(request) <= Planned(request, flow)
  <2>1. reason' = LimitingReason(request) /\ w = Gap(request)
    BY <1>2, <1>4, <1>10 DEF Reached
  <2>2. reason' \in TransferReasons /\ reason' # None /\ stage' = "done"
    BY <1>2, <2>1, LimitNamed, ReasonAssumption DEF TransferReasons
  <2>3. reason' = "target_volume_reached" => withdrawn' = request.target
    BY <1>1, <1>2, <1>3, <2>1, LimitNamed, GapsAhead
  <2>4. ASSUME reason' = "target_level_reached"
        PROVE  destination' = VolumeAt(request.destination, request.target)
    <3>1. /\ request.kind = "level" /\ w = TargetGap(request)
          /\ VolumeAt(request.destination, request.target) \in Int
      BY <1>1, <2>1, <2>4, LimitNamed, GapsAhead, PlanAssumption
    <3>2. g = VolumeAt(request.destination, request.target) - destination
      BY <1>5, <3>1, GapsAhead
    <3> QED
      BY <1>2, <1>3, <3>1, <3>2
  <2>5. reason' = "source_low_level" => source' = SourceLimit(request.source)
    BY <1>1, <1>2, <1>3, <2>1, LimitNamed, GapsAhead, Requested
  <2>6. ASSUME reason' = "destination_high_level"
        PROVE  destination' = HighHighVolume(request.destination)
    <3>1. g = HighHighVolume(request.destination) - destination
      BY <1>5, <2>1, <2>6, LimitNamed, GapsAhead
    <3> QED
      BY <1>1, <1>2, <1>3, <3>1, Requested
  <2>7. reason' # "duration_reached"
    BY <2>1, LimitNamed
  <2> QED
    BY <1>6, <1>7, <1>8, <1>9, <2>2, <2>3, <2>4, <2>5, <2>6, <2>7 DEF StepKeeps, StopIsTrue
<1>11. CASE ~(Gap(request) <= Planned(request, flow))
  <2>1. /\ reason' \in {"duration_reached", "hydraulic_constraint", None}
        /\ reason' = "duration_reached" =>
              /\ request.kind = "duration" /\ request.target - clock <= StepLength(request)
              /\ StepLength(request) <= elapsed
    BY <1>2, <1>11, ReasonAssumption DEF Reached, TransferReasons, elapsed, w
  <2>2. reason' = "duration_reached" => clock' = request.target
    BY <1>1, <1>2, <1>3, <1>4, <2>1
  <2>3. StopIsTrue'
    BY <1>1, <2>1, <2>2, ReasonAssumption DEF StopIsTrue, TransferReasons
  <2>4. reason' \in TransferReasons \cup {None} /\ stage' \in {"running", "done"} /\ (stage' = "done" <=> reason' # None)
    BY <1>2, <2>1 DEF TransferReasons
  <2> QED
    BY <1>6, <1>7, <1>8, <1>9, <2>3, <2>4 DEF StepKeeps
<1> QED
  BY <1>10, <1>11

\* A transfer that stops without a move.
LEMMA StopKeeps ==
    ASSUME TransferInv, stage = "running", Stop("hydraulic_constraint"), request' = request
    PROVE  StepKeeps
<1>1. /\ stage' = "done" /\ reason' = "hydraulic_constraint" /\ source' = source /\ destination' = destination
      /\ withdrawn' = withdrawn /\ received' = received /\ losses' = losses /\ clock' = clock
  BY DEF Stop, volumeVars
<1>2. /\ {source, destination, withdrawn, received, losses, clock} \subseteq Nat
      /\ TransferConserves /\ TransferWithinLimits /\ reason = None
  BY DEF TransferInv, TransferTypeOK, VolumesInv
<1>3. TransferConserves' /\ TransferWithinLimits' /\ StopIsTrue' /\ TargetAhead'
  BY <1>1, <1>2, ReasonAssumption DEF TransferConserves, TransferWithinLimits, StopIsTrue, TargetAhead, TransferReasons
<1> QED
  BY <1>1, <1>2, <1>3, ReasonAssumption DEF StepKeeps, TransferReasons

-----------------------------------------------------------------------------
\* A step is one of two: it moves a volume, or it stops.
LEMMA StepAtKeeps ==
    ASSUME TransferInv, stage = "running", clock < request.maxDuration, request' = request,
           NEW point, point.flow \in Int, StepAt(point)
    PROVE  StepKeeps
<1>1. CASE Blocked(request, point)
  BY <1>1, StopKeeps DEF StepAt
<1>2. CASE ~Blocked(request, point)
  BY <1>2, AdvanceKeeps DEF StepAt, Blocked
<1> QED
  BY <1>1, <1>2

\* The engine is called within its budget, and its points have a flow.
LEMMA SimulationStepKeeps ==
    ASSUME TransferInv, SimulationStep
    PROVE  /\ StepKeeps /\ request' = request /\ stage = "running"
           /\ evaluations' \in Nat /\ evaluations' <= request.budget
           /\ cached' # None => cached'.point.flow \in Int
<1>1. stage = "running" /\ request' = request
  BY DEF SimulationStep, MoveAtImposedFlow, MoveAtCachedPoint, MoveAtComputedPoint, EngineFails, RunOutOfTime,
         CallsEngine, Running
<1>2. /\ request \in Requests /\ request.budget \in Nat /\ request.flow \in Int /\ request.maxFlow \in Int \cup {None}
      /\ evaluations \in Nat /\ evaluations <= request.budget
      /\ cached # None => cached.point.flow \in Int
  BY <1>1, GapsAhead, Requested DEF TransferInv, TransferTypeOK, RequestInv
<1>3. CASE MoveAtImposedFlow
  <2> DEFINE point == [flow |-> request.flow, feasible |-> TRUE]
  <2>1. StepAt(point) /\ point.flow \in Int /\ clock < request.maxDuration
    BY <1>2, <1>3 DEF MoveAtImposedFlow, Running
  <2>2. StepKeeps
    BY <1>1, <2>1, StepAtKeeps
  <2> QED
    BY <1>1, <1>2, <1>3, <2>2 DEF MoveAtImposedFlow, resolverVars
<1>4. CASE MoveAtCachedPoint
  <2>1. /\ StepAt(cached.point) /\ clock < request.maxDuration /\ cached # None
    BY <1>4 DEF MoveAtCachedPoint, Running, CacheIsNear
  <2>2. StepKeeps
    BY <1>1, <1>2, <2>1, StepAtKeeps
  <2> QED
    BY <1>1, <1>2, <1>4, <2>2 DEF MoveAtCachedPoint, resolverVars
<1>5. ASSUME NEW q \in Flows, NEW ok \in BOOLEAN, MoveAtComputedPoint(q, ok)
      PROVE  /\ StepKeeps /\ evaluations' = evaluations + 1 /\ evaluations < request.budget
             /\ cached'.point.flow \in Int
  <2> DEFINE flow == IF request.maxFlow = None THEN q ELSE Least(q, request.maxFlow)
             point == [flow |-> flow, feasible |-> ok /\ flow > 0]
  <2>1. flow \in Int
    BY <1>2, TransferAssumption DEF Least
  <2>2. /\ StepAt(point) /\ clock < request.maxDuration /\ cached' = [levels |-> Levels, point |-> point]
        /\ evaluations' = evaluations + 1 /\ evaluations < request.budget
    BY <1>2, <1>5 DEF MoveAtComputedPoint, CallsEngine, Running
  <2>3. point.flow \in Int /\ cached'.point.flow \in Int
    BY <2>1, <2>2
  <2>4. StepKeeps
    <3> HIDE DEF point
    <3> QED
      BY <1>1, <2>2, <2>3, StepAtKeeps
  <2> QED
    BY <2>2, <2>3, <2>4
<1>6. CASE EngineFails
  <2>1. StepKeeps
    BY <1>1, <1>6, StopKeeps DEF EngineFails
  <2> QED
    BY <1>1, <1>2, <1>6, <2>1 DEF EngineFails, CallsEngine
<1>7. CASE RunOutOfTime
  <2>1. StepKeeps
    BY <1>1, <1>7, StopKeeps DEF RunOutOfTime
  <2> QED
    BY <1>1, <1>2, <1>7, <2>1 DEF RunOutOfTime, resolverVars
<1> QED
  BY <1>1, <1>2, <1>3, <1>4, <1>5, <1>6, <1>7 DEF SimulationStep

LEMMA StepKeepsInv ==
    ASSUME TransferInv, TransferStep
    PROVE  TransferInv'
<1>1. /\ StepKeeps /\ request' = request /\ stage = "running" /\ record' = record
      /\ evaluations' \in Nat /\ evaluations' <= request.budget
      /\ cached' # None => cached'.point.flow \in Int
  BY SimulationStepKeeps DEF TransferStep
<1>2. record = None /\ request \in Requests /\ request # None /\ RequestIsSound(request) /\ Feasible(request)
  BY <1>1, GapsAhead, Requested DEF TransferInv, RecordInv
<1>3. TransferTypeOK'
  BY <1>1, <1>2 DEF TransferTypeOK, StepKeeps
<1>4. Fresh' /\ RequestInv' /\ RecordInv'
  BY <1>1, <1>2 DEF Fresh, RequestInv, RecordInv, StepKeeps
<1> QED
  BY <1>1, <1>3, <1>4 DEF TransferInv, VolumesInv, StepKeeps

LEMMA RecordKeepsInv ==
    ASSUME TransferInv, RecordTransfer \/ ComputeBalance
    PROVE  TransferInv'
<1>1. /\ stage' = stage /\ request' = request /\ reason' = reason /\ source' = source /\ destination' = destination
      /\ withdrawn' = withdrawn /\ received' = received /\ losses' = losses /\ clock' = clock
      /\ evaluations' = evaluations /\ cached' = cached
  BY DEF RecordTransfer, ComputeBalance, volumeVars, resolverVars
<1>2. TransferTypeOK' /\ RequestInv' /\ TargetAhead' /\ VolumesInv'
  BY <1>1 DEF TransferInv, TransferTypeOK, RequestInv, TargetAhead, VolumesInv, TransferConserves,
              TransferWithinLimits, StopIsTrue
<1>3. stage = "done"
  BY DEF RecordTransfer, ComputeBalance, TransferInv, RecordInv
<1>4. RecordInv'
  <2>1. CASE RecordTransfer
    BY <1>1, <1>3, <2>1 DEF RecordTransfer, RecordInv
  <2>2. CASE ComputeBalance
    <3>1. PICK e \in Gaugings : record' = [record EXCEPT !.balance = BalanceOf(e)]
      BY <2>2 DEF ComputeBalance
    <3>2. record = [status |-> record.status, balance |-> record.balance]
      BY <2>2 DEF ComputeBalance, TransferInv, RecordInv
    <3>3. record' = [status |-> record.status, balance |-> BalanceOf(e)]
      BY <3>1, <3>2
    <3>4. BalanceOf(e)' = BalanceOf(e)
      BY <1>1 DEF BalanceOf, Gauged
    <3> QED
      BY <1>1, <1>3, <3>3, <3>4 DEF RecordInv
  <2> QED
    BY <2>1, <2>2
<1> QED
  BY <1>1, <1>2, <1>3, <1>4 DEF TransferInv, Fresh

-----------------------------------------------------------------------------
\* The imbalance of a gauged transfer is what was left out, less what was misread.
LEMMA ImbalanceIsMissing ==
    ASSUME TransferInv, request # None, NEW e \in Gaugings
    PROVE  Imbalance(Gauged(e)) = (IF e.accounted THEN 0 ELSE losses) - e.drift
<1>1. /\ {source, destination, withdrawn, received, losses} \subseteq Nat /\ TransferConserves
  BY DEF TransferInv, TransferTypeOK, VolumesInv
<1>2. /\ CurrentVolume(request.source) \in Int /\ CurrentVolume(request.destination) \in Int
      /\ e.drift \in Int /\ e.accounted \in BOOLEAN
  BY Requested, GaugingAssumption DEF TransferInv, RequestInv
<1>3. /\ Gauged(e).sourceOpening = CurrentVolume(request.source) /\ Gauged(e).sourceClosing = source + e.drift
      /\ Gauged(e).destinationClosing = destination
      /\ Gauged(e).destinationOpening = CurrentVolume(request.destination)
  BY Zenon DEF Gauged
<1>4. Gauged(e).losses = IF e.accounted THEN losses ELSE 0
  BY Zenon DEF Gauged
<1> DEFINE accounted == IF e.accounted THEN losses ELSE 0
<1>5. Imbalance(Gauged(e)) =
        (CurrentVolume(request.source) - (source + e.drift)) - (destination - CurrentVolume(request.destination))
        - accounted
  BY <1>3, <1>4, Zenon DEF Imbalance
<1>6. source = CurrentVolume(request.source) - withdrawn
      /\ destination = CurrentVolume(request.destination) + received /\ withdrawn = received + losses
  BY <1>1 DEF TransferConserves
<1>7. accounted \in Int
  BY <1>1
<1>8. Imbalance(Gauged(e)) = (losses - accounted) - e.drift
  <2> HIDE DEF accounted
  <2> QED
    BY <1>1, <1>2, <1>5, <1>6, <1>7
<1>9. losses - accounted = IF e.accounted THEN 0 ELSE losses
  BY <1>1
<1> QED
  BY <1>8, <1>9

LEMMA BalancesClose ==
    ASSUME TransferInv
    PROVE  BalanceCloses
<1> SUFFICES ASSUME record # None, record.balance # None
             PROVE  LET e       == record.balance.error
                        missing == IF e.accounted THEN 0 ELSE losses
                    IN  /\ e.drift = 0 /\ missing = 0 => record.balance.imbalance = 0 /\ record.balance.closed
                        /\ e.absolute = 0 /\ e.relative = 0 /\ e.uncertainty = 0
                              => (record.balance.closed <=> missing = e.drift)
  BY DEF BalanceCloses
<1>1. PICK e \in Gaugings : record.balance = BalanceOf(e)
  BY DEF TransferInv, RecordInv
<1> DEFINE missing == IF e.accounted THEN 0 ELSE losses
           i == Imbalance(Gauged(e))
           ref == ReferenceVolume(Gauged(e))
<1>2. request # None /\ request \in Requests
  BY DEF TransferInv, RecordInv, TransferTypeOK, RequestInv
<1>3. /\ e.drift \in Int /\ e.accounted \in BOOLEAN
      /\ {e.absolute, e.relative, e.coverage, e.uncertainty} \subseteq Nat /\ losses \in Nat
  BY GaugingAssumption DEF TransferInv, TransferTypeOK
<1>4. i = missing - e.drift /\ missing \in Int
  BY <1>2, <1>3, ImbalanceIsMissing
<1>5. ref \in Nat
  <2>1. {source, destination, withdrawn} \subseteq Nat
    BY DEF TransferInv, TransferTypeOK
  <2>2. CurrentVolume(request.source) \in Int /\ CurrentVolume(request.destination) \in Int
    BY <1>2, Requested
  <2>3. ref = Greatest(Magnitude(withdrawn), Greatest(Magnitude(CurrentVolume(request.source) - (source + e.drift)),
                                                     Magnitude(destination - CurrentVolume(request.destination))))
    BY DEF ReferenceVolume, Gauged
  <2> QED
    BY <1>3, <2>1, <2>2, <2>3 DEF Greatest, Magnitude
<1>6. WithinTolerance(Gauged(e)) <=>
        \/ Magnitude(i) <= e.absolute
        \/ 1000 * Magnitude(i) <= e.relative * ref
        \/ i * i <= e.coverage * e.coverage * 5 * e.uncertainty * e.uncertainty
  BY DEF WithinTolerance, Gauged
<1>7. /\ record.balance.error = e /\ record.balance.imbalance = i
      /\ record.balance.closed = WithinTolerance(Gauged(e))
  BY <1>1 DEF BalanceOf
<1> HIDE DEF i, ref, missing
<1>8. i \in Int
  BY <1>3, <1>4
<1>9. ASSUME e.drift = 0, missing = 0
      PROVE  i = 0 /\ WithinTolerance(Gauged(e))
  <2>1. i = 0
    BY <1>4, <1>9
  <2>2. Magnitude(i) <= e.absolute
    BY <1>3, <2>1 DEF Magnitude
  <2> QED
    BY <1>6, <2>1, <2>2
<1>10. ASSUME e.absolute = 0, e.relative = 0, e.uncertainty = 0
       PROVE  WithinTolerance(Gauged(e)) <=> missing = e.drift
  <2>1. /\ e.relative * ref = 0 /\ e.coverage * e.coverage \in Nat
        /\ e.coverage * e.coverage * 5 * e.uncertainty * e.uncertainty = 0
    BY <1>3, <1>5, <1>10
  <2>2. Magnitude(i) <= 0 <=> i = 0
    BY <1>8 DEF Magnitude
  <2>3. 1000 * Magnitude(i) <= 0 <=> i = 0
    BY <1>8 DEF Magnitude
  <2>4. i * i <= 0 <=> i = 0
    BY <1>8, Z3
  <2>5. i = 0 <=> missing = e.drift
    BY <1>3, <1>4
  <2>6. Magnitude(i) <= e.absolute <=> i = 0
    BY <1>10, <2>2
  <2>7. 1000 * Magnitude(i) <= e.relative * ref <=> i = 0
    BY <2>1, <2>3
  <2>8. i * i <= e.coverage * e.coverage * 5 * e.uncertainty * e.uncertainty <=> i = 0
    BY <2>1, <2>4
  <2>9. ASSUME WithinTolerance(Gauged(e)) PROVE missing = e.drift
    <3>1. i = 0
      BY <1>6, <2>6, <2>7, <2>8, <2>9, ZenonT(40)
    <3> QED
      BY <2>5, <3>1
  <2>10. ASSUME missing = e.drift PROVE WithinTolerance(Gauged(e))
    <3>1. Magnitude(i) <= e.absolute
      BY <2>5, <2>6, <2>10, Zenon
    <3> QED
      BY <1>6, <3>1, Zenon
  <2> QED
    BY <2>9, <2>10, Zenon
<1> QED
  BY <1>7, <1>9, <1>10 DEF missing

-----------------------------------------------------------------------------
LEMMA TransferInvariant == TransferSpec => []TransferInv
<1>1. TransferInit => TransferInv
  BY TransferStarts
<1>2. TransferInv /\ [TransferNext]_transferVars => TransferInv'
  <2> SUFFICES ASSUME TransferInv, [TransferNext]_transferVars PROVE TransferInv'
    OBVIOUS
  <2>1. ASSUME NEW r \in Requests, BeginTransfer(r) PROVE TransferInv'
    BY <2>1, BeginKeepsInv
  <2>2. CASE TransferStep
    BY <2>2, StepKeepsInv
  <2>3. CASE RecordTransfer \/ ComputeBalance
    BY <2>3, RecordKeepsInv
  <2>4. CASE UNCHANGED transferVars
    <3>1. \A e : BalanceOf(e)' = BalanceOf(e)
      BY <2>4 DEF transferVars, volumeVars, BalanceOf, Gauged
    <3> QED
      BY <2>4, <3>1 DEF transferVars, volumeVars, resolverVars, TransferInv, TransferTypeOK, Fresh, RequestInv, TargetAhead,
                        VolumesInv, TransferConserves, TransferWithinLimits, StopIsTrue, RecordInv
  <2> QED
    BY <2>1, <2>2, <2>3, <2>4 DEF TransferNext
<1> QED
  BY <1>1, <1>2, PTL DEF TransferSpec

\* Types, the budget of the engine and the reason of each stop.
THEOREM TransferTypes == TransferSpec => []TransferTypeOK
<1>1. TransferInv => TransferTypeOK
  BY DEF TransferInv
<1> QED
  BY <1>1, TransferInvariant, PTL

\* No volume appears or vanishes, no limit of a tank is passed, every stop is where its reason
\* says, and the balances close.
THEOREM SoundTransfers == TransferSpec => []TransferIsSound
<1>1. TransferInv => TransferIsSound
  BY BalancesClose DEF TransferInv, VolumesInv, TransferIsSound
<1> QED
  BY <1>1, TransferInvariant, PTL

(***************************************************************************)
(* The checks before the start.  Volumes and times are real numbers in the *)
(* code; here they are integers, so what a step moves at an imposed flow,  *)
(* and what its losses leave, must be whole for nothing to be rounded: the *)
(* unit of volume and the tick are small enough for the request.           *)
(***************************************************************************)
Whole(x, keep) == \E n \in Nat : x = n * keep

WholeMoves ==
    \A r \in Requests : ~r.coupled =>
        /\ Whole(r.flow, Ticks)
        /\ Whole(r.step, r.keep) /\ Whole(r.maxDuration, r.keep)
        /\ r.kind # "level" => Whole(r.target, r.keep)

LEMMA WholeLess ==
    ASSUME NEW keep \in {1, 2}, NEW a, Whole(a, keep), NEW b, Whole(b, keep), b <= a
    PROVE  Whole(a - b, keep)
<1>1. PICK m \in Nat : a = m * keep
  BY DEF Whole
<1>2. PICK n \in Nat : b = n * keep
  BY DEF Whole
<1>3. m - n \in Nat /\ a - b = (m - n) * keep
  BY <1>1, <1>2
<1> QED
  BY <1>3 DEF Whole

LEMMA WholeMore ==
    ASSUME NEW keep \in {1, 2}, NEW a, Whole(a, keep), NEW b, Whole(b, keep)
    PROVE  Whole(a + b, keep)
<1>1. PICK m \in Nat : a = m * keep
  BY DEF Whole
<1>2. PICK n \in Nat : b = n * keep
  BY DEF Whole
<1>3. m + n \in Nat /\ a + b = (m + n) * keep
  BY <1>1, <1>2
<1> QED
  BY <1>3 DEF Whole

LEMMA WholeTimes ==
    ASSUME NEW keep \in {1, 2}, NEW a, Whole(a, keep), NEW k \in Nat
    PROVE  Whole(k * a, keep)
<1>1. PICK m \in Nat : a = m * keep
  BY DEF Whole
<1>2. k * m \in Nat
  OBVIOUS
<1>3. k * a = (k * m) * keep
  <2>1. CASE keep = 1
    BY <1>1, <2>1
  <2>2. CASE keep = 2
    BY <1>1, <2>2, Z3
  <2> QED
    BY <2>1, <2>2
<1> QED
  BY <1>2, <1>3 DEF Whole

LEMMA WholeShare ==
    ASSUME NEW keep \in {1, 2}, NEW w, Whole(w, keep)
    PROVE  w \in Nat /\ w \div keep \in Nat /\ (w \div keep) * keep = w
<1>1. PICK n \in Nat : w = n * keep
  BY DEF Whole
<1> QED
  BY <1>1, Z3

LEMMA ExactQuotient ==
    ASSUME NEW a \in Nat, NEW b \in Nat \ {0}
    PROVE  (a * b) \div b = a
<1>1. a * b \in Nat
  OBVIOUS
<1> DEFINE q == (a * b) \div b
<1>2. q \in Nat /\ q * b <= a * b /\ a * b < (q + 1) * b
  BY <1>1, Z3
<1> HIDE DEF q
<1>3. q = a
  BY <1>2, Z3
<1> QED
  BY <1>3 DEF q

LEMMA Scaled ==
    ASSUME NEW k \in Nat, NEW a \in Int, NEW b \in Int
    PROVE  /\ k * (a - b) = k * a - k * b /\ k * (a + b) = k * a + k * b
           /\ a <= b => k * a <= k * b
           /\ k > 0 /\ k * a = k * b => a = b
BY Z3

\* A transfer at an imposed flow: what has moved is what the clock says, and nothing of it
\* was rounded.
OnCourse ==
    stage = "running" /\ ~request.coupled =>
        /\ \A k \in Nat : request.flow = k * Ticks => withdrawn = k * clock
        /\ Whole(clock, request.keep) /\ received * request.keep = withdrawn
        /\ request.kind = "duration" => clock < request.target

\* What such a step plans to move, and how long it takes.
LEMMA ImposedStep ==
    ASSUME WholeMoves, TransferInv, OnCourse, stage = "running", ~request.coupled, clock < request.maxDuration
    PROVE  LET dt == StepLength(request)
               p  == Planned(request, request.flow)
           IN  /\ dt \in Nat \ {0} /\ Whole(dt, request.keep)
               /\ p \in Nat /\ Whole(p, request.keep) /\ (p * Ticks) \div request.flow = dt
               /\ \A k \in Nat : request.flow = k * Ticks => p = k * dt /\ k > 0
<1> DEFINE r == request
           dt == StepLength(r)
           p == Planned(r, r.flow)
<1>1. /\ r \in Requests /\ RequestIsSound(r) /\ Feasible(r) /\ clock \in Nat /\ r.keep \in {1, 2}
      /\ Ticks \in Nat \ {0} /\ r.flow \in Nat \ {0} /\ r.step \in Nat \ {0}
      /\ r.maxDuration \in Int /\ r.target \in Int
  BY GapsAhead, Planned0, Requested DEF TransferInv, TransferTypeOK
<1>2. Whole(r.flow, Ticks) /\ Whole(r.step, r.keep) /\ Whole(r.maxDuration, r.keep) /\ Whole(clock, r.keep)
      /\ (r.kind # "level" => Whole(r.target, r.keep))
  BY <1>1 DEF WholeMoves, OnCourse
<1>3. r.kind = "duration" => clock < r.target
  BY DEF OnCourse
<1>4. Whole(r.maxDuration - clock, r.keep) /\ (r.kind = "duration" => Whole(r.target - clock, r.keep))
  BY <1>1, <1>2, <1>3, WholeLess
<1>5. dt \in Nat \ {0} /\ Whole(dt, r.keep)
  <2> DEFINE d == Least(r.step, r.maxDuration - clock)
  <2>1. d \in Nat \ {0} /\ Whole(d, r.keep)
    BY <1>1, <1>2, <1>4 DEF Least
  <2>2. CASE r.kind = "duration"
    <3>1. Above0(r.target - clock) = r.target - clock
      BY <1>1, <1>3, <2>2 DEF Above0
    <3>2. dt = Least(d, r.target - clock)
      BY <2>2, <3>1 DEF StepLength
    <3> HIDE DEF d, dt
    <3> QED
      BY <1>1, <1>3, <1>4, <2>1, <2>2, <3>2 DEF Least
  <2>3. CASE r.kind # "duration"
    <3>1. dt = d
      BY <2>3 DEF StepLength
    <3> QED
      BY <2>1, <3>1
  <2> QED
    BY <2>2, <2>3
<1> HIDE DEF dt
<1>6. ASSUME NEW k \in Nat, r.flow = k * Ticks
      PROVE  p = k * dt /\ k > 0 /\ p \in Nat /\ Whole(p, r.keep) /\ (p * Ticks) \div r.flow = dt
  <2>1. k > 0
    BY <1>1, <1>6
  <2>2. r.flow * dt = (k * dt) * Ticks /\ k * dt \in Nat
    BY <1>1, <1>5, <1>6, Z3
  <2>3. p = k * dt
    <3>1. p = (r.flow * dt) \div Ticks
      BY DEF Planned, dt
    <3>2. ((k * dt) * Ticks) \div Ticks = k * dt
      BY <1>1, <2>2, ExactQuotient
    <3> QED
      BY <2>2, <3>1, <3>2
  <2>4. (p * Ticks) \div r.flow = dt
    <3>1. p * Ticks = dt * r.flow
      BY <1>1, <1>5, <1>6, <2>3, Z3
    <3>2. (dt * r.flow) \div r.flow = dt
      BY <1>1, <1>5, ExactQuotient
    <3> QED
      BY <3>1, <3>2
  <2>5. Whole(k * dt, r.keep)
    BY <1>1, <1>5, WholeTimes
  <2> QED
    BY <2>1, <2>2, <2>3, <2>4, <2>5
<1>7. PICK k \in Nat : r.flow = k * Ticks
  BY <1>2 DEF Whole
<1> QED
  BY <1>5, <1>6, <1>7 DEF dt

\* The checks before the start leave the limits no nearer than the target.
LEMMA LimitsBehindTarget ==
    ASSUME WholeMoves, TransferInv, OnCourse, stage = "running", ~request.coupled
    PROVE  /\ request.kind # "duration" => TargetGap(request) <= LimitGap(request)
           /\ request.kind = "duration" =>
                 \A k \in Nat : request.flow = k * Ticks => k * (request.target - clock) <= LimitGap(request)
<1> DEFINE r == request
           room == HighHighVolume(r.destination) - CurrentVolume(r.destination)
           w == PlannedWithdrawal(r)
<1>1. /\ r \in Requests /\ r # None /\ RequestIsSound(r) /\ Feasible(r) /\ r.keep \in {1, 2} /\ r.target \in Nat
      /\ Ticks \in Nat \ {0} /\ {withdrawn, received, clock} \subseteq Nat
      /\ r.kind \in {"volume", "level", "duration"} /\ r.flow \in Nat
  BY GapsAhead, Planned0, Requested DEF TransferInv, TransferTypeOK
<1>2. received * r.keep = withdrawn /\ \A k \in Nat : r.flow = k * Ticks => withdrawn = k * clock
  BY DEF OnCourse
<1>3. source = CurrentVolume(r.source) - withdrawn /\ destination = CurrentVolume(r.destination) + received
  BY <1>1 DEF TransferInv, VolumesInv, TransferConserves
<1>4. CurrentVolume(r.source) \in Nat /\ SourceLimit(r.source) \in Nat /\ CurrentVolume(r.destination) \in Nat
      /\ HighHighVolume(r.destination) \in Nat
  BY <1>1, Requested
<1>5. SourceGap(r) = (CurrentVolume(r.source) - SourceLimit(r.source)) - withdrawn
  BY <1>1, <1>3, <1>4, GapsAhead
<1>6. DestinationGap(r) = room * r.keep - withdrawn /\ room \in Nat
  <2>1. DestinationGap(r) = (room - received) * r.keep
    BY <1>1, <1>3, <1>4, GapsAhead
  <2>2. room \in Nat
    BY <1>1, <1>4, Planned0
  <2> HIDE DEF room
  <2>3. CASE r.keep = 1
    BY <1>1, <1>2, <2>1, <2>2, <2>3
  <2>4. CASE r.keep = 2
    BY <1>1, <1>2, <2>1, <2>2, <2>4
  <2> QED
    BY <1>1, <2>2, <2>3, <2>4
<1>7. w \in Int /\ w >= 0 /\ w <= CurrentVolume(r.source) - SourceLimit(r.source) /\ w \div r.keep <= room
  <2>1. w \in Int /\ w >= r.keep /\ w # None
    BY <1>1, PlanAssumption, Requested
  <2>2. w <= PumpableVolume(r.source) /\ w \div r.keep <= AvailableCapacity(r.destination)
    BY <1>1, <2>1 DEF Feasible, VolumesSuffice
  <2>3. CurrentVolume(r.source) >= SourceLimit(r.source) /\ CurrentVolume(r.destination) <= HighHighVolume(r.destination)
    BY <1>1, Planned0
  <2>4. AvailableCapacity(r.destination) = room /\ PumpableVolume(r.source) = CurrentVolume(r.source) - SourceLimit(r.source)
    BY <1>4, <2>3 DEF AvailableCapacity, PumpableVolume, Above0
  <2> HIDE DEF w, room
  <2> QED
    BY <1>1, <2>1, <2>2, <2>4
<1>8. ASSUME Whole(w, r.keep) PROVE w <= room * r.keep
  <2>1. w \in Nat /\ w \div r.keep \in Nat /\ (w \div r.keep) * r.keep = w
    BY <1>1, <1>8, WholeShare
  <2> DEFINE q == w \div r.keep
  <2> HIDE DEF w, q, room
  <2>2. q \in Nat /\ q * r.keep = w /\ q <= room
    BY <1>7, <2>1 DEF q
  <2>3. CASE r.keep = 1
    BY <1>6, <2>2, <2>3
  <2>4. CASE r.keep = 2
    BY <1>6, <2>2, <2>4
  <2> QED
    BY <1>1, <2>3, <2>4
<1>9. ASSUME Whole(w, r.keep) PROVE w - withdrawn <= LimitGap(r)
  <2>1. w - withdrawn <= SourceGap(r)
    <3> HIDE DEF w, room
    <3> QED
      BY <1>1, <1>4, <1>5, <1>7
  <2>2. w - withdrawn <= DestinationGap(r)
    <3> HIDE DEF w, room
    <3>1. room * r.keep \in Int
      BY <1>1, <1>6
    <3> QED
      BY <1>1, <1>6, <1>7, <1>8, <1>9, <3>1
  <2> HIDE DEF w
  <2> QED
    BY <2>1, <2>2 DEF LimitGap, Least
<1>10. CASE r.kind = "volume"
  <2>1. w = r.target /\ Whole(r.target, r.keep)
    BY <1>1, <1>10 DEF PlannedWithdrawal, WholeMoves
  <2>2. TargetGap(r) = r.target - withdrawn
    BY <1>10, GapsAhead
  <2> HIDE DEF w
  <2> QED
    BY <1>9, <1>10, <2>1, <2>2
<1>11. CASE r.kind = "level"
  <2> DEFINE rise == VolumeAt(r.destination, r.target) - CurrentVolume(r.destination)
  <2>1. rise \in Nat
    BY <1>1, <1>4, <1>11, Planned0
  <2>2. w = rise * r.keep
    <3>1. LevelInTable(r)
      BY <1>1, <1>11 DEF Feasible, LevelReachable
    <3>2. w = Above0(rise) * r.keep
      BY <1>11, <3>1 DEF PlannedWithdrawal
    <3> HIDE DEF rise, w
    <3> QED
      BY <2>1, <3>2 DEF Above0
  <2>3. VolumeAt(r.destination, r.target) \in Int
    BY <1>1, <1>11, Planned0
  <2>4. TargetGap(r) = (rise - received) * r.keep
    BY <1>1, <1>3, <1>4, <1>11, <2>3, GapsAhead
  <2> HIDE DEF rise, w
  <2>5. TargetGap(r) = w - withdrawn
    <3>1. CASE r.keep = 1
      BY <1>1, <1>2, <2>1, <2>2, <2>4, <3>1
    <3>2. CASE r.keep = 2
      BY <1>1, <1>2, <2>1, <2>2, <2>4, <3>2
    <3> QED
      BY <1>1, <3>1, <3>2
  <2>6. Whole(w, r.keep)
    BY <2>1, <2>2 DEF Whole
  <2> QED
    BY <1>9, <1>11, <2>5, <2>6
<1>12. CASE r.kind = "duration"
  <2> SUFFICES ASSUME NEW k \in Nat, r.flow = k * Ticks PROVE k * (r.target - clock) <= LimitGap(r)
    BY <1>12
  <2>1. Whole(r.target, r.keep)
    BY <1>1, <1>12 DEF WholeMoves
  <2>2. w = k * r.target
    <3>1. w = (r.flow * r.target) \div Ticks
      BY <1>12 DEF PlannedWithdrawal
    <3>2. r.flow * r.target = (k * r.target) * Ticks /\ k * r.target \in Nat
      BY <1>1, Z3
    <3>3. ((k * r.target) * Ticks) \div Ticks = k * r.target
      BY <1>1, <3>2, ExactQuotient
    <3> HIDE DEF w
    <3> QED
      BY <3>1, <3>2, <3>3
  <2>3. Whole(k * r.target, r.keep)
    BY <1>1, <2>1, WholeTimes
  <2>4. k * (r.target - clock) = k * r.target - k * clock
    <3>1. r.target \in Int /\ clock \in Int
      BY <1>1
    <3> HIDE DEF r
    <3> QED
      BY <3>1, Scaled
  <2>5. withdrawn = k * clock
    BY <1>2
  <2> HIDE DEF w
  <2> QED
    BY <1>9, <2>2, <2>3, <2>4, <2>5
<1> QED
  BY <1>1, <1>10, <1>11, <1>12

\* The transfer is where the checks promised it would come.
Arrived ==
    \/ clock >= request.maxDuration
    \/ CASE request.kind = "volume"   -> withdrawn = request.target
         [] request.kind = "level"    -> destination = VolumeAt(request.destination, request.target)
         [] OTHER                     -> clock = request.target

\* One step at the imposed flow: the transfer stays on its course or has arrived.
LEMMA ImposedAdvance ==
    ASSUME WholeMoves, TransferInv, OnCourse, stage = "running", ~request.coupled, clock < request.maxDuration,
           Advance(request, request.flow), request' = request
    PROVE  OnCourse' /\ (stage' = "done" => Arrived')
<1> DEFINE r == request
           dt == StepLength(r)
           p == Planned(r, r.flow)
           w == Moved(r, r.flow)
           g == w \div r.keep
           elapsed == (w * Ticks) \div r.flow
<1>1. /\ r \in Requests /\ r.keep \in {1, 2} /\ r.kind \in {"volume", "level", "duration"} /\ Ticks \in Nat \ {0}
      /\ {withdrawn, received, clock} \subseteq Nat /\ r.flow \in Nat \ {0} /\ r.target \in Nat
  BY GapsAhead, Planned0, Requested DEF TransferInv, TransferTypeOK
<1>2. /\ withdrawn' = withdrawn + w /\ received' = received + g /\ clock' = clock + elapsed
      /\ reason' = Reached(r, r.flow) /\ stage' = IF reason' = None THEN "running" ELSE "done"
  BY DEF Advance
<1>3. /\ dt \in Nat \ {0} /\ Whole(dt, r.keep) /\ p \in Nat /\ Whole(p, r.keep) /\ (p * Ticks) \div r.flow = dt
      /\ \A k \in Nat : r.flow = k * Ticks => p = k * dt /\ k > 0
  BY ImposedStep
<1>4. StepKeeps
  BY <1>1, AdvanceKeeps
<1>5. Gap(r) \in Int /\ w = Least(p, Gap(r)) /\ (r.kind = "duration" => dt <= r.target - clock)
  <2>1. w = Least(p, Gap(r))
    BY DEF Moved
  <2>2. Gap(r) \in Int
    <3>1. SourceGap(r) \in Nat /\ DestinationGap(r) \in Nat /\ (r.kind # "duration" => TargetGap(r) \in Nat)
      BY <1>1, GapsAhead
    <3> QED
      BY <3>1 DEF Gap, LimitGap, Least
  <2>3. r.kind = "duration" => dt <= r.target - clock
    BY <1>1, MovedWithin
  <2> HIDE DEF w, p, dt
  <2> QED
    BY <2>1, <2>2, <2>3
<1>6. CASE Gap(r) <= p
  <2>1. reason' = LimitingReason(r) /\ w = Gap(r)
    <3>1. w = Gap(r)
      <4> HIDE DEF w, p
      <4> QED
        BY <1>3, <1>5, <1>6 DEF Least
    <3> QED
      BY <1>2, <1>6, <3>1 DEF Reached
  <2>2. stage' = "done"
    BY <1>2, <2>1, LimitNamed, ReasonAssumption DEF TransferReasons
  <2>3. CASE r.kind # "duration"
    <3>1. TargetGap(r) <= LimitGap(r)
      BY <2>3, LimitsBehindTarget
    <3>2. reason' = IF r.kind = "volume" THEN "target_volume_reached" ELSE "target_level_reached"
      BY <2>1, <2>3, <3>1 DEF LimitingReason
    <3>3. CASE r.kind = "volume"
      <4>1. withdrawn' = request'.target /\ request'.kind = "volume"
        BY <1>4, <3>2, <3>3 DEF StepKeeps, StopIsTrue
      <4>2. Arrived'
        BY <4>1, Zenon DEF Arrived
      <4> QED
        BY <2>2, <4>2 DEF OnCourse
    <3>4. CASE r.kind = "level"
      <4>1. destination' = VolumeAt(request.destination, request.target) /\ request'.kind = "level"
        BY <1>4, <3>2, <3>4 DEF StepKeeps, StopIsTrue
      <4>2. Arrived'
        BY <4>1, Zenon DEF Arrived
      <4> QED
        BY <2>2, <4>2 DEF OnCourse
    <3> QED
      BY <1>1, <2>3, <3>3, <3>4
  <2>4. CASE r.kind = "duration"
    <3>1. PICK k \in Nat : r.flow = k * Ticks
      BY <1>1 DEF WholeMoves, Whole
    <3>2. p = k * dt /\ k > 0 /\ k * (r.target - clock) <= Gap(r)
      <4>1. Gap(r) = LimitGap(r)
        BY <2>4 DEF Gap
      <4> QED
        BY <1>3, <2>4, <3>1, <4>1, LimitsBehindTarget
    <3>3. k * dt <= k * (r.target - clock) /\ k * dt \in Int /\ k * (r.target - clock) \in Int
      <4>1. r.target - clock \in Int /\ dt \in Int /\ dt <= r.target - clock
        BY <1>1, <1>3, <1>5, <2>4
      <4> DEFINE left == r.target - clock
      <4> HIDE DEF dt, r, left
      <4> QED
        BY <4>1, Scaled DEF left
    <3>4. k * dt = k * (r.target - clock) /\ w = p
      <4> DEFINE left == k * (r.target - clock)
      <4> HIDE DEF w, p, dt, left
      <4>1. k * dt = left /\ w = p
        BY <1>5, <1>6, <2>1, <3>2, <3>3 DEF left
      <4> QED
        BY <4>1 DEF left
    <3>5. dt = r.target - clock
      <4>1. r.target - clock \in Int /\ dt \in Int
        BY <1>1, <1>3
      <4> DEFINE left == r.target - clock
      <4> HIDE DEF dt, left
      <4>2. k * dt = k * left /\ k > 0 /\ left \in Int
        BY <3>2, <3>4, <4>1 DEF left
      <4>3. dt = left
        BY <4>1, <4>2, Scaled
      <4> QED
        BY <4>3 DEF left
    <3>6. clock' = r.target
      <4>1. elapsed = dt
        BY <1>3, <3>4
      <4> HIDE DEF elapsed, dt
      <4> QED
        BY <1>1, <1>2, <3>5, <4>1
    <3>7. Arrived'
      <4>1. clock' = request'.target /\ request'.kind = "duration"
        BY <2>4, <3>6
      <4> QED
        BY <4>1, Zenon DEF Arrived
    <3> QED
      BY <2>2, <3>7 DEF OnCourse
  <2> QED
    BY <2>3, <2>4
<1>7. CASE ~(Gap(r) <= p)
  <2>1. w = p /\ elapsed = dt
    <3>1. w = p
      <4> HIDE DEF w, p
      <4> QED
        BY <1>3, <1>5, <1>7 DEF Least
    <3> QED
      BY <1>3, <3>1
  <2>2. reason' = IF r.kind = "duration" /\ r.target - clock <= dt /\ dt <= elapsed
                  THEN "duration_reached"
                  ELSE IF elapsed = 0 THEN "hydraulic_constraint" ELSE None
    BY <1>2, <1>7 DEF Reached
  <2>3. clock' = clock + dt /\ withdrawn' = withdrawn + p /\ received' = received + g
    BY <1>2, <2>1
  <2>4. CASE r.kind = "duration" /\ r.target - clock <= dt
    <3>1. stage' = "done"
      BY <1>2, <1>3, <2>1, <2>2, <2>4, ReasonAssumption DEF TransferReasons
    <3>2. clock' = r.target
      <4> HIDE DEF dt
      <4> QED
        BY <1>1, <1>3, <1>5, <2>3, <2>4
    <3>3. Arrived'
      <4>1. clock' = request'.target /\ request'.kind = "duration"
        BY <2>4, <3>2
      <4> QED
        BY <4>1, Zenon DEF Arrived
    <3> QED
      BY <3>1, <3>3 DEF OnCourse
  <2>5. CASE ~(r.kind = "duration" /\ r.target - clock <= dt)
    <3>1. stage' = "running"
      BY <1>2, <1>3, <2>1, <2>2, <2>5
    <3>2. \A k \in Nat : r.flow = k * Ticks => withdrawn' = k * clock'
      <4> SUFFICES ASSUME NEW k \in Nat, r.flow = k * Ticks PROVE withdrawn' = k * clock'
        OBVIOUS
      <4>1. withdrawn = k * clock /\ p = k * dt
        BY <1>3 DEF OnCourse
      <4>2. k * (clock + dt) = k * clock + k * dt
        <5>1. clock \in Int /\ dt \in Int
          BY <1>1, <1>3
        <5> HIDE DEF dt
        <5> QED
          BY <5>1, Scaled
      <4> HIDE DEF p, dt
      <4> QED
        BY <2>3, <4>1, <4>2
    <3>3. Whole(clock', r.keep)
      <4>1. Whole(clock, r.keep)
        BY DEF OnCourse
      <4> HIDE DEF dt
      <4> QED
        BY <1>1, <1>3, <2>3, <4>1, WholeMore
    <3>4. received' * r.keep = withdrawn'
      <4>1. g \in Nat /\ g * r.keep = p
        <5> HIDE DEF p, w
        <5> QED
          BY <1>1, <1>3, <2>1, WholeShare
      <4>2. received * r.keep = withdrawn
        BY DEF OnCourse
      <4> HIDE DEF g, p
      <4>3. CASE r.keep = 1
        BY <1>1, <1>3, <2>3, <4>1, <4>2, <4>3
      <4>4. CASE r.keep = 2
        <5>1. received \in Nat /\ received * 2 = withdrawn /\ g * 2 = p /\ withdrawn' = withdrawn + p /\ received' = received + g
          BY <1>1, <2>3, <4>1, <4>2, <4>4
        <5>2. received' * 2 = withdrawn'
          <6> HIDE DEF r, w, elapsed, dt
          <6> QED
            BY <4>1, <5>1
        <5> QED
          BY <4>4, <5>2
      <4> QED
        BY <1>1, <4>3, <4>4
    <3>5. r.kind = "duration" => clock' < r.target
      <4> HIDE DEF dt
      <4> QED
        BY <1>1, <1>3, <2>3, <2>5
    <3> QED
      BY <3>1, <3>2, <3>3, <3>4, <3>5 DEF OnCourse
  <2> QED
    BY <2>4, <2>5
<1> QED
  BY <1>6, <1>7

\* The invariant behind the checks: a transfer at an imposed flow is on its course until it
\* has arrived.
ChecksInv == TransferInv /\ OnCourse /\ PreflightIsRight

LEMMA ChecksInvKept ==
    ASSUME WholeMoves, ChecksInv, [TransferNext]_transferVars
    PROVE  OnCourse' /\ PreflightIsRight'
<1> USE DEF ChecksInv
<1>1. ASSUME stage = "idle", NEW r \in Requests, BeginTransfer(r) PROVE OnCourse' /\ PreflightIsRight'
  <2>1. /\ request' = r /\ withdrawn' = 0 /\ received' = 0 /\ clock' = 0
    BY <1>1 DEF TransferInv, Fresh, BeginTransfer
  <2>2. stage' = "done" => reason' \in {"refused", "not_feasible"}
    BY <1>1 DEF BeginTransfer
  <2>3. ASSUME stage' = "running" PROVE r.target > 0 /\ r.target \in Int /\ r.keep \in {1, 2}
    <3>1. RequestIsSound(r) /\ Feasible(r)
      BY <1>1, <2>3 DEF BeginTransfer
    <3> QED
      BY <3>1, Planned0, Requested
  <2>4. ASSUME stage' = "running" PROVE Whole(0, r.keep) /\ 0 * r.keep = 0 /\ \A k \in Nat : k * 0 = 0
    BY <2>3, <2>4 DEF Whole
  <2>5. OnCourse'
    BY <2>1, <2>3, <2>4 DEF OnCourse
  <2> QED
    BY <2>2, <2>5 DEF PreflightIsRight
<1>2. CASE TransferStep
  <2>1. stage = "running" /\ request' = request
    BY <1>2, SimulationStepKeeps DEF TransferStep
  <2>2. CASE request.coupled
    BY <2>1, <2>2 DEF OnCourse, PreflightIsRight
  <2>3. CASE ~request.coupled
    <3>1. CASE MoveAtImposedFlow
      <4> DEFINE point == [flow |-> request.flow, feasible |-> TRUE]
      <4>1. clock < request.maxDuration /\ StepAt(point)
        BY <3>1 DEF MoveAtImposedFlow, Running
      <4>2. point.flow = request.flow /\ point.feasible
        OBVIOUS
      <4>3. request \in Requests /\ RequestIsSound(request) /\ Feasible(request) /\ request.flow > 0
        BY <2>1, GapsAhead, Planned0
      <4>4. ~Blocked(request, point)
        <5>1. request.maxFlow # None => request.flow <= request.maxFlow
          BY <4>3 DEF Feasible
        <5>2. request.flow \in Int /\ request.maxFlow \in Int \cup {None}
          BY <4>3, Requested
        <5> HIDE DEF point
        <5> QED
          BY <4>2, <4>3, <5>1, <5>2 DEF Blocked
      <4>5. Advance(request, request.flow)
        <5> HIDE DEF point
        <5> QED
          BY <4>1, <4>2, <4>4 DEF StepAt
      <4>6. OnCourse' /\ (stage' = "done" => Arrived')
        BY <2>1, <2>3, <4>1, <4>5, ImposedAdvance
      <4> QED
        BY <4>6 DEF PreflightIsRight, Arrived
    <3>2. CASE RunOutOfTime
      <4>1. stage' = "done" /\ clock' = clock /\ clock >= request.maxDuration
        BY <3>2 DEF RunOutOfTime, Stop, volumeVars
      <4> QED
        BY <2>1, <4>1 DEF OnCourse, PreflightIsRight
    <3> QED
      BY <1>2, <2>3, <3>1, <3>2
         DEF TransferStep, SimulationStep, MoveAtCachedPoint, EngineFails, CallsEngine, MoveAtComputedPoint
  <2> QED
    BY <2>2, <2>3
<1>3. ASSUME UNCHANGED <<stage, request, volumeVars, resolverVars, reason>> PROVE OnCourse' /\ PreflightIsRight'
  BY <1>3 DEF OnCourse, PreflightIsRight, volumeVars, resolverVars
<1>4. CASE RecordTransfer \/ ComputeBalance
  BY <1>3, <1>4 DEF RecordTransfer, ComputeBalance
<1>5. CASE UNCHANGED transferVars
  BY <1>3, <1>5 DEF transferVars
<1> QED
  BY <1>1, <1>2, <1>4, <1>5 DEF TransferNext

\* An imposed flow that passed the checks before the start (assess_feasibility) reaches its
\* target or the maximum duration, and no limit before.
THEOREM PreflightSuffices == ASSUME WholeMoves PROVE TransferSpec => []PreflightIsRight
<1>1. TransferInit => OnCourse /\ PreflightIsRight
  BY DEF TransferInit, OnCourse, PreflightIsRight
<1>2. TransferInv /\ TransferInv' /\ OnCourse /\ PreflightIsRight /\ [TransferNext]_transferVars => OnCourse' /\ PreflightIsRight'
  BY ChecksInvKept DEF ChecksInv
<1> QED
  BY <1>1, <1>2, TransferInvariant, PTL DEF TransferSpec
=============================================================================

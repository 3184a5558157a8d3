----------------------------- MODULE OrderLemmas -----------------------------
(***************************************************************************)
(* What the proofs need of orders and sums: least naturals, lexicographic  *)
(* orders, the ranks of the elements of a finite set, and the terms of a   *)
(* sum.  The strict subset ordering of finite sets is well founded; the    *)
(* rest follows from it.                                                   *)
(***************************************************************************)
EXTENDS Quantities, Sequences, FiniteSetTheorems, TLAPS

(***************************************************************************)
(* Naturals.                                                               *)
(***************************************************************************)

\* A set of naturals has a least element.
LEMMA LeastNatural ==
    ASSUME NEW S \in SUBSET Nat, S # {}
    PROVE  \E n \in S : \A m \in S : n <= m
<1> DEFINE Segments == {0..n : n \in S}
<1>1. Segments \subseteq FiniteSubsetsOf(Nat) /\ Segments # {}
  <2>1. \A n \in S : 0..n \in FiniteSubsetsOf(Nat)
    BY FS_Interval DEF FiniteSubsetsOf
  <2> QED
    BY <2>1
<1>2. PICK X \in Segments : \A Y \in Segments : ~(<<Y, X>> \in StrictSubsetOrdering(Nat))
  <2> HIDE DEF Segments
  <2> QED
    BY <1>1, FS_StrictSubsetOrderingWellFounded, WFMin
<1>3. PICK n \in S : X = 0..n
  OBVIOUS
<1>4. ASSUME NEW m \in S, m < n PROVE FALSE
  <2>1. 0..m \in SUBSET Nat /\ 0..n \in SUBSET Nat /\ 0..m \subseteq 0..n /\ 0..m # 0..n
    BY <1>4
  <2>2. <<0..m, 0..n>> \in StrictSubsetOrdering(Nat)
    BY <2>1 DEF StrictSubsetOrdering
  <2>3. 0..m \in Segments
    OBVIOUS
  <2> HIDE DEF Segments
  <2> QED
    BY <1>2, <1>3, <2>2, <2>3
<1> QED
  BY <1>4

\* What holds of 0 and passes from each number to the next holds up to any bound.
LEMMA UpTo ==
    ASSUME NEW n \in Nat, NEW S, 0 \in S, \A k \in 0..(n - 1) : k \in S => k + 1 \in S
    PROVE  n \in S
<1> DEFINE Missing == {k \in 0..n : k \notin S}
<1> SUFFICES ASSUME Missing # {} PROVE FALSE
  OBVIOUS
<1>1. PICK k \in Missing : \A m \in Missing : k <= m
  <2>1. Missing \in SUBSET Nat
    OBVIOUS
  <2> HIDE DEF Missing
  <2> QED
    BY <2>1, LeastNatural
<1>2. k # 0 /\ k - 1 \in 0..(n - 1) /\ k - 1 \notin Missing
  BY <1>1
<1> QED
  BY <1>1, <1>2

\* A sequence of integers in which every element exceeds the one before increases.
LEMMA IncreasingByOne ==
    ASSUME NEW N \in Nat, NEW f, \A n \in 1..N : f[n] \in Int,
           \A n \in 2..N : f[n - 1] < f[n]
    PROVE  \A k, n \in 1..N : k < n => f[k] < f[n]
<1> SUFFICES ASSUME NEW k \in 1..N, \E n \in 1..N : k < n /\ ~(f[k] < f[n])
             PROVE  FALSE
  OBVIOUS
<1> DEFINE Failures == {n \in 1..N : k < n /\ ~(f[k] < f[n])}
<1>1. PICK n \in Failures : \A m \in Failures : n <= m
  <2>1. Failures \in SUBSET Nat /\ Failures # {}
    OBVIOUS
  <2> HIDE DEF Failures
  <2> QED
    BY <2>1, LeastNatural
<1>2. n \in 2..N /\ n - 1 \in 1..N /\ k <= n - 1 /\ n - 1 \notin Failures
  BY <1>1
<1>3. f[k] <= f[n - 1] /\ f[n - 1] < f[n] /\ f[k] \in Int /\ f[n] \in Int /\ f[n - 1] \in Int
  <2>1. f[k] <= f[n - 1]
    BY <1>2
  <2> QED
    BY <1>2, <2>1
<1> QED
  BY <1>1, <1>3

(***************************************************************************)
(* The lexicographic order of the functions on 1..n.                       *)
(***************************************************************************)
Same(f, g, n) == \A i \in 1..n : f[i] = g[i]
Lex(f, g, n)  == \E i \in 1..n : f[i] < g[i] /\ \A j \in 1..(i - 1) : f[j] = g[j]

LEMMA LexTransitive ==
    ASSUME NEW n \in Nat, NEW f, NEW g, NEW h,
           \A i \in 1..n : f[i] \in Int /\ g[i] \in Int /\ h[i] \in Int,
           Lex(f, g, n), Lex(g, h, n)
    PROVE  Lex(f, h, n)
<1>1. PICK i \in 1..n : f[i] < g[i] /\ \A j \in 1..(i - 1) : f[j] = g[j]
  BY DEF Lex
<1>2. PICK k \in 1..n : g[k] < h[k] /\ \A j \in 1..(k - 1) : g[j] = h[j]
  BY DEF Lex
<1>3. CASE i <= k
  <2>1. f[i] < h[i] /\ \A j \in 1..(i - 1) : f[j] = h[j]
    BY <1>1, <1>2, <1>3
  <2> QED
    BY <2>1 DEF Lex
<1>4. CASE k < i
  <2>1. f[k] < h[k] /\ \A j \in 1..(k - 1) : f[j] = h[j]
    BY <1>1, <1>2, <1>4
  <2> QED
    BY <2>1 DEF Lex
<1> QED
  BY <1>3, <1>4

LEMMA LexTotal ==
    ASSUME NEW n \in Nat, NEW f, NEW g, \A i \in 1..n : f[i] \in Int /\ g[i] \in Int
    PROVE  /\ Same(f, g, n) \/ Lex(f, g, n) \/ Lex(g, f, n)
           /\ ~(Lex(f, g, n) /\ Lex(g, f, n)) /\ ~(Same(f, g, n) /\ Lex(f, g, n))
<1> DEFINE Apart == {i \in 1..n : f[i] # g[i]}
<1>1. ASSUME ~Same(f, g, n) PROVE Lex(f, g, n) \/ Lex(g, f, n)
  <2>1. Apart \in SUBSET Nat /\ Apart # {}
    BY <1>1 DEF Same
  <2>2. PICK i \in Apart : \A m \in Apart : i <= m
    <3> HIDE DEF Apart
    <3> QED
      BY <2>1, LeastNatural
  <2>3. i \in 1..n /\ f[i] # g[i] /\ \A j \in 1..(i - 1) : f[j] = g[j] /\ g[j] = f[j]
    BY <2>2
  <2> QED
    BY <2>3 DEF Lex
<1>2. ~(Lex(f, g, n) /\ Lex(g, f, n))
  <2> SUFFICES ASSUME Lex(f, g, n), Lex(g, f, n) PROVE FALSE
    OBVIOUS
  <2>1. PICK i \in 1..n : f[i] < g[i] /\ \A j \in 1..(i - 1) : f[j] = g[j]
    BY DEF Lex
  <2>2. PICK k \in 1..n : g[k] < f[k] /\ \A j \in 1..(k - 1) : g[j] = f[j]
    BY DEF Lex
  <2> QED
    BY <2>1, <2>2
<1>3. ~(Same(f, g, n) /\ Lex(f, g, n))
  BY DEF Same, Lex
<1> QED
  BY <1>1, <1>2, <1>3

\* Functions with natural values have a first one.
LEMMA LexLeast ==
    ASSUME NEW n \in Nat, NEW P, P # {}, \A f \in P : \A i \in 1..n : f[i] \in Nat
    PROVE  \E f \in P : \A g \in P : Same(f, g, n) \/ Lex(f, g, n)
<1> DEFINE Led == {k \in 0..n : \E f \in P : \A g \in P : Same(f, g, k) \/ Lex(f, g, k)}
<1>1. 0 \in Led
  BY DEF Same
<1>2. ASSUME NEW k \in 0..(n - 1), k \in Led PROVE k + 1 \in Led
  <2>1. PICK f \in P : \A g \in P : Same(f, g, k) \/ Lex(f, g, k)
    BY <1>2
  <2> DEFINE Next0 == {g[k + 1] : g \in {h \in P : Same(f, h, k)}}
  <2>2. k + 1 \in 1..n /\ k \in Nat /\ 1..k \subseteq 1..n /\ 1..(k + 1) \subseteq 1..n
    OBVIOUS
  <2>3. Next0 \in SUBSET Nat /\ Next0 # {}
    <3>1. f \in {h \in P : Same(f, h, k)}
      BY DEF Same
    <3> QED
      BY <2>2, <3>1
  <2>4. PICK least \in Next0 : \A m \in Next0 : least <= m
    <3> HIDE DEF Next0
    <3> QED
      BY <2>3, LeastNatural
  <2>5. PICK e \in P : Same(f, e, k) /\ e[k + 1] = least
    BY <2>4
  <2>6. ASSUME NEW g \in P PROVE Same(e, g, k + 1) \/ Lex(e, g, k + 1)
    <3>1. CASE Lex(f, g, k)
      <4>1. PICK i \in 1..k : f[i] < g[i] /\ \A j \in 1..(i - 1) : f[j] = g[j]
        BY <3>1 DEF Lex
      <4>2. i \in 1..(k + 1) /\ e[i] < g[i] /\ \A j \in 1..(i - 1) : e[j] = g[j]
        BY <2>2, <2>5, <4>1 DEF Same
      <4> QED
        BY <4>2 DEF Lex
    <3>2. CASE Same(f, g, k)
      <4>1. e[k + 1] <= g[k + 1] /\ e[k + 1] \in Nat /\ g[k + 1] \in Nat
        BY <2>2, <2>4, <2>5, <3>2
      <4>2. \A j \in 1..k : e[j] = g[j]
        BY <2>5, <3>2 DEF Same
      <4>3. CASE e[k + 1] = g[k + 1]
        BY <2>2, <4>2, <4>3 DEF Same
      <4>4. CASE e[k + 1] < g[k + 1]
        <5>1. k + 1 \in 1..(k + 1) /\ \A j \in 1..((k + 1) - 1) : e[j] = g[j]
          BY <2>2, <4>2
        <5> QED
          BY <4>4, <5>1 DEF Lex
      <4> QED
        BY <4>1, <4>3, <4>4
    <3> QED
      BY <2>1, <3>1, <3>2
  <2> QED
    BY <2>2, <2>6
<1>3. n \in Led
  <2> HIDE DEF Led
  <2> QED
    BY <1>1, <1>2, UpTo
<1> QED
  BY <1>3

(***************************************************************************)
(* The ranks of the elements of a finite set under a strict total order,   *)
(* which is given as the set of its pairs.                                 *)
(***************************************************************************)
StrictOrder(R, K) ==
    /\ \A c \in K : <<c, c>> \notin R
    /\ \A c, d, e \in K : <<c, d>> \in R /\ <<d, e>> \in R => <<c, e>> \in R
    /\ \A c, d \in K : c # d => <<c, d>> \in R \/ <<d, c>> \in R

RankIn(R, K, c) == Cardinality({d \in K : <<d, c>> \in R})

\* Ranks are 0 to the number of elements less one, each taken once, in the order.
LEMMA Ranks ==
    ASSUME NEW K, IsFiniteSet(K), NEW R, StrictOrder(R, K)
    PROVE  /\ \A c \in K : RankIn(R, K, c) \in 0..(Cardinality(K) - 1)
           /\ \A c, d \in K : <<c, d>> \in R => RankIn(R, K, c) < RankIn(R, K, d)
           /\ \A k \in 0..(Cardinality(K) - 1) : \E c \in K : RankIn(R, K, c) = k
<1> DEFINE Smaller(c) == {d \in K : <<d, c>> \in R}
<1>1. \A c \in K : IsFiniteSet(Smaller(c)) /\ Cardinality(Smaller(c)) \in Nat
  BY FS_Subset, FS_CardinalityType
<1>2. ASSUME NEW c \in K PROVE Cardinality(Smaller(c)) < Cardinality(K)
  <2>1. Smaller(c) \in SUBSET K /\ Smaller(c) # K
    BY DEF StrictOrder
  <2>2. Cardinality(Smaller(c)) <= Cardinality(K) /\ Cardinality(Smaller(c)) # Cardinality(K)
    <3> HIDE DEF Smaller
    <3> QED
      BY <2>1, FS_Subset
  <2>3. Cardinality(K) \in Nat
    BY FS_CardinalityType
  <2> QED
    BY <1>1, <2>2, <2>3
<1>3. ASSUME NEW c \in K, NEW d \in K, <<c, d>> \in R
      PROVE  Cardinality(Smaller(c)) < Cardinality(Smaller(d))
  <2>1. Smaller(c) \in SUBSET Smaller(d) /\ Smaller(c) # Smaller(d)
    BY <1>3 DEF StrictOrder
  <2>2. Cardinality(Smaller(c)) <= Cardinality(Smaller(d)) /\ Cardinality(Smaller(c)) # Cardinality(Smaller(d))
    <3> HIDE DEF Smaller
    <3> QED
      BY <1>1, <2>1, FS_Subset
  <2> QED
    BY <1>1, <2>2
<1>4. \A k \in 0..(Cardinality(K) - 1) : \E c \in K : Cardinality(Smaller(c)) = k
  <2> DEFINE T == 0..(Cardinality(K) - 1)
             f == [c \in K |-> Cardinality(Smaller(c))]
  <2>1. Cardinality(K) \in Nat
    BY FS_CardinalityType
  <2>2. IsFiniteSet(T) /\ Cardinality(T) = Cardinality(K)
    <3>1. Cardinality(T) = IF 0 > Cardinality(K) - 1 THEN 0 ELSE Cardinality(K) - 1 - 0 + 1
      BY <2>1, FS_Interval
    <3>2. IsFiniteSet(T)
      BY <2>1, FS_Interval
    <3> QED
      BY <2>1, <3>1, <3>2
  <2>3. f \in [K -> T]
    <3>1. \A c \in K : Cardinality(Smaller(c)) \in T
      <4> HIDE DEF Smaller
      <4> QED
        BY <1>1, <1>2, <2>1
    <3> HIDE DEF Smaller, T
    <3> QED
      BY <3>1
  <2>4. \A c, d \in K : f[c] = f[d] => c = d
    <3> SUFFICES ASSUME NEW c \in K, NEW d \in K, c # d PROVE f[c] # f[d]
      OBVIOUS
    <3>1. <<c, d>> \in R \/ <<d, c>> \in R
      BY DEF StrictOrder
    <3>2. f[c] = Cardinality(Smaller(c)) /\ f[d] = Cardinality(Smaller(d))
      OBVIOUS
    <3> HIDE DEF f, Smaller
    <3> QED
      BY <1>1, <1>3, <3>1, <3>2
  <2> HIDE DEF T
  <2>5. f \in Injection(K, T)
    <3> HIDE DEF f
    <3> QED
      BY <2>3, <2>4 DEF Injection, IsInjective
  <2>6. f \in Surjection(K, T)
    <3> HIDE DEF f
    <3> QED
      BY <2>2, <2>5, FS_Injection
  <2>7. \A k \in T : \E c \in K : f[c] = k
    <3> HIDE DEF f
    <3> QED
      BY <2>6 DEF Surjection
  <2> QED
    BY <2>7 DEF T
<1>5. \A c \in K : RankIn(R, K, c) = Cardinality(Smaller(c))
  BY DEF RankIn
<1>6. \A c \in K : RankIn(R, K, c) \in 0..(Cardinality(K) - 1)
  <2>1. Cardinality(K) \in Nat
    BY FS_CardinalityType
  <2> HIDE DEF Smaller
  <2> QED
    BY <1>1, <1>2, <1>5, <2>1
<1>7. \A c, d \in K : <<c, d>> \in R => RankIn(R, K, c) < RankIn(R, K, d)
  <2> HIDE DEF Smaller
  <2> QED
    BY <1>3, <1>5
<1>8. \A k \in 0..(Cardinality(K) - 1) : \E c \in K : RankIn(R, K, c) = k
  <2> HIDE DEF Smaller
  <2> QED
    BY <1>4, <1>5
<1> QED
  BY <1>6, <1>7, <1>8

(***************************************************************************)
(* Finite sets.                                                            *)
(***************************************************************************)

\* What a set of subsets has as soon as it has the smaller ones, it has for every subset.
LEMMA BySubsets ==
    ASSUME NEW D, IsFiniteSet(D), NEW G, \A s \in SUBSET D : (\A x \in s : s \ {x} \in G) => s \in G
    PROVE  \A s \in SUBSET D : s \in G
<1> DEFINE Missing == {s \in SUBSET D : s \notin G}
<1> SUFFICES ASSUME Missing # {} PROVE FALSE
  OBVIOUS
<1>1. Missing \subseteq FiniteSubsetsOf(D)
  BY FS_Subset DEF FiniteSubsetsOf
<1>2. PICK s \in Missing : \A t \in Missing : ~(<<t, s>> \in StrictSubsetOrdering(D))
  <2> HIDE DEF Missing
  <2> QED
    BY <1>1, FS_StrictSubsetOrderingWellFounded, WFMin
<1>3. ASSUME NEW x \in s PROVE s \ {x} \in G
  <2>1. <<s \ {x}, s>> \in StrictSubsetOrdering(D)
    BY DEF StrictSubsetOrdering
  <2> QED
    BY <1>2, <2>1
<1> QED
  BY <1>3

\* The values of a function on a finite set, and the elements of finitely many finite sets.
LEMMA FiniteImage ==
    ASSUME NEW D, IsFiniteSet(D), NEW f
    PROVE  IsFiniteSet({f[i] : i \in D})
<1> DEFINE S == {f[i] : i \in D}
           g == [i \in D |-> f[i]]
<1>1. g \in Surjection(D, S)
  BY DEF Surjection
<1>2. IsFiniteSet(S)
  <2> HIDE DEF g, S
  <2> QED
    BY <1>1, FS_Surjection
<1> QED
  BY <1>2

LEMMA FiniteUnion ==
    ASSUME NEW D, IsFiniteSet(D), NEW f, \A i \in D : IsFiniteSet(f[i])
    PROVE  IsFiniteSet(UNION {f[i] : i \in D})
<1> DEFINE Of(s) == UNION {f[i] : i \in s}
           G == {s \in SUBSET D : IsFiniteSet(Of(s))}
<1>1. ASSUME NEW s \in SUBSET D, \A x \in s : s \ {x} \in G PROVE s \in G
  <2>1. CASE s = {}
    <3>1. Of(s) = {}
      BY <2>1
    <3>2. IsFiniteSet(Of(s))
      BY <3>1, FS_EmptySet
    <3> QED
      BY <3>2
  <2>2. CASE s # {}
    <3>1. PICK x \in s : TRUE
      BY <2>2
    <3>2. Of(s) = Of(s \ {x}) \cup f[x]
      OBVIOUS
    <3>3. IsFiniteSet(Of(s \ {x})) /\ IsFiniteSet(f[x])
      BY <1>1
    <3> HIDE DEF Of
    <3>4. IsFiniteSet(Of(s))
      BY <3>2, <3>3, FS_Union
    <3> QED
      BY <3>4
  <2> QED
    BY <2>1, <2>2
<1>2. \A s \in SUBSET D : (\A x \in s : s \ {x} \in G) => s \in G
  BY <1>1
<1>3. D \in G
  <2> HIDE DEF G
  <2>1. \A s \in SUBSET D : s \in G
    BY <1>2, BySubsets
  <2> QED
    BY <2>1
<1> QED
  BY <1>3

\* The maximum of a finite set of integers.
LEMMA MaxOf ==
    ASSUME NEW S, IsFiniteSet(S), S # {}, S \subseteq Int
    PROVE  Max(S) \in S /\ \A x \in S : x <= Max(S)
<1> DEFINE Has(s) == s = {} \/ \E m \in s : \A x \in s : m >= x
           G == {s \in SUBSET S : Has(s)}
<1>1. ASSUME NEW s \in SUBSET S, \A x \in s : s \ {x} \in G PROVE s \in G
  <2>1. CASE s # {}
    <3>1. PICK x \in s : TRUE
      BY <2>1
    <3>2. Has(s \ {x}) /\ s \subseteq Int
      BY <1>1
    <3>3. CASE s \ {x} = {}
      <4>1. \A y \in s : x >= y
        BY <3>2, <3>3
      <4> QED
        BY <4>1
    <3>4. CASE s \ {x} # {}
      <4>1. PICK m \in s \ {x} : \A y \in s \ {x} : m >= y
        BY <3>2, <3>4
      <4>2. m \in Int /\ x \in Int
        BY <3>2
      <4>3. CASE m >= x
        <5>1. \A y \in s : m >= y
          BY <4>1, <4>3
        <5> QED
          BY <5>1
      <4>4. CASE ~(m >= x)
        <5>1. \A y \in s : x >= y
          BY <3>2, <4>1, <4>2, <4>4
        <5> QED
          BY <5>1
      <4> QED
        BY <4>3, <4>4
    <3> QED
      BY <3>3, <3>4
  <2> QED
    BY <2>1
<1>2. S \in G
  <2>1. \A s \in SUBSET S : (\A x \in s : s \ {x} \in G) => s \in G
    BY <1>1
  <2> HIDE DEF G
  <2>2. \A s \in SUBSET S : s \in G
    BY <2>1, BySubsets
  <2> QED
    BY <2>2
<1>3. \E m \in S : \A x \in S : m >= x
  BY <1>2
<1>4. Max(S) \in S /\ \A x \in S : Max(S) >= x
  BY <1>3 DEF Max
<1> QED
  BY <1>4

LEMMA MinOf ==
    ASSUME NEW S, IsFiniteSet(S), S # {}, S \subseteq Int
    PROVE  Min(S) \in S /\ \A x \in S : Min(S) <= x
<1> DEFINE f == [x \in Int |-> -x]
           T == {f[x] : x \in S}
<1>1. IsFiniteSet(T) /\ T # {} /\ T \subseteq Int
  <2>1. IsFiniteSet(T)
    <3> HIDE DEF f
    <3> QED
      BY FiniteImage
  <2>2. \A x \in S : f[x] = -x /\ f[x] \in Int
    OBVIOUS
  <2>3. T # {} /\ T \subseteq Int
    <3> HIDE DEF f
    <3> QED
      BY <2>2
  <2> QED
    BY <2>1, <2>3
<1>2. PICK m \in S : Max(T) = -m
  <2>1. Max(T) \in T
    <3> HIDE DEF T
    <3> QED
      BY <1>1, MaxOf
  <2> QED
    BY <2>1
<1>3. ASSUME NEW x \in S PROVE m <= x
  <2>1. -x \in T
    OBVIOUS
  <2>2. -x <= Max(T)
    <3> HIDE DEF T
    <3> QED
      BY <1>1, <2>1, MaxOf
  <2> QED
    BY <1>2, <2>2
<1> QED
  BY <1>3 DEF Min

(***************************************************************************)
(* Sums over finite sets.                                                  *)
(***************************************************************************)

\* What a fold over a finite set computes: one element at a time, in some order.
LEMMA SumUnfolds ==
    ASSUME NEW f, IsFiniteSet(DOMAIN f)
    PROVE  \E sum : /\ SumOver(f) = sum[DOMAIN f]
                    /\ sum[{}] = 0
                    /\ \A s \in SUBSET (DOMAIN f) : s # {} =>
                         \E x \in s : sum[s] = f[x] + sum[s \ {x}]
<1> DEFINE D == DOMAIN f
           pick(s) == CHOOSE x \in s : TRUE
           Next(g, s) == IF s = {} THEN 0 ELSE f[pick(s)] + g[s \ {pick(s)}]
           IsSum(g) == g = [s \in SUBSET D |-> Next(g, s)]
           Sum == CHOOSE g : IsSum(g)
           UpToSize(g, n) == /\ g = [s \in SUBSET D |-> g[s]]
                             /\ \A s \in SUBSET D : Cardinality(s) <= n => g[s] = Next(g, s)
           Sizes == {n \in Nat : \E g : UpToSize(g, n)}
<1>1. SumOver(f) = Sum[D]
  BY DEF SumOver, MapThenSumSet, MapThenFoldSet
<1>2. \A s \in SUBSET D : /\ IsFiniteSet(s) /\ Cardinality(s) \in Nat /\ Cardinality(s) <= Cardinality(D)
                          /\ Cardinality(s) = 0 <=> s = {}
                          /\ s # {} => pick(s) \in s /\ Cardinality(s \ {pick(s)}) = Cardinality(s) - 1
  BY FS_Subset, FS_CardinalityType, FS_EmptySet, FS_RemoveElement
<1>3. 0 \in Sizes
  <2> DEFINE g == [s \in SUBSET D |-> 0]
  <2>1. \A s \in SUBSET D : Cardinality(s) <= 0 => g[s] = Next(g, s)
    <3>1. \A s \in SUBSET D : Cardinality(s) <= 0 => s = {}
      <4> SUFFICES ASSUME NEW s \in SUBSET D, Cardinality(s) <= 0 PROVE s = {}
        OBVIOUS
      <4>1. Cardinality(s) \in Nat /\ (Cardinality(s) = 0 <=> s = {})
        BY <1>2
      <4> QED
        BY <4>1
    <3>2. \A s \in SUBSET D : g[s] = 0
      OBVIOUS
    <3> HIDE DEF g, D
    <3> QED
      BY <3>1, <3>2
  <2>2. UpToSize(g, 0)
    <3> HIDE DEF Next
    <3> QED
      BY <2>1
  <2> HIDE DEF UpToSize, g
  <2> QED
    BY <2>2
<1>4. ASSUME NEW n \in Nat, n \in Sizes PROVE n + 1 \in Sizes
  <2>1. PICK g : UpToSize(g, n)
    BY <1>4
  <2> DEFINE h == [s \in SUBSET D |-> IF Cardinality(s) <= n THEN g[s] ELSE Next(g, s)]
  <2>2. ASSUME NEW s \in SUBSET D, Cardinality(s) <= n + 1 PROVE h[s] = Next(h, s)
    <3>1. h[s] = Next(g, s)
      BY <2>1
    <3>2. s # {} => h[s \ {pick(s)}] = g[s \ {pick(s)}]
      <4> SUFFICES ASSUME s # {} PROVE h[s \ {pick(s)}] = g[s \ {pick(s)}]
        OBVIOUS
      <4>1. s \ {pick(s)} \in SUBSET D /\ Cardinality(s \ {pick(s)}) <= n
        BY <1>2, <2>2
      <4> HIDE DEF pick
      <4> QED
        BY <4>1
    <3> HIDE DEF h, pick
    <3> QED
      BY <3>1, <3>2
  <2>3. UpToSize(h, n + 1)
    <3> HIDE DEF Next
    <3> QED
      BY <2>2
  <2> HIDE DEF UpToSize, h
  <2> QED
    BY <2>3
<1>5. Cardinality(D) \in Sizes
  <2>1. Cardinality(D) \in Nat
    BY <1>2
  <2> HIDE DEF Sizes
  <2>2. \A n \in 0..(Cardinality(D) - 1) : n \in Sizes => n + 1 \in Sizes
    BY <1>4
  <2> QED
    BY <1>3, <2>1, <2>2, UpTo
<1>6. PICK g : UpToSize(g, Cardinality(D))
  BY <1>5
<1>7. IsSum(g)
  <2> HIDE DEF Next
  <2> QED
    BY <1>2, <1>6
<1>8. IsSum(Sum)
  <2> HIDE DEF IsSum
  <2> QED
    BY <1>7
<1>9. \A s \in SUBSET D : Sum[s] = Next(Sum, s)
  <2> HIDE DEF Next, Sum
  <2> QED
    BY <1>8
<1> HIDE DEF Sum
<1>10. Sum[{}] = 0 /\ \A s \in SUBSET D : s # {} => \E x \in s : Sum[s] = f[x] + Sum[s \ {x}]
  BY <1>2, <1>9
<1> QED
  BY <1>1, <1>10

IsSumOf(sum, f) ==
    /\ sum[{}] = 0
    /\ \A s \in SUBSET (DOMAIN f) : s # {} => \E x \in s : sum[s] = f[x] + sum[s \ {x}]

\* The order in which the elements are taken does not matter.
LEMMA AnyOrder ==
    ASSUME NEW f, IsFiniteSet(DOMAIN f), \A i \in DOMAIN f : f[i] \in Int, NEW sum, IsSumOf(sum, f)
    PROVE  \A s \in SUBSET (DOMAIN f) : sum[s] \in Int /\ \A x \in s : sum[s] = f[x] + sum[s \ {x}]
<1> DEFINE D == DOMAIN f
           Good(s) == sum[s] \in Int /\ \A x \in s : sum[s] = f[x] + sum[s \ {x}]
           G == {s \in SUBSET D : \A t \in SUBSET s : Good(t)}
<1>1. ASSUME NEW s \in SUBSET D, \A x \in s : s \ {x} \in G PROVE s \in G
  <2>1. ASSUME NEW t \in SUBSET s, t # s PROVE Good(t)
    <3>1. PICK x \in s : t \in SUBSET (s \ {x})
      BY <2>1
    <3> HIDE DEF Good
    <3> QED
      BY <1>1, <3>1
  <2>2. \A x \in s : f[x] \in Int /\ sum[s \ {x}] \in Int
    BY <2>1
  <2>3. CASE s = {}
    <3>1. Good(s)
      BY <2>3 DEF IsSumOf
    <3> HIDE DEF Good
    <3> QED
      BY <2>1, <3>1
  <2>4. CASE s # {}
    <3>1. PICK c \in s : sum[s] = f[c] + sum[s \ {c}]
      BY <2>4 DEF IsSumOf
    <3>2. sum[s] \in Int
      <4> DEFINE rest == sum[s \ {c}]
      <4>1. f[c] \in Int /\ rest \in Int /\ sum[s] = f[c] + rest
        BY <2>2, <3>1
      <4> HIDE DEF rest
      <4> QED
        BY <4>1
    <3>3. ASSUME NEW x \in s, x # c PROVE sum[s] = f[x] + sum[s \ {x}]
      <4> DEFINE t == s \ {c, x}
      <4>1. Good(s \ {c}) /\ Good(s \ {x}) /\ Good(t)
        BY <2>1
      <4>2. (s \ {c}) \ {x} = t /\ (s \ {x}) \ {c} = t /\ x \in s \ {c} /\ c \in s \ {x}
        BY <3>3
      <4>3. sum[s \ {c}] = f[x] + sum[t] /\ sum[s \ {x}] = f[c] + sum[t] /\ sum[t] \in Int
        BY <4>1, <4>2
      <4>4. f[x] \in Int /\ f[c] \in Int
        BY <2>2
      <4> DEFINE a == sum[s \ {c}]
                 b == sum[s \ {x}]
                 d == sum[t]
      <4>5. sum[s] = f[c] + a /\ a = f[x] + d /\ b = f[c] + d /\ d \in Int
        BY <3>1, <4>3
      <4>6. sum[s] = f[x] + b
        <5> HIDE DEF a, b, d
        <5> QED
          BY <4>4, <4>5
      <4> QED
        BY <4>6
    <3>4. Good(s)
      BY <3>1, <3>2, <3>3
    <3> HIDE DEF Good
    <3> QED
      BY <2>1, <3>4
  <2> QED
    BY <2>3, <2>4
<1>2. \A s \in SUBSET D : s \in G
  <2> HIDE DEF G
  <2> QED
    BY <1>1, BySubsets
<1> QED
  BY <1>2

\* The values of f that are left without x.
Rest(f, x) == [i \in (DOMAIN f) \ {x} |-> f[i]]

LEMMA SumTerms ==
    ASSUME NEW f, IsFiniteSet(DOMAIN f), \A i \in DOMAIN f : f[i] \in Int
    PROVE  /\ SumOver(f) \in Int
           /\ DOMAIN f = {} => SumOver(f) = 0
           /\ \A x \in DOMAIN f : SumOver(f) = f[x] + SumOver(Rest(f, x))
<1>1. PICK sum : SumOver(f) = sum[DOMAIN f] /\ IsSumOf(sum, f)
  BY SumUnfolds DEF IsSumOf
<1>2. \A s \in SUBSET (DOMAIN f) : sum[s] \in Int /\ \A x \in s : sum[s] = f[x] + sum[s \ {x}]
  BY <1>1, AnyOrder
<1>3. SumOver(f) \in Int /\ (DOMAIN f = {} => SumOver(f) = 0)
  BY <1>1, <1>2 DEF IsSumOf
<1>4. ASSUME NEW x \in DOMAIN f PROVE SumOver(f) = f[x] + SumOver(Rest(f, x))
  <2> DEFINE g == Rest(f, x)
             D == DOMAIN g
  <2>1. D = (DOMAIN f) \ {x} /\ IsFiniteSet(D) /\ \A i \in D : g[i] = f[i] /\ g[i] \in Int
    BY FS_Subset DEF Rest
  <2>2. PICK part : SumOver(g) = part[D] /\ IsSumOf(part, g)
    <3> HIDE DEF g
    <3> QED
      BY <2>1, SumUnfolds DEF IsSumOf
  <2>3. \A s \in SUBSET D : part[s] \in Int /\ \A y \in s : part[s] = g[y] + part[s \ {y}]
    <3>1. IsFiniteSet(DOMAIN g) /\ (\A i \in DOMAIN g : g[i] \in Int) /\ IsSumOf(part, g)
      BY <2>1, <2>2
    <3> HIDE DEF g
    <3> QED
      BY <3>1, AnyOrder
  <2> DEFINE G == {s \in SUBSET D : part[s] = sum[s]}
  <2>4. ASSUME NEW s \in SUBSET D, \A y \in s : s \ {y} \in G PROVE s \in G
    <3>1. CASE s = {}
      BY <1>1, <2>2, <3>1 DEF IsSumOf
    <3>2. CASE s # {}
      <4>1. PICK y \in s : TRUE
        BY <3>2
      <4>2. part[s] = g[y] + part[s \ {y}] /\ g[y] = f[y] /\ part[s \ {y}] = sum[s \ {y}]
        BY <2>1, <2>3, <2>4
      <4>3. sum[s] = f[y] + sum[s \ {y}]
        BY <1>2, <2>1
      <4> HIDE DEF g, D
      <4> QED
        BY <4>2, <4>3
    <3> QED
      BY <3>1, <3>2
  <2>5. \A s \in SUBSET D : s \in G
    <3> HIDE DEF G
    <3> QED
      BY <2>1, <2>4, BySubsets
  <2>6. part[D] = sum[D]
    BY <2>5
  <2>7. sum[DOMAIN f] = f[x] + sum[(DOMAIN f) \ {x}]
    BY <1>2
  <2>8. SumOver(f) = sum[DOMAIN f] /\ SumOver(g) = part[D]
    BY <1>1, <2>2
  <2> HIDE DEF g, D
  <2> QED
    BY <2>1, <2>6, <2>7, <2>8 DEF g
<1> QED
  BY <1>3, <1>4

\* A sum is an integer, none when there are no terms, and any term may be taken first.
LEMMA SumTerm ==
    ASSUME NEW E, IsFiniteSet(E), NEW f \in [E -> Int]
    PROVE  /\ SumOver(f) \in Int
           /\ E = {} => SumOver(f) = 0
           /\ \A x \in E : Rest(f, x) \in [E \ {x} -> Int] /\ SumOver(f) = f[x] + SumOver(Rest(f, x))
<1>1. DOMAIN f = E /\ \A i \in DOMAIN f : f[i] \in Int
  OBVIOUS
<1>2. IsFiniteSet(DOMAIN f)
  BY <1>1
<1>3. \A x \in E : Rest(f, x) \in [E \ {x} -> Int]
  BY DEF Rest
<1>4. /\ SumOver(f) \in Int
      /\ DOMAIN f = {} => SumOver(f) = 0
      /\ \A x \in DOMAIN f : SumOver(f) = f[x] + SumOver(Rest(f, x))
  BY <1>1, <1>2, SumTerms, Zenon
<1> QED
  BY <1>1, <1>3, <1>4

\* Larger terms make a larger sum, and terms that are not negative one that is not.
LEMMA SumMonotone ==
    ASSUME NEW D, IsFiniteSet(D), NEW f \in [D -> Int], NEW g \in [D -> Int], \A i \in D : f[i] <= g[i]
    PROVE  SumOver(f) <= SumOver(g)
<1> DEFINE On(h, s) == [i \in s |-> h[i]]
           G == {s \in SUBSET D : SumOver(On(f, s)) <= SumOver(On(g, s))}
<1>1. ASSUME NEW s \in SUBSET D, \A x \in s : s \ {x} \in G PROVE s \in G
  <2>1. IsFiniteSet(s) /\ \A x \in s : f[x] \in Int /\ g[x] \in Int /\ f[x] <= g[x]
    BY FS_Subset
  <2>2. ASSUME NEW h \in {f, g}
        PROVE  /\ SumOver(On(h, s)) \in Int /\ (s = {} => SumOver(On(h, s)) = 0)
               /\ \A x \in s : SumOver(On(h, s)) = h[x] + SumOver(On(h, s \ {x})) /\ SumOver(On(h, s \ {x})) \in Int
    <3> DEFINE k == On(h, s)
    <3>1. k \in [s -> Int] /\ \A x \in s : k[x] = h[x] /\ Rest(k, x) = On(h, s \ {x})
      BY <2>1 DEF Rest
    <3>2. ASSUME NEW x \in s PROVE SumOver(On(h, s \ {x})) \in Int
      <4> DEFINE m == On(h, s \ {x})
      <4>1. m \in [s \ {x} -> Int] /\ IsFiniteSet(s \ {x})
        BY <2>1, FS_Subset
      <4> HIDE DEF m
      <4> QED
        BY <4>1, SumTerm
    <3> HIDE DEF k
    <3>3. SumOver(k) \in Int /\ (s = {} => SumOver(k) = 0) /\ \A x \in s : SumOver(k) = k[x] + SumOver(Rest(k, x))
      <4>1. IsFiniteSet(s) /\ k \in [s -> Int]
        BY <2>1, <3>1
      <4> QED
        BY <4>1, SumTerm, ZenonT(60)
    <3> QED
      BY <3>1, <3>2, <3>3 DEF k
  <2> HIDE DEF On
  <2>3. CASE s = {}
    BY <2>2, <2>3
  <2>4. CASE s # {}
    <3>1. PICK x \in s : TRUE
      BY <2>4
    <3>2. SumOver(On(f, s \ {x})) <= SumOver(On(g, s \ {x}))
      BY <1>1
    <3> QED
      BY <2>1, <2>2, <3>2
  <2> QED
    BY <2>3, <2>4
<1>2. D \in G
  <2>1. \A s \in SUBSET D : (\A x \in s : s \ {x} \in G) => s \in G
    BY <1>1
  <2> HIDE DEF G
  <2>2. \A s \in SUBSET D : s \in G
    BY <2>1, BySubsets
  <2> QED
    BY <2>2
<1>3. On(f, D) = f /\ On(g, D) = g
  OBVIOUS
<1> QED
  BY <1>2, <1>3

LEMMA SumNatural ==
    ASSUME NEW D, IsFiniteSet(D), NEW f \in [D -> Nat]
    PROVE  SumOver(f) \in Nat
<1> DEFINE On(s) == [i \in s |-> f[i]]
           G == {s \in SUBSET D : SumOver(On(s)) \in Nat}
<1>1. ASSUME NEW s \in SUBSET D, \A x \in s : s \ {x} \in G PROVE s \in G
  <2> DEFINE k == On(s)
  <2>1. IsFiniteSet(s) /\ k \in [s -> Int] /\ \A x \in s : k[x] \in Nat /\ Rest(k, x) = On(s \ {x})
    BY FS_Subset DEF Rest
  <2>2. \A x \in s : SumOver(Rest(k, x)) \in Nat
    BY <1>1, <2>1
  <2>3. SumOver(k) \in Nat
    <3> HIDE DEF k
    <3>1. IsFiniteSet(s) /\ k \in [s -> Int]
      BY <2>1
    <3>2. SumOver(k) \in Int /\ (s = {} => SumOver(k) = 0) /\ \A x \in s : SumOver(k) = k[x] + SumOver(Rest(k, x))
      BY <3>1, SumTerm, Zenon
    <3>3. CASE s = {}
      BY <3>2, <3>3
    <3>4. CASE s # {}
      <4>1. PICK x \in s : TRUE
        BY <3>4
      <4>2. k[x] \in Nat /\ SumOver(Rest(k, x)) \in Nat /\ SumOver(k) = k[x] + SumOver(Rest(k, x))
        BY <2>1, <2>2, <3>2
      <4> QED
        BY <4>2
    <3> QED
      BY <3>3, <3>4
  <2> QED
    BY <2>3
<1>2. D \in G
  <2>1. \A s \in SUBSET D : (\A x \in s : s \ {x} \in G) => s \in G
    BY <1>1
  <2> HIDE DEF G
  <2>2. \A s \in SUBSET D : s \in G
    BY <2>1, BySubsets
  <2> QED
    BY <2>2
<1>3. On(D) = f
  OBVIOUS
<1> QED
  BY <1>2, <1>3

\* The part of a sum that a set of its terms makes.
PartOf(f, s) == SumOver([i \in s |-> f[i]])

LEMMA PartOfSum ==
    ASSUME NEW D, IsFiniteSet(D), NEW f \in [D -> Int]
    PROVE  /\ PartOf(f, D) = SumOver(f) /\ PartOf(f, {}) = 0
           /\ \A s \in SUBSET D : PartOf(f, s) \in Int
           /\ \A s \in SUBSET D : \A x \in s : PartOf(f, s) = f[x] + PartOf(f, s \ {x})
<1>1. ASSUME NEW s \in SUBSET D
      PROVE  /\ PartOf(f, s) \in Int /\ (s = {} => PartOf(f, s) = 0)
             /\ \A x \in s : PartOf(f, s) = f[x] + PartOf(f, s \ {x})
  <2> DEFINE k == [i \in s |-> f[i]]
  <2>1. IsFiniteSet(s) /\ k \in [s -> Int]
    BY FS_Subset
  <2>2. \A x \in s : k[x] = f[x] /\ Rest(k, x) = [i \in s \ {x} |-> f[i]]
    BY DEF Rest
  <2>3. PartOf(f, s) = SumOver(k) /\ \A x \in s : PartOf(f, s \ {x}) = SumOver(Rest(k, x))
    BY <2>2 DEF PartOf
  <2> HIDE DEF k
  <2>4. SumOver(k) \in Int /\ (s = {} => SumOver(k) = 0) /\ \A x \in s : SumOver(k) = k[x] + SumOver(Rest(k, x))
    BY <2>1, SumTerm, Zenon
  <2> QED
    BY <2>2, <2>3, <2>4
<1>2. [i \in D |-> f[i]] = f
  OBVIOUS
<1>3. PartOf(f, D) = SumOver(f)
  BY <1>2 DEF PartOf
<1> QED
  BY <1>1, <1>3

\* Two parts that share no term.
LEMMA SumOfParts ==
    ASSUME NEW D, IsFiniteSet(D), NEW f \in [D -> Int], NEW A \in SUBSET D, NEW B \in SUBSET D, A \cap B = {}
    PROVE  PartOf(f, A \cup B) = PartOf(f, A) + PartOf(f, B)
<1> DEFINE G == {s \in SUBSET B : PartOf(f, A \cup s) = PartOf(f, A) + PartOf(f, s)}
<1>0. /\ PartOf(f, {}) = 0 /\ \A s \in SUBSET D : PartOf(f, s) \in Int
      /\ \A s \in SUBSET D : \A x \in s : PartOf(f, s) = f[x] + PartOf(f, s \ {x})
      /\ \A x \in D : f[x] \in Int
  <2>1. \A x \in D : f[x] \in Int
    OBVIOUS
  <2> QED
    BY <2>1, PartOfSum
<1>1. ASSUME NEW s \in SUBSET B, \A x \in s : s \ {x} \in G PROVE s \in G
  <2>1. CASE s = {}
    <3>1. A \cup s = A
      BY <2>1
    <3> QED
      BY <1>0, <2>1, <3>1
  <2>2. CASE s # {}
    <3>1. PICK x \in s : TRUE
      BY <2>2
    <3>2. PartOf(f, A \cup (s \ {x})) = PartOf(f, A) + PartOf(f, s \ {x})
      BY <1>1
    <3>3. (A \cup s) \ {x} = A \cup (s \ {x}) /\ A \cup s \in SUBSET D /\ s \in SUBSET D /\ s \ {x} \in SUBSET D
          /\ x \in A \cup s /\ x \in D
      OBVIOUS
    <3>4. /\ PartOf(f, A \cup s) = f[x] + PartOf(f, A \cup (s \ {x}))
          /\ PartOf(f, s) = f[x] + PartOf(f, s \ {x})
      BY <1>0, <3>3
    <3>5. PartOf(f, A) \in Int /\ PartOf(f, s \ {x}) \in Int /\ f[x] \in Int
      BY <1>0, <3>3
    <3>6. PartOf(f, A \cup s) = PartOf(f, A) + PartOf(f, s)
      BY <3>2, <3>4, <3>5
    <3> QED
      BY <3>6
  <2> QED
    BY <2>1, <2>2
<1>2. \A s \in SUBSET B : (\A x \in s : s \ {x} \in G) => s \in G
  BY <1>1
<1>3. B \in G
  <2>1. IsFiniteSet(B)
    BY FS_Subset
  <2> HIDE DEF G
  <2>2. \A s \in SUBSET B : s \in G
    BY <1>2, <2>1, BySubsets
  <2> QED
    BY <2>2
<1> QED
  BY <1>3

\* What begins at zero and grows by the terms, taken in any order, is the sum.
LEMMA SumIsOnly ==
    ASSUME NEW D, IsFiniteSet(D), NEW f \in [D -> Int], NEW T, T[{}] = 0,
           \A s \in SUBSET D : s # {} => \E x \in s : T[s] = f[x] + T[s \ {x}]
    PROVE  T[D] = SumOver(f)
<1> DEFINE G == {s \in SUBSET D : T[s] = PartOf(f, s)}
<1>1. /\ PartOf(f, {}) = 0 /\ PartOf(f, D) = SumOver(f)
      /\ \A s \in SUBSET D : \A x \in s : PartOf(f, s) = f[x] + PartOf(f, s \ {x})
  BY PartOfSum
<1>2. ASSUME NEW s \in SUBSET D, \A x \in s : s \ {x} \in G PROVE s \in G
  <2>1. CASE s = {}
    BY <1>1, <2>1
  <2>2. CASE s # {}
    <3>1. PICK x \in s : T[s] = f[x] + T[s \ {x}]
      BY <2>2
    <3>2. T[s \ {x}] = PartOf(f, s \ {x})
      BY <1>2
    <3>3. PartOf(f, s) = f[x] + PartOf(f, s \ {x})
      BY <1>1
    <3> QED
      BY <3>1, <3>2, <3>3
  <2> QED
    BY <2>1, <2>2
<1>3. \A s \in SUBSET D : (\A x \in s : s \ {x} \in G) => s \in G
  BY <1>2
<1>4. D \in G
  <2> HIDE DEF G
  <2>1. \A s \in SUBSET D : s \in G
    BY <1>3, BySubsets
  <2> QED
    BY <2>1
<1> QED
  BY <1>1, <1>4

Adds(h, f, g, D) ==
    /\ IsFiniteSet(D) /\ f \in [D -> Int] /\ g \in [D -> Int] /\ h \in [D -> Int]
    /\ \A i \in D : h[i] = f[i] + g[i]

LEMMA SumPlus ==
    ASSUME NEW h, NEW f, NEW g, NEW D, Adds(h, f, g, D)
    PROVE  SumOver(h) = SumOver(f) + SumOver(g)
<1>0. /\ IsFiniteSet(D) /\ f \in [D -> Int] /\ g \in [D -> Int] /\ h \in [D -> Int]
      /\ \A i \in D : h[i] = f[i] + g[i]
  BY DEF Adds
<1> DEFINE T == [s \in SUBSET D |-> PartOf(f, s) + PartOf(g, s)]
<1>1. /\ PartOf(f, {}) = 0 /\ PartOf(f, D) = SumOver(f)
      /\ \A s \in SUBSET D : PartOf(f, s) \in Int
      /\ \A s \in SUBSET D : \A x \in s : PartOf(f, s) = f[x] + PartOf(f, s \ {x})
  BY <1>0, PartOfSum
<1>2. /\ PartOf(g, {}) = 0 /\ PartOf(g, D) = SumOver(g)
      /\ \A s \in SUBSET D : PartOf(g, s) \in Int
      /\ \A s \in SUBSET D : \A x \in s : PartOf(g, s) = g[x] + PartOf(g, s \ {x})
  BY <1>0, PartOfSum
<1>3. T[{}] = 0
  BY <1>1, <1>2
<1>4. ASSUME NEW s \in SUBSET D, NEW x \in s PROVE T[s] = h[x] + T[s \ {x}]
  <2>1. /\ f[x] \in Int /\ g[x] \in Int /\ h[x] = f[x] + g[x] /\ s \ {x} \in SUBSET D
        /\ T[s] = PartOf(f, s) + PartOf(g, s) /\ T[s \ {x}] = PartOf(f, s \ {x}) + PartOf(g, s \ {x})
    BY <1>0
  <2> DEFINE a == PartOf(f, s \ {x})
             b == PartOf(g, s \ {x})
  <2>2. a \in Int /\ b \in Int /\ PartOf(f, s) = f[x] + a /\ PartOf(g, s) = g[x] + b
    BY <1>1, <1>2
  <2> HIDE DEF T, a, b
  <2> QED
    BY <2>1, <2>2 DEF a, b
<1>5. T[D] = SumOver(h)
  <2>1. IsFiniteSet(D) /\ h \in [D -> Int]
    BY <1>0
  <2> HIDE DEF T
  <2>2. \A s \in SUBSET D : s # {} => \E x \in s : T[s] = h[x] + T[s \ {x}]
    BY <1>4
  <2> QED
    BY <1>3, <2>1, <2>2, SumIsOnly
<1> QED
  BY <1>1, <1>2, <1>5

Scales(h, f, c, D) ==
    /\ IsFiniteSet(D) /\ f \in [D -> Int] /\ h \in [D -> Int] /\ c \in Int
    /\ \A i \in D : h[i] = f[i] * c

LEMMA SumScaled ==
    ASSUME NEW h, NEW f, NEW c, NEW D, Scales(h, f, c, D)
    PROVE  SumOver(h) = SumOver(f) * c
<1>0. /\ IsFiniteSet(D) /\ f \in [D -> Int] /\ h \in [D -> Int] /\ c \in Int
      /\ \A i \in D : h[i] = f[i] * c
  BY DEF Scales
<1> DEFINE T == [s \in SUBSET D |-> PartOf(f, s) * c]
<1>1. /\ PartOf(f, {}) = 0 /\ PartOf(f, D) = SumOver(f)
      /\ \A s \in SUBSET D : PartOf(f, s) \in Int
      /\ \A s \in SUBSET D : \A x \in s : PartOf(f, s) = f[x] + PartOf(f, s \ {x})
  BY <1>0, PartOfSum
<1>2. T[{}] = 0
  BY <1>0, <1>1
<1>3. \A a, b \in Int : (a + b) * c = a * c + b * c /\ a * c \in Int
  BY <1>0
<1>4. ASSUME NEW s \in SUBSET D, NEW x \in s PROVE T[s] = h[x] + T[s \ {x}]
  <2>1. /\ f[x] \in Int /\ h[x] = f[x] * c /\ s \ {x} \in SUBSET D
        /\ T[s] = PartOf(f, s) * c /\ T[s \ {x}] = PartOf(f, s \ {x}) * c
    BY <1>0
  <2>2. PartOf(f, s \ {x}) \in Int /\ PartOf(f, s) = f[x] + PartOf(f, s \ {x})
    BY <1>1
  <2> HIDE DEF T
  <2>3. (f[x] + PartOf(f, s \ {x})) * c = f[x] * c + PartOf(f, s \ {x}) * c
    BY <1>3, <2>1, <2>2
  <2> QED
    BY ONLY <2>1, <2>2, <2>3, Zenon
<1>5. T[D] = SumOver(h)
  <2>1. IsFiniteSet(D) /\ h \in [D -> Int] /\ \A s \in SUBSET D : s # {} => \E x \in s : T[s] = h[x] + T[s \ {x}]
    BY <1>0, <1>3, <1>4
  <2> HIDE DEF T
  <2> QED
    BY <1>2, <2>1, SumIsOnly
<1> QED
  BY <1>1, <1>5

\* A sum taken class by class.
Class(D, g, e) == {i \in D : g[i] = e}

SumsByClass(h, f, D, E, g) ==
    /\ IsFiniteSet(D) /\ IsFiniteSet(E) /\ f \in [D -> Int] /\ g \in [D -> E] /\ h \in [E -> Int]
    /\ \A e \in E : h[e] = PartOf(f, Class(D, g, e))

LEMMA SumOfClasses ==
    ASSUME NEW h, NEW f, NEW D, NEW E, NEW g, SumsByClass(h, f, D, E, g)
    PROVE  SumOver(h) = SumOver(f)
<1> USE DEF SumsByClass
<1> DEFINE By(s) == [e \in E |-> PartOf(f, Class(s, g, e))]
           T == [s \in SUBSET D |-> SumOver(By(s))]
<1>1. /\ PartOf(f, {}) = 0
      /\ \A s \in SUBSET D : PartOf(f, s) \in Int
      /\ \A s \in SUBSET D : \A x \in s : PartOf(f, s) = f[x] + PartOf(f, s \ {x})
  BY PartOfSum
<1>2. \A s \in SUBSET D : \A e \in E : Class(s, g, e) \in SUBSET D
  BY DEF Class
<1>3. \A s \in SUBSET D : By(s) \in [E -> Int]
  BY <1>1, <1>2
<1>4. ASSUME NEW s \in SUBSET D
      PROVE  \A c \in E : Rest(By(s), c) \in [E \ {c} -> Int] /\ SumOver(By(s)) = By(s)[c] + SumOver(Rest(By(s), c))
  <2>1. By(s) \in [E -> Int]
    BY <1>3
  <2> DEFINE k == By(s)
  <2> HIDE DEF k
  <2> QED
    BY <2>1, SumTerm DEF k
<1>5. T[{}] = 0
  <2> DEFINE zero == [e \in E |-> 0]
             Z == [s \in SUBSET E |-> 0]
  <2>1. By({}) = zero
    <3>1. \A e \in E : Class({}, g, e) = {}
      BY DEF Class
    <3> QED
      BY <1>1, <3>1
  <2>2. Z[E] = SumOver(zero)
    <3>1. /\ zero \in [E -> Int] /\ Z[{}] = 0
          /\ \A s \in SUBSET E : s # {} => \E x \in s : Z[s] = zero[x] + Z[s \ {x}]
      OBVIOUS
    <3> HIDE DEF zero, Z
    <3> QED
      BY <3>1, SumIsOnly
  <2>3. Z[E] = 0 /\ T[{}] = SumOver(By({}))
    OBVIOUS
  <2> HIDE DEF zero, Z, T, By
  <2> QED
    BY <2>1, <2>2, <2>3
<1>6. ASSUME NEW s \in SUBSET D, NEW x \in s PROVE T[s] = f[x] + T[s \ {x}]
  <2> DEFINE t == s \ {x}
             c == g[x]
  <2>0. c \in E /\ t \in SUBSET D /\ x \in D /\ f[x] \in Int
    OBVIOUS
  <2>1. \A e \in E \ {c} : Class(s, g, e) = Class(t, g, e)
    BY DEF Class
  <2>2. x \in Class(s, g, c) /\ Class(s, g, c) \ {x} = Class(t, g, c)
    BY DEF Class
  <2>3. By(s)[c] = f[x] + By(t)[c] /\ By(t)[c] \in Int
    BY <1>1, <1>2, <2>0, <2>2
  <2>4. Rest(By(s), c) = Rest(By(t), c)
    BY <2>1 DEF Rest
  <2>5. SumOver(Rest(By(t), c)) \in Int
    <3> DEFINE r == Rest(By(t), c)
               F == E \ {c}
    <3>1. IsFiniteSet(F)
      BY FS_Subset
    <3>2. r \in [F -> Int]
      <4> HIDE DEF By, t, c
      <4> QED
        BY <1>4, <2>0
    <3> HIDE DEF r, F, By, t, c
    <3>3. SumOver(r) \in Int
      BY ONLY <3>1, <3>2, SumTerm, Zenon
    <3> QED
      BY <3>3 DEF r
  <2>6. /\ SumOver(By(s)) = By(s)[c] + SumOver(Rest(By(s), c))
        /\ SumOver(By(t)) = By(t)[c] + SumOver(Rest(By(t), c))
    <3> HIDE DEF By, t, c
    <3> QED
      BY <1>4, <2>0
  <2>7. T[s] = SumOver(By(s)) /\ T[t] = SumOver(By(t))
    BY <2>0
  <2> DEFINE a == By(t)[c]
             r == SumOver(Rest(By(t), c))
  <2>8. T[s] = (f[x] + a) + r /\ T[t] = a + r /\ a \in Int /\ r \in Int
    <3> HIDE DEF By, T, t, c
    <3> QED
      BY <2>3, <2>4, <2>5, <2>6, <2>7
  <2> HIDE DEF a, r, T
  <2> QED
    BY <2>0, <2>8
<1>7. T[D] = SumOver(f)
  <2>1. \A s \in SUBSET D : s # {} => \E x \in s : T[s] = f[x] + T[s \ {x}]
    BY <1>6
  <2> HIDE DEF T
  <2> QED
    BY <1>5, <2>1, SumIsOnly
<1>8. T[D] = SumOver(By(D))
  OBVIOUS
<1>9. h = By(D)
  <2> HIDE DEF T
  <2> QED
    OBVIOUS
<1> HIDE DEF T, By
<1> QED
  BY ONLY <1>7, <1>8, <1>9, Zenon

\* The same terms under other indices.
Reindexes(k, f, D, E, h) ==
    /\ IsFiniteSet(D) /\ IsFiniteSet(E) /\ f \in [E -> Int] /\ h \in [D -> E] /\ k \in [D -> Int]
    /\ \A e \in E : \E i \in D : h[i] = e
    /\ \A i, j \in D : h[i] = h[j] => i = j
    /\ \A i \in D : k[i] = f[h[i]]

LEMMA SumReindexed ==
    ASSUME NEW k, NEW f, NEW D, NEW E, NEW h, Reindexes(k, f, D, E, h)
    PROVE  SumOver(k) = SumOver(f)
<1> USE DEF Reindexes
<1>1. ASSUME NEW e \in E PROVE PartOf(k, Class(D, h, e)) = f[e]
  <2>1. PICK i \in D : h[i] = e
    OBVIOUS
  <2>2. Class(D, h, e) = {i}
    BY <2>1 DEF Class
  <2>3. PartOf(k, {i}) = k[i] + PartOf(k, {i} \ {i}) /\ PartOf(k, {}) = 0
    <3>1. /\ PartOf(k, {}) = 0
          /\ \A s \in SUBSET D : \A x \in s : PartOf(k, s) = k[x] + PartOf(k, s \ {x})
      <4>1. IsFiniteSet(D) /\ k \in [D -> Int]
        OBVIOUS
      <4> HIDE DEF Reindexes
      <4> QED
        BY <4>1, PartOfSum
    <3>2. {i} \in SUBSET D /\ i \in {i}
      OBVIOUS
    <3> QED
      BY ONLY <3>1, <3>2, Zenon
  <2>4. {i} \ {i} = {} /\ k[i] = f[e] /\ f[e] \in Int
    BY <2>1
  <2> DEFINE one == PartOf(k, {i})
  <2>5. one = k[i] + PartOf(k, {}) /\ PartOf(k, {}) = 0
    BY ONLY <2>3, <2>4, Zenon
  <2>6. one = f[e]
    <3> HIDE DEF one
    <3> QED
      BY <2>4, <2>5
  <2> QED
    BY ONLY <2>2, <2>6, Zenon
<1>2. IsFiniteSet(D) /\ IsFiniteSet(E) /\ h \in [D -> E] /\ f \in [E -> Int] /\ k \in [D -> Int]
  OBVIOUS
<1>3. \A e \in E : f[e] = PartOf(k, Class(D, h, e))
  BY <1>1
<1>4. SumsByClass(f, k, D, E, h)
  BY <1>2, <1>3 DEF SumsByClass
<1> HIDE DEF Reindexes
<1> QED
  BY <1>4, SumOfClasses

\* The sum of equal terms.
LEMMA SumConstant ==
    ASSUME NEW D, IsFiniteSet(D), NEW c \in Int, NEW f \in [D -> Int], \A i \in D : f[i] = c
    PROVE  Cardinality(D) \in Nat /\ SumOver(f) = Cardinality(D) * c
<1> DEFINE T == [s \in SUBSET D |-> Cardinality(s) * c]
<1>1. T[{}] = 0 /\ Cardinality(D) \in Nat /\ T[D] = Cardinality(D) * c
  BY FS_EmptySet, FS_CardinalityType
<1>2. ASSUME NEW s \in SUBSET D, s # {} PROVE \E x \in s : T[s] = f[x] + T[s \ {x}]
  <2>1. PICK x \in s : TRUE
    BY <1>2
  <2>2. IsFiniteSet(s)
    BY FS_Subset
  <2>3. Cardinality(s) \in Nat /\ Cardinality(s \ {x}) = Cardinality(s) - 1
    BY <2>1, <2>2, FS_RemoveElement, FS_CardinalityType
  <2>4. T[s] = Cardinality(s) * c /\ T[s \ {x}] = Cardinality(s \ {x}) * c
    OBVIOUS
  <2>5. T[s] = f[x] + T[s \ {x}]
    <3> HIDE DEF T
    <3> QED
      BY <2>3, <2>4, Z3
  <2> QED
    BY <2>5
<1>3. T[D] = SumOver(f)
  <2> HIDE DEF T
  <2> QED
    BY <1>1, <1>2, SumIsOnly
<1> QED
  BY <1>1, <1>3

\* The sum of the steps between two values.
LEMMA Telescopes ==
    ASSUME NEW a \in Int, NEW b \in Int, a <= b, NEW g, \A i \in a..b : g[i] \in Int,
           NEW w \in [a..(b - 1) -> Int], \A i \in a..(b - 1) : w[i] = g[i + 1] - g[i]
    PROVE  SumOver(w) = g[b] - g[a]
<1> DEFINE D == a..(b - 1)
           n == b - a
           S == {k \in 0..n : PartOf(w, a..(a + k - 1)) = g[a + k] - g[a]}
<1>1. IsFiniteSet(D) /\ n \in Nat
  BY FS_Interval
<1>2. /\ PartOf(w, {}) = 0 /\ PartOf(w, D) = SumOver(w)
      /\ \A s \in SUBSET D : PartOf(w, s) \in Int
      /\ \A s \in SUBSET D : \A x \in s : PartOf(w, s) = w[x] + PartOf(w, s \ {x})
  <2>1. w \in [D -> Int]
    OBVIOUS
  <2> HIDE DEF D
  <2> QED
    BY ONLY <1>1, <2>1, PartOfSum
<1>3. 0 \in S
  <2>1. a..(a + 0 - 1) = {} /\ a + 0 = a /\ g[a] \in Int
    OBVIOUS
  <2>2. PartOf(w, a..(a + 0 - 1)) = g[a + 0] - g[a]
    BY <1>2, <2>1
  <2> QED
    BY <1>1, <2>2
<1>4. ASSUME NEW k \in 0..(n - 1), k \in S PROVE k + 1 \in S
  <2> DEFINE x == a + k
             s == a..x
             r == a..(x - 1)
             before == PartOf(w, r)
  <2>0. k \in Nat /\ k + 1 \in 0..n /\ x \in Int /\ a <= x /\ x <= b - 1
    BY <1>1
  <2>1. x \in D /\ x \in s /\ s \in SUBSET D /\ s \ {x} = r /\ k \in Nat /\ k + 1 \in 0..n
    <3> HIDE DEF x
    <3>1. x \in D /\ x \in s
      BY <2>0
    <3>2. s \in SUBSET D
      BY <2>0
    <3>3. s \ {x} = r
      BY <2>0
    <3> QED
      BY <2>0, <3>1, <3>2, <3>3
  <2>2. g[x] \in Int /\ g[x + 1] \in Int /\ g[a] \in Int /\ w[x] = g[x + 1] - g[x]
    BY <1>1, <2>1
  <2>3. before = g[x] - g[a]
    BY <1>4
  <2>4. PartOf(w, s) = w[x] + PartOf(w, s \ {x})
    <3> HIDE DEF x, s, r, D
    <3> QED
      BY <1>2, <2>1
  <2>5. x + 1 = a + (k + 1) /\ a + (k + 1) - 1 = x
    BY <2>1
  <2>6. PartOf(w, s) = g[x + 1] - g[a]
    <3>1. PartOf(w, s) = w[x] + before
      <4> HIDE DEF x, r, s
      <4> QED
        BY <2>1, <2>4
    <3> DEFINE u == g[x]
               v == g[x + 1]
               c == g[a]
    <3>2. u \in Int /\ v \in Int /\ c \in Int /\ w[x] = v - u /\ before = u - c
      BY <2>2, <2>3
    <3> HIDE DEF x, s, r, before, u, v, c
    <3>3. PartOf(w, s) = v - c
      BY <3>1, <3>2
    <3> QED
      BY <3>3 DEF v, c
  <2> HIDE DEF x, r, before
  <2>7. PartOf(w, a..(a + (k + 1) - 1)) = g[a + (k + 1)] - g[a]
    BY <2>5, <2>6
  <2> QED
    BY <2>1, <2>7
<1> HIDE DEF S
<1>5. n \in S
  BY <1>1, <1>3, <1>4, UpTo
<1>6. PartOf(w, a..(a + n - 1)) = g[a + n] - g[a] /\ a + n = b /\ a + n - 1 = b - 1
  BY <1>5 DEF S
<1> QED
  BY <1>2, <1>6

\* A function on 1..n is a sequence.
LEMMA FunctionIsSequence ==
    ASSUME NEW n \in Nat, NEW s, NEW S, s \in [1..n -> S]
    PROVE  s \in Seq(S) /\ Len(s) = n /\ s \in Seq(Range(s))
<1>1. s \in Seq(S) /\ Len(s) = n
  OBVIOUS
<1>2. s \in [1..n -> Range(s)]
  BY DEF Range
<1> QED
  BY <1>1, <1>2

=============================================================================

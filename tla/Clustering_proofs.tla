------------------------- MODULE Clustering_proofs -------------------------
(***************************************************************************)
(* Proofs about Clustering, for any event, any thresholds, grid, radius    *)
(* and limits of the buffers.                                              *)
(*                                                                         *)
(* The first parts say what each search finds: FindSeed and GetSeed the    *)
(* most energetic hit that is free, the ways of collecting a cluster that  *)
(* is GoodCluster, whatever is free.  The last part is the induction over  *)
(* the steps: SoundClusters is what a sequence of good clusters adds up    *)
(* to, Inv says where it is found.                                         *)
(***************************************************************************)
EXTENDS Clustering, SequenceTheorems, FiniteSetTheorems, WellFoundedInduction, TLAPS

-----------------------------------------------------------------------------
(* Numbers and recursive functions. *)

(* Induction, over the elements of a set.                                  *)
LEMMA Induction ==
  ASSUME NEW N, 0 \in N, \A n \in Nat : n \in N => n + 1 \in N
  PROVE  Nat \subseteq N
<1> SUFFICES ASSUME Nat \ N # {} PROVE FALSE
  OBVIOUS
<1>1. PICK n \in Nat \ N : \A m \in Nat \ N : ~ (<<m, n>> \in OpToRel(<, Nat))
  BY WFMin, NatLessThanWellFounded
<1>2. \A m \in Nat \ N : ~ (m < n)
  BY <1>1 DEF OpToRel
<1>3. n # 0 /\ n - 1 \in Nat /\ n - 1 < n
  OBVIOUS
<1>4. n - 1 \in N
  BY <1>2, <1>3
<1>5. QED
  BY <1>3, <1>4

(* The recursive functions on 0..m with step F.  There is one.             *)
Walks(V, m, base, F) ==
  {f \in [0..m -> V] : f[0] = base /\ \A i \in 1..m : f[i] = F[i][f[i - 1]]}

LEMMA Recursion ==
  ASSUME NEW V, NEW m \in Nat, NEW base \in V, NEW F \in [1..m -> [V -> V]]
  PROVE  Walks(V, m, base, F) # {}
<1> DEFINE Good(n, f) == f[0] = base /\ \A i \in 1..n : f[i] = F[i][f[i - 1]]
<1> DEFINE N == {n \in Nat : n <= m => \E f \in [0..n -> V] : Good(n, f)}
<1>1. 0 \in N
  <2> DEFINE f == [i \in 0..0 |-> base]
  <2>1. f \in [0..0 -> V] /\ Good(0, f)
    OBVIOUS
  <2>2. QED
    BY <2>1
<1>2. ASSUME NEW n \in Nat, n \in N PROVE n + 1 \in N
  <2> SUFFICES ASSUME n + 1 <= m PROVE \E f \in [0..(n + 1) -> V] : Good(n + 1, f)
    OBVIOUS
  <2>1. PICK f \in [0..n -> V] : Good(n, f)
    BY <1>2
  <2>2. F[n + 1][f[n]] \in V
    <3>1. n + 1 \in 1..m /\ f[n] \in V
      BY <2>1
    <3>2. F[n + 1] \in [V -> V]
      BY <3>1
    <3>3. QED
      BY <3>1, <3>2
  <2> DEFINE g == [i \in 0..(n + 1) |-> IF i <= n THEN f[i] ELSE F[n + 1][f[n]]]
  <2>3. g \in [0..(n + 1) -> V]
    BY <2>1, <2>2
  <2>4. g[0] = base
    BY <2>1
  <2>5. ASSUME NEW i \in 1..(n + 1) PROVE g[i] = F[i][g[i - 1]]
    <3>1. g[i - 1] = f[i - 1]
      OBVIOUS
    <3>2. CASE i <= n
      BY <2>1, <3>1, <3>2
    <3>3. CASE i = n + 1
      BY <3>1, <3>3
    <3>4. QED
      BY <3>2, <3>3
  <2> HIDE DEF g
  <2>6. QED
    BY <2>3, <2>4, <2>5
<1>3. Nat \subseteq N
  <2> HIDE DEF N
  <2>1. QED
    BY <1>1, <1>2, Induction
<1>4. \E f \in [0..m -> V] : Good(m, f)
  BY <1>3
<1>5. QED
  BY <1>4 DEF Walks

(* What a function on 0..m keeps from step to step it has everywhere.      *)
LEMMA StepByStep ==
  ASSUME NEW m \in Nat, NEW N, 0 \in N,
         \A i \in 1..m : i - 1 \in N => i \in N
  PROVE  \A i \in 0..m : i \in N
<1> DEFINE K == {n \in Nat : n <= m => n \in N}
<1>1. 0 \in K
  OBVIOUS
<1>2. ASSUME NEW n \in Nat, n \in K PROVE n + 1 \in K
  <2> SUFFICES ASSUME n + 1 <= m PROVE n + 1 \in N
    OBVIOUS
  <2>1. n + 1 \in 1..m /\ (n + 1) - 1 \in N
    BY <1>2
  <2>2. QED
    BY <2>1
<1>3. Nat \subseteq K
  <2> HIDE DEF K
  <2>1. QED
    BY <1>1, <1>2, Induction
<1>4. QED
  BY <1>3

-----------------------------------------------------------------------------
(* The members of a set of naturals, from the lowest. *)

LEMMA LargestElement ==
  ASSUME NEW m \in Nat, NEW S, S \subseteq 0..m, S # {}
  PROVE  \E x \in S : \A y \in S : y <= x
<1> DEFINE N == {k \in Nat : \A T \in SUBSET S : T # {} /\ (\A y \in T : y <= k)
                                => \E x \in T : \A y \in T : y <= x}
<1>1. 0 \in N
  <2> SUFFICES ASSUME NEW T \in SUBSET S, T # {}, \A y \in T : y <= 0
               PROVE  \E x \in T : \A y \in T : y <= x
    OBVIOUS
  <2>1. \A y \in T : y = 0
    OBVIOUS
  <2>2. QED
    BY <2>1
<1>2. ASSUME NEW k \in Nat, k \in N PROVE k + 1 \in N
  <2> SUFFICES ASSUME NEW T \in SUBSET S, T # {}, \A y \in T : y <= k + 1
               PROVE  \E x \in T : \A y \in T : y <= x
    OBVIOUS
  <2>1. CASE k + 1 \in T
    BY <2>1
  <2>2. CASE k + 1 \notin T
    <3>1. \A y \in T : y <= k
      BY <2>2
    <3>2. QED
      BY <1>2, <3>1
  <2>3. QED
    BY <2>1, <2>2
<1>3. Nat \subseteq N
  <2> HIDE DEF N
  <2>1. QED
    BY <1>1, <1>2, Induction
<1>4. \A y \in S : y <= m
  OBVIOUS
<1>5. m \in N
  <2> HIDE DEF N
  <2>1. QED
    BY <1>3
<1>6. QED
  BY <1>4, <1>5

Increasing(n, S) == {s \in [1..n -> S] : \A i, j \in 1..n : i < j => s[i] < s[j]}

LEMMA BoundedFinite ==
  ASSUME NEW m \in Nat, NEW S, S \subseteq 0..m
  PROVE  IsFiniteSet(S) /\ Cardinality(S) \in Nat
<1>1. IsFiniteSet(0..m)
  BY FS_Interval
<1>2. IsFiniteSet(S)
  BY <1>1, FS_Subset
<1>3. QED
  BY <1>2, FS_CardinalityType

LEMMA IncreasingExists ==
  ASSUME NEW m \in Nat, NEW S, S \subseteq 0..m
  PROVE  Increasing(Cardinality(S), S) # {}
<1> DEFINE N == {n \in Nat : \A T \in SUBSET S : Cardinality(T) = n => Increasing(n, T) # {}}
<1>1. 0 \in N
  <2> SUFFICES ASSUME NEW T \in SUBSET S PROVE Increasing(0, T) # {}
    OBVIOUS
  <2>1. <<>> \in Increasing(0, T)
    BY DEF Increasing
  <2>2. QED
    BY <2>1
<1>2. ASSUME NEW n \in Nat, n \in N PROVE n + 1 \in N
  <2> SUFFICES ASSUME NEW T \in SUBSET S, Cardinality(T) = n + 1
               PROVE  Increasing(n + 1, T) # {}
    OBVIOUS
  <2>1. IsFiniteSet(T) /\ T \subseteq 0..m
    BY BoundedFinite
  <2>2. T # {}
    BY <2>1, FS_EmptySet
  <2>3. PICK x \in T : \A y \in T : y <= x
    BY <2>1, <2>2, LargestElement
  <2> DEFINE U == T \ {x}
  <2>4. Cardinality(U) = n
    <3>1. Cardinality(U) = Cardinality(T) - 1
      BY <2>1, FS_RemoveElement
    <3>2. QED
      BY <3>1
  <2>5. Increasing(n, U) # {}
    BY <1>2, <2>4
  <2>6. PICK s : s \in Increasing(n, U)
    BY <2>5
  <2>7. s \in [1..n -> U] /\ \A i, j \in 1..n : i < j => s[i] < s[j]
    BY <2>6 DEF Increasing
  <2> DEFINE t == [i \in 1..(n + 1) |-> IF i <= n THEN s[i] ELSE x]
  <2>8. t \in [1..(n + 1) -> T]
    BY <2>7
  <2>9. ASSUME NEW i \in 1..(n + 1), NEW j \in 1..(n + 1), i < j PROVE t[i] < t[j]
    <3>1. i \in 1..n /\ s[i] \in U /\ t[i] = s[i]
      BY <2>7, <2>9
    <3>2. CASE j <= n
      BY <2>7, <2>9, <3>1, <3>2
    <3>3. CASE j = n + 1
      <4>1. s[i] <= x /\ s[i] # x /\ s[i] \in 0..m /\ x \in 0..m
        BY <2>1, <2>3, <3>1
      <4>2. t[j] = x
        BY <3>3
      <4>3. QED
        BY <3>1, <4>1, <4>2
    <3>4. QED
      BY <3>2, <3>3
  <2>10. t \in Increasing(n + 1, T)
    BY <2>8, <2>9 DEF Increasing
  <2>11. QED
    BY <2>10
<1>3. Nat \subseteq N
  <2> HIDE DEF N
  <2>1. QED
    BY <1>1, <1>2, Induction
<1>4. Cardinality(S) \in N
  BY <1>3, BoundedFinite
<1>5. QED
  BY <1>4

LEMMA AscendingIs ==
  ASSUME NEW m \in Nat, NEW S, S \subseteq 0..m
  PROVE  /\ Cardinality(S) \in Nat
         /\ Ascending(S) \in [1..Cardinality(S) -> S]
         /\ \A i, j \in 1..Cardinality(S) : i < j => Ascending(S)[i] < Ascending(S)[j]
         /\ \A i, j \in 1..Cardinality(S) : Ascending(S)[i] = Ascending(S)[j] => i = j
         /\ \A x \in S : \E i \in 1..Cardinality(S) : Ascending(S)[i] = x
<1> DEFINE n == Cardinality(S)
<1> DEFINE s == Ascending(S)
<1>1. n \in Nat /\ IsFiniteSet(S)
  BY BoundedFinite
<1>2. s = CHOOSE t \in Increasing(n, S) : TRUE
  <2>1. \A t \in [1..n -> S] : DOMAIN t = 1..n
    OBVIOUS
  <2>2. s = CHOOSE t \in [1..n -> S] : \A i, j \in DOMAIN t : i < j => t[i] < t[j]
    BY DEF Ascending
  <2>3. \A t : t \in [1..n -> S] /\ (\A i, j \in DOMAIN t : i < j => t[i] < t[j]) <=> t \in Increasing(n, S)
    BY <2>1 DEF Increasing
  <2>4. QED
    BY <2>2, <2>3
<1>3. s \in Increasing(n, S)
  BY <1>2, IncreasingExists
<1>4. s \in [1..n -> S] /\ \A i, j \in 1..n : i < j => s[i] < s[j]
  BY <1>3 DEF Increasing
<1> HIDE DEF n, s
<1>5. ASSUME NEW i \in 1..n, NEW j \in 1..n, s[i] = s[j] PROVE i = j
  <2>1. s[i] \in 0..m /\ s[j] \in 0..m
    BY <1>4
  <2>2. ~(s[i] < s[j]) /\ ~(s[j] < s[i])
    BY <1>5, <2>1
  <2>3. ~(i < j) /\ ~(j < i)
    BY <1>4, <2>2
  <2>4. QED
    BY <1>1, <2>3
<1>6. s \in Injection(1..n, S)
  BY <1>4, <1>5 DEF Injection, IsInjective
<1>7. Cardinality(1..n) = n
  BY <1>1, FS_Interval
<1>8. s \in Surjection(1..n, S)
  BY <1>1, <1>6, <1>7, FS_Injection DEF n
<1>9. \A x \in S : \E i \in 1..n : s[i] = x
  BY <1>8 DEF Surjection
<1>10. QED
  BY <1>1, <1>4, <1>5, <1>9 DEF n, s

-----------------------------------------------------------------------------
(* Hits, lists of hits, and the most energetic of them. *)

HitData == [cell : (0..NRows - 1) \X (0..NCols - 1), e : Int, t : Int]
Typed == algo \in AlgoKinds /\ hits \in Seq(HitData)

LEMMA Constants ==
  /\ {NRows, NCols, CellMax, CrySize, Radius, DtMax, MaxEvHits, MaxHits, MaxClusters} \subseteq Nat \ {0}
  /\ HitThr \in Int /\ SeedThr \in Int /\ SeedThr >= 0 /\ TLow \in Int /\ THigh \in Int
  /\ Events \subseteq Seq(HitData)
  BY ClusteringAssumption DEF ClusteringAssumption, HitData

LEMMA HitsAre ==
  ASSUME Typed
  PROVE  /\ Len(hits) \in Nat /\ Hits = 1..Len(hits)
         /\ \A i \in Hits : /\ Energy(i) \in Int /\ hits[i].t \in Int
                            /\ Cell(i) \in Nat \X Nat /\ Cell(i)[2] \in 0..(NCols - 1)
<1>1. Len(hits) \in Nat /\ DOMAIN hits = 1..Len(hits)
  BY DEF Typed
<1>2. ASSUME NEW i \in Hits
      PROVE  /\ Energy(i) \in Int /\ hits[i].t \in Int
             /\ Cell(i) \in Nat \X Nat /\ Cell(i)[2] \in 0..(NCols - 1)
  <2>1. hits[i] \in HitData
    BY <1>1, <1>2 DEF Typed, Hits
  <2>2. Cell(i) \in (0..NRows - 1) \X (0..NCols - 1)
    BY <2>1 DEF HitData, Cell
  <2>3. 0..NRows - 1 \subseteq Nat /\ 0..NCols - 1 \subseteq Nat
    BY Constants
  <2>4. Energy(i) \in Int /\ hits[i].t \in Int
    BY <2>1 DEF HitData, Energy
  <2>5. QED
    BY <2>2, <2>3, <2>4
<1>3. QED
  BY <1>1, <1>2 DEF Hits

LEMMA HitsFinite ==
  ASSUME Typed, NEW S, S \subseteq Hits
  PROVE  S \subseteq 0..Len(hits) /\ S \subseteq Nat /\ IsFiniteSet(S) /\ Cardinality(S) \in Nat
<1>1. S \subseteq 0..Len(hits) /\ S \subseteq Nat /\ Len(hits) \in Nat
  BY HitsAre
<1>2. QED
  BY <1>1, BoundedFinite

Distinct(l) == \A i, j \in 1..Len(l) : l[i] = l[j] => i = j

LEMMA MembersCounted ==
  ASSUME NEW T, NEW l \in Seq(T), Distinct(l)
  PROVE  Cardinality(ToSet(l)) = Len(l)
<1>1. Len(l) \in Nat /\ DOMAIN l = 1..Len(l)
  OBVIOUS
<1>2. l \in [1..Len(l) -> ToSet(l)]
  BY <1>1 DEF ToSet
<1>3. l \in Bijection(1..Len(l), ToSet(l))
  BY <1>1, <1>2 DEF Distinct, ToSet, Bijection, Injection, Surjection, IsInjective
<1>4. QED
  BY <1>1, <1>3, FS_CountingElements DEF ExistsBijection

LEMMA ListMembers ==
  ASSUME NEW T, NEW l \in Seq(T)
  PROVE  /\ ToSet(l) \subseteq T /\ Len(l) \in Nat
         /\ \A x : x \in ToSet(l) <=> \E i \in 1..Len(l) : x = l[i]
  BY DEF ToSet

LEMMA AppendMember ==
  ASSUME NEW T, NEW l \in Seq(T), NEW x \in T
  PROVE  /\ Append(l, x) \in Seq(T) /\ Len(Append(l, x)) = Len(l) + 1
         /\ ToSet(Append(l, x)) = ToSet(l) \cup {x}
         /\ Distinct(l) /\ x \notin ToSet(l) => Distinct(Append(l, x))
<1> DEFINE m == Append(l, x)
<1>1. /\ m \in Seq(T) /\ Len(m) = Len(l) + 1 /\ Len(l) \in Nat
      /\ m[Len(l) + 1] = x /\ \A i \in 1..Len(l) : m[i] = l[i]
  OBVIOUS
<1> HIDE DEF m
<1>2. ToSet(m) = ToSet(l) \cup {x}
  <2>1. \A i \in 1..Len(m) : i \in 1..Len(l) \/ i = Len(l) + 1
    BY <1>1
  <2>2. \A y : y \in ToSet(m) <=> \E i \in 1..Len(m) : y = m[i]
    BY <1>1, ListMembers
  <2>3. \A y : y \in ToSet(l) <=> \E i \in 1..Len(l) : y = l[i]
    BY ListMembers
  <2>4. Len(l) + 1 \in 1..Len(m) /\ \A i \in 1..Len(l) : i \in 1..Len(m)
    BY <1>1
  <2>5. ASSUME NEW y \in ToSet(m) PROVE y \in ToSet(l) \cup {x}
    BY <1>1, <2>1, <2>2, <2>3, <2>5
  <2>6. ASSUME NEW y \in ToSet(l) \cup {x} PROVE y \in ToSet(m)
    BY <1>1, <2>2, <2>3, <2>4, <2>6
  <2>7. QED
    BY <2>5, <2>6
<1>3. ASSUME Distinct(l), x \notin ToSet(l) PROVE Distinct(m)
  <2> SUFFICES ASSUME NEW i \in 1..Len(m), NEW j \in 1..Len(m), m[i] = m[j] PROVE i = j
    BY DEF Distinct
  <2>1. \A k \in 1..Len(l) : l[k] # x
    BY <1>3, ListMembers
  <2>2. i \in 1..Len(l) \/ i = Len(l) + 1
    BY <1>1
  <2>3. j \in 1..Len(l) \/ j = Len(l) + 1
    BY <1>1
  <2>4. CASE i \in 1..Len(l) /\ j \in 1..Len(l)
    BY <1>1, <1>3, <2>4 DEF Distinct
  <2>5. QED
    BY <1>1, <2>1, <2>2, <2>3, <2>4
<1>4. QED
  BY <1>1, <1>2, <1>3 DEF m

LEMMA AscendingList ==
  ASSUME Typed, NEW S, S \subseteq Hits
  PROVE  /\ Ascending(S) \in Seq(Hits) /\ Ascending(S) \in Seq(S)
         /\ ToSet(Ascending(S)) = S /\ Distinct(Ascending(S))
         /\ Len(Ascending(S)) = Cardinality(S)
<1> DEFINE s == Ascending(S)
<1> DEFINE n == Cardinality(S)
<1>1. Len(hits) \in Nat /\ S \subseteq 0..Len(hits)
  BY HitsAre, HitsFinite
<1>2. /\ n \in Nat /\ s \in [1..n -> S]
      /\ \A i, j \in 1..n : s[i] = s[j] => i = j
      /\ \A x \in S : \E i \in 1..n : s[i] = x
  BY <1>1, AscendingIs
<1> HIDE DEF s, n
<1>3. s \in Seq(S) /\ Len(s) = n /\ DOMAIN s = 1..n
  BY <1>2
<1>4. s \in Seq(Hits)
  BY <1>3
<1>5. ToSet(s) = S
  BY <1>2, <1>3 DEF ToSet
<1>6. Distinct(s)
  BY <1>2, <1>3 DEF Distinct
<1>7. QED
  BY <1>3, <1>4, <1>5, <1>6 DEF s, n

LEMMA LeastIs ==
  ASSUME NEW S, S \subseteq Nat, S # {}
  PROVE  Min(S) \in S /\ \A x \in S : Min(S) <= x
<1>1. PICK n \in S : \A m \in S : ~ (<<m, n>> \in OpToRel(<, Nat))
  BY WFMin, NatLessThanWellFounded
<1>2. \A m \in S : ~ (m < n)
  BY <1>1 DEF OpToRel
<1>3. ASSUME NEW m \in S PROVE n <= m
  <2>1. m \in Nat /\ n \in Nat /\ ~ (m < n)
    BY <1>1, <1>2
  <2>2. QED
    BY <2>1
<1>4. QED
  BY <1>1, <1>3 DEF Min

LEMMA MostEnergetic ==
  ASSUME Typed, NEW S, S \subseteq Hits, S # {}
  PROVE  \E x \in S : \A y \in S : Energy(y) <= Energy(x)
<1> DEFINE N == {n \in Nat : \A U \in SUBSET S : U # {} /\ (\A y \in U : y <= n)
                                => \E x \in U : \A y \in U : Energy(y) <= Energy(x)}
<1>1. \A y \in S : y \in Nat /\ y > 0 /\ Energy(y) \in Int
  BY HitsAre
<1>2. 0 \in N
  BY <1>1
<1>3. ASSUME NEW n \in Nat, n \in N PROVE n + 1 \in N
  <2> SUFFICES ASSUME NEW U \in SUBSET S, U # {}, \A y \in U : y <= n + 1
               PROVE  \E x \in U : \A y \in U : Energy(y) <= Energy(x)
    OBVIOUS
  <2> DEFINE V == U \ {n + 1}
  <2>1. V \in SUBSET S /\ \A y \in V : y <= n
    BY <1>1
  <2>2. CASE V = {}
    <3>1. \A y \in U : y = n + 1
      BY <2>2
    <3>2. QED
      BY <1>1, <3>1
  <2>3. CASE V # {}
    <3>1. PICK x \in V : \A y \in V : Energy(y) <= Energy(x)
      BY <1>3, <2>1, <2>3
    <3>2. CASE n + 1 \in U /\ Energy(n + 1) > Energy(x)
      <4>1. \A y \in U : y \in V \/ y = n + 1
        OBVIOUS
      <4>2. x \in S /\ n + 1 \in S /\ Energy(x) \in Int /\ Energy(n + 1) \in Int
        BY <1>1, <3>2
      <4>3. ASSUME NEW y \in U PROVE Energy(y) <= Energy(n + 1)
        <5>1. Energy(y) \in Int
          BY <1>1
        <5>2. QED
          BY <3>1, <3>2, <4>1, <4>2, <5>1
      <4>4. QED
        BY <3>2, <4>3
    <3>3. CASE ~(n + 1 \in U /\ Energy(n + 1) > Energy(x))
      <4>1. ASSUME NEW y \in U PROVE Energy(y) <= Energy(x)
        <5>1. Energy(y) \in Int /\ Energy(x) \in Int
          BY <1>1
        <5>2. CASE y = n + 1
          BY <3>3, <5>1, <5>2
        <5>3. CASE y # n + 1
          BY <3>1, <5>3
        <5>4. QED
          BY <5>2, <5>3
      <4>2. QED
        BY <4>1
    <3>4. QED
      BY <3>2, <3>3
  <2>4. QED
    BY <2>2, <2>3
<1>4. Nat \subseteq N
  <2> HIDE DEF N
  <2>1. QED
    BY <1>2, <1>3, Induction
<1>5. Len(hits) \in N
  <2>1. Len(hits) \in Nat
    BY HitsAre
  <2> HIDE DEF N
  <2>2. QED
    BY <1>4, <2>1
<1>6. \A y \in S : y <= Len(hits)
  BY HitsAre
<1>7. QED
  BY <1>5, <1>6

\* s leads the hits that are free: none has more energy, nor is it too weak.
Leading(s, free) ==
  s \in free /\ Energy(s) > SeedThr /\ \A i \in free : Energy(i) <= Energy(s)

LEMMA FindSeedIs ==
  ASSUME Typed, NEW S, S \subseteq Hits
  PROVE  /\ FindSeed(S) # 0 => Leading(FindSeed(S), S)
         /\ FindSeed(S) = 0 => \A i \in S : Energy(i) <= SeedThr
<1> DEFINE good == {i \in S : Energy(i) > SeedThr}
<1> DEFINE max == {i \in good : \A j \in good : Energy(j) <= Energy(i)}
<1>0. \A i \in S : Energy(i) \in Int /\ i \in Nat /\ i # 0
  BY HitsAre
<1>1. FindSeed(S) = IF max = {} THEN 0 ELSE Min(max)
  BY DEF FindSeed
<1>2. CASE good = {}
  <2>1. max = {}
    BY <1>2
  <2>2. \A i \in S : Energy(i) <= SeedThr
    BY <1>0, <1>2, Constants
  <2>3. QED
    BY <1>1, <2>1, <2>2
<1>3. CASE good # {}
  <2>1. \E x \in good : \A y \in good : Energy(y) <= Energy(x)
    BY <1>3, MostEnergetic
  <2>2. max # {}
    BY <2>1
  <2>3. max \subseteq Nat
    BY <1>0
  <2> DEFINE s == Min(max)
  <2>4. s \in max
    BY ONLY <2>2, <2>3, LeastIs
  <2>5. FindSeed(S) = s /\ s # 0
    BY <1>0, <1>1, <2>2, <2>4
  <2> HIDE DEF s
  <2>6. s \in S /\ Energy(s) > SeedThr /\ \A j \in good : Energy(j) <= Energy(s)
    BY <2>4
  <2>7. ASSUME NEW i \in S PROVE Energy(i) <= Energy(s)
    <3>1. CASE i \in good
      BY <2>6, <3>1
    <3>2. CASE i \notin good
      <4>1. Energy(i) <= SeedThr /\ Energy(i) \in Int /\ Energy(s) \in Int
        BY <1>0, <2>6, <3>2, Constants
      <4>2. QED
        BY <2>6, <4>1, Constants
    <3>3. QED
      BY <3>1, <3>2
  <2>8. QED
    BY <2>5, <2>6, <2>7 DEF Leading
<1>4. QED
  BY <1>2, <1>3

-----------------------------------------------------------------------------
(* The energy of a list of hits. *)

Sums(l) ==
  {f \in [0..Len(l) -> Int] : f[0] = 0 /\ \A n \in 1..Len(l) : f[n] = f[n - 1] + Energy(l[n])}

LEMMA TotalIs ==
  ASSUME Typed, NEW l \in Seq(Hits)
  PROVE  Sums(l) # {} /\ \A f \in Sums(l) : Total(l) = f[Len(l)]
<1> DEFINE m == Len(l)
<1> DEFINE P(f) == f = [n \in 0..m |-> IF n = 0 THEN 0 ELSE f[n - 1] + Energy(l[n])]
<1>1. m \in Nat /\ \A n \in 1..m : Energy(l[n]) \in Int
  BY HitsAre
<1>2. Sums(l) # {}
  <2> DEFINE F == [n \in 1..m |-> [x \in Int |-> x + Energy(l[n])]]
  <2>1. F \in [1..m -> [Int -> Int]]
    BY <1>1
  <2>2. 0 \in Int
    OBVIOUS
  <2>3. PICK f : f \in Walks(Int, m, 0, F)
    <3> HIDE DEF F, m
    <3>1. Walks(Int, m, 0, F) # {}
      BY <1>1, <2>1, <2>2, Recursion
    <3>2. QED
      BY <3>1
  <2>4. f \in [0..m -> Int] /\ f[0] = 0 /\ \A n \in 1..m : f[n] = F[n][f[n - 1]]
    <3> HIDE DEF F, m
    <3>1. QED
      BY <2>3 DEF Walks
  <2>5. ASSUME NEW n \in 1..m PROVE f[n] = f[n - 1] + Energy(l[n])
    <3>1. n - 1 \in 0..m
      BY <1>1
    <3>2. f[n - 1] \in Int
      BY <2>4, <3>1
    <3>3. QED
      BY <2>4, <3>2
  <2>6. QED
    BY <2>4, <2>5 DEF Sums
<1>3. ASSUME NEW f \in Sums(l) PROVE P(f)
  <2>1. f \in [0..m -> Int] /\ f[0] = 0 /\ \A n \in 1..m : f[n] = f[n - 1] + Energy(l[n])
    BY DEF Sums
  <2>2. ASSUME NEW n \in 0..m PROVE f[n] = IF n = 0 THEN 0 ELSE f[n - 1] + Energy(l[n])
    <3>1. n = 0 \/ n \in 1..m
      BY <1>1
    <3>2. QED
      BY <2>1, <3>1
  <2>3. QED
    BY <2>1, <2>2
<1>4. Total(l) = (CHOOSE f : P(f))[m]
  BY DEF Total
<1>5. PICK g : P(g) /\ Total(l) = g[m]
  BY <1>2, <1>3, <1>4
<1>6. g[0] = 0 /\ \A n \in 1..m : g[n] = g[n - 1] + Energy(l[n])
  <2>1. \A n \in 0..m : g[n] = IF n = 0 THEN 0 ELSE g[n - 1] + Energy(l[n])
    BY <1>5
  <2>2. 0 \in 0..m /\ \A n \in 1..m : n \in 0..m /\ n # 0
    BY <1>1
  <2>3. QED
    BY <2>1, <2>2
<1>7. ASSUME NEW f \in Sums(l) PROVE f[m] = g[m]
  <2> DEFINE N == {n \in 0..m : f[n] = g[n]}
  <2>1. f[0] = 0 /\ \A n \in 1..m : f[n] = f[n - 1] + Energy(l[n])
    BY DEF Sums
  <2>2. 0 \in N
    BY <1>1, <1>6, <2>1
  <2>3. \A n \in 1..m : n - 1 \in N => n \in N
    BY <1>1, <1>6, <2>1
  <2>4. \A n \in 0..m : n \in N
    <3> HIDE DEF N, m
    <3>1. QED
      BY <1>1, <2>2, <2>3, StepByStep
  <2>5. m \in 0..m
    BY <1>1
  <2>6. QED
    BY <2>4, <2>5
<1>8. QED
  BY <1>2, <1>5, <1>7

LEMMA TotalEmpty ==
  ASSUME Typed
  PROVE  Total(<<>>) = 0
<1>1. <<>> \in Seq(Hits) /\ Len(<<>>) = 0
  OBVIOUS
<1>2. PICK f \in Sums(<<>>) : Total(<<>>) = f[0]
  BY <1>1, TotalIs
<1>3. QED
  BY <1>2 DEF Sums

LEMMA TotalAppend ==
  ASSUME Typed, NEW l \in Seq(Hits), NEW i \in Hits
  PROVE  Total(l) \in Int /\ Total(Append(l, i)) = Total(l) + Energy(i)
<1> DEFINE m == Len(l)
<1> DEFINE k == Append(l, i)
<1>1. PICK f \in Sums(l) : Total(l) = f[m]
  BY TotalIs
<1>2. /\ m \in Nat /\ f \in [0..m -> Int] /\ f[0] = 0
      /\ \A n \in 1..m : f[n] = f[n - 1] + Energy(l[n])
  BY DEF Sums
<1>3. k \in Seq(Hits) /\ Len(k) = m + 1 /\ k[m + 1] = i /\ \A n \in 1..m : k[n] = l[n]
  OBVIOUS
<1>4. f[m] \in Int /\ Energy(i) \in Int
  BY <1>2, HitsAre
<1> DEFINE g == [n \in 0..(m + 1) |-> IF n <= m THEN f[n] ELSE f[m] + Energy(i)]
<1> HIDE DEF k, m
<1>5. g \in [0..(m + 1) -> Int]
  BY <1>2, <1>4
<1>6. g[0] = 0 /\ g[m + 1] = f[m] + Energy(i)
  BY <1>2
<1>7. ASSUME NEW n \in 1..(m + 1) PROVE g[n] = g[n - 1] + Energy(k[n])
  <2>1. n - 1 \in 0..m /\ g[n - 1] = f[n - 1]
    BY <1>2
  <2>2. CASE n \in 1..m
    BY <1>2, <1>3, <2>1, <2>2
  <2>3. CASE n = m + 1
    <3>1. n - 1 = m
      BY <1>2, <2>3
    <3>2. QED
      BY <1>3, <1>6, <2>1, <2>3, <3>1
  <2>4. QED
    BY <1>2, <2>2, <2>3
<1>8. g \in Sums(k)
  <2> HIDE DEF g
  <2>1. QED
    BY <1>3, <1>5, <1>6, <1>7 DEF Sums
<1>9. Total(k) = g[m + 1]
  <2> HIDE DEF g
  <2>1. QED
    BY <1>3, <1>8, TotalIs
<1>10. QED
  BY <1>1, <1>4, <1>6, <1>9 DEF k, m

-----------------------------------------------------------------------------
(* What makes a cluster good: free are the hits it could be made of. *)

ClusterType == [seed : Hits, n : Nat, energy : Int, list : Seq(Hits)]
Pool == IF OnCrystals THEN Crystals ELSE Hits
Out == Pool \ Eligible

GoodCluster(x, free) ==
  /\ x \in ClusterType /\ Leading(x.seed, free)
  /\ Members(x) \subseteq free /\ Members(x) # {}
  /\ Distinct(x.list) /\ x.n = Len(x.list)
  /\ x.energy = Total(x.list) - (IF OnCrystals THEN 1 ELSE 0)
  /\ x.seed \in Members(x) \/ (algo = "ecal" /\ Full(x))
  /\ Shape(x, Out \cup free)

LEMMA EligibleIs ==
  ASSUME algo \in AlgoKinds
  PROVE  /\ Eligible \subseteq Hits /\ Out \subseteq Hits /\ Eligible \subseteq Pool
         /\ algo = "ecal" => Eligible = {i \in Hits : Energy(i) >= HitThr}
         /\ algo = "sac" => Eligible = Hits
         /\ Base => Eligible = {i \in Hits : Energy(i) >= HitThr /\ hits[i].t \in TLow..THigh}
         /\ OnCrystals => Eligible = Crystals
<1>1. Crystals \subseteq Hits
  BY DEF Crystals
<1>2. Eligible \subseteq Hits
  BY DEF Eligible
<1>3. CASE algo = "ecal"
  <2>1. Eligible = {i \in Hits : Energy(i) >= HitThr}
    BY <1>3 DEF Eligible, Base, OnCrystals
  <2>2. QED
    BY <1>1, <1>2, <1>3, <2>1 DEF Base, OnCrystals, Out, Pool
<1>4. CASE algo = "sac"
  <2>1. Eligible = Hits
    BY <1>4 DEF Eligible, Base, OnCrystals
  <2>2. QED
    BY <1>1, <1>2, <1>4, <2>1 DEF Base, OnCrystals, Out, Pool
<1>5. CASE Base
  <2>1. algo # "ecal" /\ algo # "sac" /\ ~OnCrystals
    BY <1>5 DEF Base, OnCrystals
  <2>2. Eligible = {i \in Hits : Energy(i) >= HitThr /\ hits[i].t \in TLow..THigh}
    BY <1>5, <2>1 DEF Eligible
  <2>3. QED
    BY <1>1, <1>2, <1>5, <2>1, <2>2 DEF Out, Pool
<1>6. CASE OnCrystals
  <2>1. algo # "ecal" /\ algo # "sac" /\ ~Base
    BY <1>6 DEF Base, OnCrystals
  <2>2. Eligible = {i \in Hits : i \in Crystals}
    BY <1>6, <2>1 DEF Eligible
  <2>3. Eligible = Crystals
    BY <1>1, <2>2
  <2>4. QED
    BY <1>1, <1>2, <1>6, <2>1, <2>3 DEF Out, Pool
<1>7. QED
  BY <1>3, <1>4, <1>5, <1>6 DEF AlgoKinds, Base, OnCrystals

\* What is free and near the seed in time is all that can be in its cluster.
LEMMA TimelyIs ==
  ASSUME algo \in AlgoKinds, ~OnCrystals, NEW free, free \subseteq Eligible, NEW s
  PROVE  Timely(s, Out \cup free) = {i \in free : Near(i, s)}
<1>1. Out = Hits \ Eligible /\ (Base \/ algo = "ecal" \/ algo = "sac")
  BY DEF Out, Pool, AlgoKinds, Base, OnCrystals
<1>2. ASSUME NEW i \in Out, i \in Timely(s, Out \cup free) PROVE FALSE
  <2>1. /\ i \in Hits /\ i \notin Eligible
        /\ algo = "sac" \/ Energy(i) >= HitThr
        /\ Base => hits[i].t \in TLow..THigh
    BY <1>1, <1>2 DEF Timely
  <2>2. QED
    BY <1>1, <2>1, EligibleIs
<1>3. ASSUME NEW i \in free, Near(i, s) PROVE i \in Timely(s, Out \cup free)
  <2>1. /\ algo = "sac" \/ Energy(i) >= HitThr
        /\ Base => hits[i].t \in TLow..THigh
    <3>1. i \in Eligible
      OBVIOUS
    <3>2. QED
      BY <1>1, <3>1, EligibleIs DEF Base
  <2>2. QED
    BY <1>3, <2>1 DEF Timely
<1>4. Timely(s, Out \cup free) \subseteq Out \cup free /\ \A i \in Timely(s, Out \cup free) : Near(i, s)
  BY DEF Timely
<1>5. QED
  BY <1>2, <1>3, <1>4

LEMMA ApartIs ==
  ASSUME Typed, NEW i \in Hits, NEW j \in Hits
  PROVE  /\ DRow(Cell(i), Cell(j)) \in Nat /\ DCol(Cell(i), Cell(j)) \in Nat
         /\ DRow(Cell(i), Cell(j)) = 0 <=> Cell(i)[1] = Cell(j)[1]
         /\ Apart(i, j) = IF DRow(Cell(i), Cell(j)) <= DCol(Cell(i), Cell(j))
                          THEN DCol(Cell(i), Cell(j)) ELSE DRow(Cell(i), Cell(j))
         /\ Apart(i, j) \in Nat /\ Apart(i, j) = Apart(j, i) /\ Apart(i, i) = 0
<1>1. Cell(i)[1] \in Int /\ Cell(i)[2] \in Int /\ Cell(j)[1] \in Int /\ Cell(j)[2] \in Int
  BY HitsAre
<1>2. ASSUME NEW a \in Int, NEW b \in Int
      PROVE  Max({a, b}) = IF a <= b THEN b ELSE a
  <2> DEFINE m == IF a <= b THEN b ELSE a
  <2>1. m \in {a, b} /\ \A y \in {a, b} : m >= y
    OBVIOUS
  <2> DEFINE M == Max({a, b})
  <2>2. M \in {a, b} /\ \A y \in {a, b} : M >= y
    <3> HIDE DEF m
    <3>1. QED
      BY <2>1 DEF Max
  <2> HIDE DEF M
  <2>3. M = a \/ M = b
    BY <2>2
  <2>4. M >= a /\ M >= b
    BY <2>2
  <2>5. M = m
    BY <2>3, <2>4
  <2>6. QED
    BY <2>5 DEF M
<1> DEFINE r == DRow(Cell(i), Cell(j))
<1> DEFINE c == DCol(Cell(i), Cell(j))
<1>3. /\ r \in Nat /\ c \in Nat /\ r = DRow(Cell(j), Cell(i)) /\ c = DCol(Cell(j), Cell(i))
      /\ DRow(Cell(i), Cell(i)) = 0 /\ DCol(Cell(i), Cell(i)) = 0
      /\ r = 0 <=> Cell(i)[1] = Cell(j)[1]
  BY <1>1 DEF DRow, DCol, Abs
<1>4. /\ Apart(i, j) = Max({r, c}) /\ Apart(j, i) = Max({r, c})
      /\ Apart(i, i) = Max({0, 0})
  BY <1>3 DEF Apart, CellsApart
<1>5. Max({r, c}) = (IF r <= c THEN c ELSE r) /\ Max({0, 0}) = 0
  <2>1. r \in Int /\ c \in Int
    BY <1>3
  <2> HIDE DEF r, c
  <2>2. QED
    BY <1>2, <2>1
<1> HIDE DEF r, c
<1>6. Apart(i, j) \in Nat
  BY <1>3, <1>4, <1>5
<1>7. QED
  BY <1>3, <1>4, <1>5, <1>6 DEF r, c

\* The algorithms' distances in cells.
LEMMA DistanceIs ==
  ASSUME Typed, NEW i \in Hits, NEW j \in Hits
  PROVE  /\ algo = "sac" => Distance(Cell(i), Cell(j)) = IF Apart(i, j) <= 1 THEN Apart(i, j) ELSE Beyond
         /\ algo \notin {"sac", "veto"} =>
              Distance(Cell(i), Cell(j)) = IF Apart(i, j) <= CellMax THEN Apart(i, j) ELSE Beyond
         /\ algo = "veto" =>
              Distance(Cell(i), Cell(j)) = IF Cell(i)[1] = Cell(j)[1] /\ Apart(i, j) <= CellMax
                                           THEN Apart(i, j) ELSE Beyond
<1>1. CASE algo = "sac"
  BY <1>1 DEF Distance, Within, Apart
<1>2. CASE algo \notin {"sac", "veto"}
  BY <1>2 DEF Distance, Within, Apart
<1>3. CASE algo = "veto"
  <2>1. Distance(Cell(i), Cell(j)) = IF Cell(i)[1] = Cell(j)[1] THEN Within(DCol(Cell(i), Cell(j)), CellMax) ELSE Beyond
    BY <1>3 DEF Distance
  <2>2. Cell(i)[1] = Cell(j)[1] => Apart(i, j) = DCol(Cell(i), Cell(j))
    <3> SUFFICES ASSUME Cell(i)[1] = Cell(j)[1] PROVE Apart(i, j) = DCol(Cell(i), Cell(j))
      OBVIOUS
    <3>1. DRow(Cell(i), Cell(j)) = 0 /\ DCol(Cell(i), Cell(j)) \in Nat
      BY ApartIs
    <3>2. 0 <= DCol(Cell(i), Cell(j))
      BY <3>1
    <3>3. QED
      BY <3>1, <3>2, ApartIs
  <2>3. QED
    BY <1>3, <2>1, <2>2 DEF Within
<1>4. QED
  BY <1>1, <1>2, <1>3

LEMMA NearItself ==
  ASSUME Typed, NEW s \in Hits
  PROVE  Near(s, s) /\ Distance(Cell(s), Cell(s)) = 0
<1>1. hits[s].t \in Int /\ DtMax \in Nat /\ DtMax > 0 /\ CellMax \in Nat /\ CellMax > 0
  BY HitsAre, Constants
<1>2. Near(s, s)
  BY <1>1 DEF Near
<1>3. Apart(s, s) = 0
  BY ApartIs
<1>4. QED
  BY <1>1, <1>2, <1>3, DistanceIs

-----------------------------------------------------------------------------
(* The clusters of BuildSimpleECalClusters and BuildSimpleSACClusters. *)

LEMMA UptoIs ==
  ASSUME NEW T, NEW l \in Seq(T), NEW n \in Nat, Distinct(l)
  PROVE  /\ Upto(l, n) \in Seq(T) /\ Distinct(Upto(l, n))
         /\ ToSet(Upto(l, n)) \subseteq ToSet(l)
         /\ Len(Upto(l, n)) <= n /\ (n # 0 /\ l # <<>> => Upto(l, n) # <<>>)
         /\ Len(Upto(l, n)) # n => Upto(l, n) = l
<1> DEFINE m == Min({n, Len(l)})
<1>1. m \in {n, Len(l)} /\ m <= n /\ m <= Len(l)
  <2>1. {n, Len(l)} \subseteq Nat /\ {n, Len(l)} # {}
    OBVIOUS
  <2>2. QED
    BY <2>1, LeastIs
<1>2. Upto(l, n) = SubSeq(l, 1, m)
  BY DEF Upto
<1> HIDE DEF m
<1>3. Len(l) \in Nat /\ m \in 0..Len(l)
  BY <1>1
<1>4. /\ Upto(l, n) \in Seq(T) /\ Len(Upto(l, n)) = m
      /\ \A i \in 1..m : Upto(l, n)[i] = l[i] /\ i \in 1..Len(l)
  BY <1>2, <1>3
<1> DEFINE u == Upto(l, n)
<1> HIDE DEF u
<1>5. Distinct(u)
  BY <1>4 DEF Distinct, u
<1>6. ToSet(u) \subseteq ToSet(l)
  <2>1. \A x \in ToSet(u) : \E i \in 1..m : x = l[i]
    BY <1>4, ListMembers DEF u
  <2>2. QED
    BY <1>4, <2>1, ListMembers
<1>7. n # 0 /\ l # <<>> => u # <<>>
  <2> SUFFICES ASSUME n # 0, l # <<>> PROVE u # <<>>
    OBVIOUS
  <2>1. Len(l) # 0
    OBVIOUS
  <2>2. m # 0
    BY <1>1, <2>1
  <2>3. QED
    BY <1>4, <2>2 DEF u
<1>8. Len(u) # n => u = l
  <2> SUFFICES ASSUME Len(u) # n PROVE u = l
    OBVIOUS
  <2>1. m = Len(l)
    BY <1>1, <1>4 DEF u
  <2>2. QED
    BY <1>4, <2>1 DEF u
<1>9. QED
  BY <1>1, <1>4, <1>5, <1>6, <1>7, <1>8 DEF u

LEMMA CollectIs ==
  ASSUME Typed, Simple, NEW s, Belongs(s) \subseteq Hits, Belongs(s) # {}
  PROVE  /\ Collect(s) \in Seq(Hits) /\ Distinct(Collect(s)) /\ Collect(s) # <<>>
         /\ ToSet(Collect(s)) \subseteq Belongs(s)
         /\ algo = "ecal" => Len(Collect(s)) <= MaxHits
         /\ algo = "sac" \/ Len(Collect(s)) # MaxHits => ToSet(Collect(s)) = Belongs(s)
<1> DEFINE l == Ascending(Belongs(s))
<1>1. l \in Seq(Hits) /\ Distinct(l) /\ ToSet(l) = Belongs(s)
  BY AscendingList
<1>2. l # <<>>
  <2>1. ToSet(<<>>) = {}
    BY DEF ToSet
  <2>2. QED
    BY <1>1, <2>1
<1>3. Collect(s) = IF algo = "ecal" THEN Upto(l, MaxHits) ELSE l
  BY DEF Collect
<1>4. MaxHits \in Nat /\ MaxHits # 0
  BY Constants
<1> HIDE DEF l
<1>5. CASE algo = "ecal"
  <2>1. Collect(s) = Upto(l, MaxHits) /\ algo # "sac"
    BY <1>3, <1>5
  <2>2. /\ Upto(l, MaxHits) \in Seq(Hits) /\ Distinct(Upto(l, MaxHits))
        /\ ToSet(Upto(l, MaxHits)) \subseteq ToSet(l) /\ Len(Upto(l, MaxHits)) <= MaxHits
        /\ l # <<>> => Upto(l, MaxHits) # <<>>
        /\ Len(Upto(l, MaxHits)) # MaxHits => Upto(l, MaxHits) = l
    BY <1>1, <1>4, UptoIs
  <2>3. QED
    BY <1>1, <1>2, <2>1, <2>2
<1>6. CASE algo = "sac"
  BY <1>1, <1>2, <1>3, <1>6
<1>7. QED
  BY <1>5, <1>6 DEF Simple

LEMMA SimpleGood ==
  ASSUME Typed, Simple, used \subseteq Hits, Hits \ used \subseteq Eligible,
         NEW s, Leading(s, Hits \ used),
         NEW x, x = [seed |-> s, n |-> Len(Collect(s)), energy |-> Total(Collect(s)), list |-> Collect(s)]
  PROVE  /\ GoodCluster(x, Hits \ used) /\ Collect(s) \in Seq(Hits) /\ Collect(s) # <<>>
         /\ algo = "ecal" => Len(Collect(s)) <= MaxHits
<1> DEFINE free == Hits \ used
<1> DEFINE B == Belongs(s)
<1> DEFINE got == Collect(s)
<1>1. s \in Hits /\ s \in free
  BY DEF Leading
<1>2. ~OnCrystals /\ algo \in {"ecal", "sac"} /\ algo \in AlgoKinds
  BY DEF Simple, OnCrystals, AlgoKinds
<1>3. B \subseteq free /\ s \in B
  BY <1>1, NearItself DEF Belongs, Beyond
<1>4. /\ got \in Seq(Hits) /\ Distinct(got) /\ got # <<>> /\ ToSet(got) \subseteq B
      /\ algo = "ecal" => Len(got) <= MaxHits
      /\ algo = "sac" \/ Len(got) # MaxHits => ToSet(got) = B
  BY <1>3, CollectIs
<1> DEFINE reach == IF algo = "ecal" THEN CellMax ELSE 1
<1>5. B = Square(s, Out \cup free, reach)
  <2>1. Timely(s, Out \cup free) = {i \in free : Near(i, s)}
    BY <1>2, TimelyIs
  <2>2. ASSUME NEW i \in free PROVE Distance(Cell(s), Cell(i)) # Beyond <=> Apart(s, i) <= reach
    <3>1. Apart(s, i) \in Nat
      BY <1>1, ApartIs
    <3>2. Distance(Cell(s), Cell(i)) = IF Apart(s, i) <= reach THEN Apart(s, i) ELSE Beyond
      BY <1>1, <1>2, DistanceIs
    <3>3. QED
      BY <3>1, <3>2 DEF Beyond
  <2> HIDE DEF reach
  <2>3. QED
    BY <2>1, <2>2 DEF Belongs, Square
<1>6. x.seed = s /\ x.list = got /\ x.n = Len(got) /\ x.energy = Total(got) /\ Members(x) = ToSet(got)
  BY DEF Members
<1>7. Len(got) \in Nat /\ Total(got) \in Int
  BY <1>1, <1>4, TotalAppend
<1>8. x \in ClusterType
  BY <1>1, <1>4, <1>7 DEF ClusterType
<1>9. Members(x) # {}
  <2>1. got[1] \in ToSet(got)
    BY <1>4 DEF ToSet
  <2>2. QED
    BY <1>6, <2>1
<1>10. Full(x) <=> algo = "ecal" /\ Len(got) = MaxHits
  BY <1>2, <1>6 DEF Full
<1> HIDE DEF got, B, free
<1>11. Fills(x, B)
  BY <1>2, <1>4, <1>6, <1>10 DEF Fills
<1>12. Shape(x, Out \cup free)
  <2>1. CASE algo = "ecal"
    BY <1>5, <1>6, <1>11, <2>1 DEF Shape
  <2>2. CASE algo = "sac"
    BY <1>5, <1>6, <1>11, <2>2 DEF Shape
  <2>3. QED
    BY <1>2, <2>1, <2>2
<1>13. x.seed \in Members(x) \/ (algo = "ecal" /\ Full(x))
  <2>1. CASE algo = "ecal" /\ Len(got) = MaxHits
    BY <1>10, <2>1
  <2>2. CASE algo = "sac" \/ Len(got) # MaxHits
    BY <1>3, <1>4, <1>6, <2>2
  <2>3. QED
    BY <1>2, <2>1, <2>2
<1>14. Leading(x.seed, free) /\ Members(x) \subseteq free
  BY <1>3, <1>4, <1>6 DEF free
<1>15. x.energy = Total(x.list) - (IF OnCrystals THEN 1 ELSE 0)
  BY <1>2, <1>6, <1>7
<1>16. GoodCluster(x, free)
  BY <1>4, <1>6, <1>8, <1>9, <1>12, <1>13, <1>14, <1>15 DEF GoodCluster
<1>17. QED
  BY <1>4, <1>16 DEF got, free

-----------------------------------------------------------------------------
(* The clusters of PadmeVClusterization. *)

LEMMA PermutationIs ==
  ASSUME Typed, NEW S, S \subseteq Hits, NEW q \in SetToSeqs(S)
  PROVE  /\ q \in Seq(Hits) /\ q \in Seq(S) /\ Distinct(q)
         /\ ToSet(q) = S /\ Len(q) = Cardinality(S)
<1> DEFINE n == Cardinality(S)
<1>1. n \in Nat /\ IsFiniteSet(S)
  BY HitsFinite
<1>2. q \in [1..n -> S] /\ \A i, j \in 1..n : q[i] = q[j] => i = j
  BY DEF SetToSeqs
<1>3. q \in Injection(1..n, S)
  BY <1>2 DEF Injection, IsInjective
<1>4. Cardinality(1..n) = n
  BY <1>1, FS_Interval
<1>5. q \in Surjection(1..n, S)
  BY <1>1, <1>3, <1>4, FS_Injection
<1>6. \A x \in S : \E i \in 1..n : q[i] = x
  BY <1>5 DEF Surjection
<1> HIDE DEF n
<1>7. q \in Seq(S) /\ Len(q) = n /\ DOMAIN q = 1..n
  BY <1>1, <1>2
<1>8. q \in Seq(Hits)
  BY <1>7
<1>9. ToSet(q) = S
  BY <1>2, <1>6, <1>7 DEF ToSet
<1>10. QED
  BY <1>2, <1>7, <1>8, <1>9 DEF Distinct, n

\* What JoinFar has after each of the far hits.
Joins(near, far, s) ==
  {g \in [0..Len(far) -> Seq(Hits)] :
     /\ g[0] = near /\ \A n \in 1..Len(far) : g[n] = Join(g[n - 1], far[n], s)
     /\ JoinFar(near, far, s) = g[Len(far)]}

LEMMA JoinFarIs ==
  ASSUME NEW near \in Seq(Hits), NEW far \in Seq(Hits), NEW s
  PROVE  Joins(near, far, s) # {}
<1> DEFINE m == Len(far)
<1> DEFINE V == Seq(Hits)
<1> DEFINE P(f) == f = [n \in 0..m |-> IF n = 0 THEN near ELSE Join(f[n - 1], far[n], s)]
<1>0. m \in Nat /\ \A n \in 1..m : far[n] \in Hits
  OBVIOUS
<1>1. ASSUME NEW l \in V, NEW n \in 1..m PROVE Join(l, far[n], s) \in V
  <2>1. Append(l, far[n]) \in V
    BY <1>0
  <2>2. QED
    BY <2>1 DEF Join
<1>2. PICK f \in [0..m -> V] : f[0] = near /\ \A n \in 1..m : f[n] = Join(f[n - 1], far[n], s)
  <2> DEFINE F == [n \in 1..m |-> [l \in V |-> Join(l, far[n], s)]]
  <2>1. F \in [1..m -> [V -> V]]
    BY <1>1
  <2>2. PICK f : f \in Walks(V, m, near, F)
    <3> HIDE DEF F, m, V
    <3>0. near \in V
      BY DEF V
    <3>1. Walks(V, m, near, F) # {}
      BY <1>0, <2>1, <3>0, Recursion
    <3>2. QED
      BY <3>1
  <2>3. f \in [0..m -> V] /\ f[0] = near /\ \A n \in 1..m : f[n] = F[n][f[n - 1]]
    <3> HIDE DEF F, m, V
    <3>1. QED
      BY <2>2 DEF Walks
  <2>4. ASSUME NEW n \in 1..m PROVE f[n] = Join(f[n - 1], far[n], s)
    <3>1. n - 1 \in 0..m
      BY <1>0
    <3>2. f[n - 1] \in V
      BY <2>3, <3>1
    <3>3. QED
      BY <2>3, <3>2
  <2>5. QED
    BY <2>3, <2>4
<1>3. P(f)
  <2>1. ASSUME NEW n \in 0..m PROVE f[n] = IF n = 0 THEN near ELSE Join(f[n - 1], far[n], s)
    <3>1. n = 0 \/ n \in 1..m
      BY <1>0
    <3>2. QED
      BY <1>2, <3>1
  <2>2. QED
    BY <1>2, <2>1
<1>4. JoinFar(near, far, s) = (CHOOSE g : P(g))[m]
  BY DEF JoinFar
<1>5. PICK g : P(g) /\ JoinFar(near, far, s) = g[m]
  BY <1>3, <1>4
<1>6. g[0] = near /\ \A n \in 1..m : g[n] = Join(g[n - 1], far[n], s)
  <2>1. \A n \in 0..m : g[n] = IF n = 0 THEN near ELSE Join(g[n - 1], far[n], s)
    BY <1>5
  <2>2. 0 \in 0..m /\ \A n \in 1..m : n \in 0..m /\ n # 0
    BY <1>0
  <2>3. QED
    BY <2>1, <2>2
<1>7. \A n \in 0..m : g[n] \in V
  <2> DEFINE N == {n \in 0..m : g[n] \in V}
  <2>1. 0 \in N
    BY <1>0, <1>6
  <2>2. \A n \in 1..m : n - 1 \in N => n \in N
    BY <1>0, <1>1, <1>6
  <2>3. \A n \in 0..m : n \in N
    <3> HIDE DEF N, m
    <3>1. QED
      BY <1>0, <2>1, <2>2, StepByStep
  <2>4. QED
    BY <2>3
<1>8. g \in [0..m -> V]
  BY <1>5, <1>7
<1>9. QED
  BY <1>5, <1>6, <1>8 DEF Joins

\* In a list and at the distance of a neighbour.
NextTo(m, i, s) == m # s /\ Distance(Cell(m), Cell(i)) = 1

LEMMA JoinIs ==
  ASSUME NEW l \in Seq(Hits), NEW i \in Hits, NEW s
  PROVE  /\ (\E m \in ToSet(l) : NextTo(m, i, s)) => Join(l, i, s) = Append(l, i)
         /\ ~(\E m \in ToSet(l) : NextTo(m, i, s)) => Join(l, i, s) = l
<1>1. (\E m \in ToSet(l) : NextTo(m, i, s))
        <=> \E k \in DOMAIN l : l[k] # s /\ Distance(Cell(l[k]), Cell(i)) = 1
  BY DEF ToSet, NextTo
<1>2. QED
  BY <1>1 DEF Join

\* The n first of the far hits, with the near ones.
Tried(near, far, n) == ToSet(near) \cup {far[k] : k \in 1..n}

LEMMA JoinedIs ==
  ASSUME Typed, NEW near \in Seq(Hits), NEW far \in Seq(Hits), Distinct(near), Distinct(far),
         ToSet(near) \cap ToSet(far) = {}, NEW s, NEW got, got = JoinFar(near, far, s)
  PROVE  /\ got \in Seq(Hits) /\ Distinct(got)
         /\ ToSet(near) \subseteq ToSet(got) /\ ToSet(got) \subseteq ToSet(near) \cup ToSet(far)
         /\ \A n \in 1..Len(far) :
              far[n] \in ToSet(got)
                <=> \E m \in ToSet(got) \cap Tried(near, far, n - 1) : NextTo(m, far[n], s)
<1> DEFINE p == Len(far)
<1>1. PICK g \in [0..p -> Seq(Hits)] :
        /\ g[0] = near /\ \A n \in 1..p : g[n] = Join(g[n - 1], far[n], s)
        /\ got = g[p]
  BY JoinFarIs DEF Joins
<1>2. p \in Nat /\ \A n \in 1..p : far[n] \in Hits /\ far[n] \in ToSet(far)
  BY ListMembers
<1> DEFINE Has(n, x) == x \in ToSet(g[n])
<1> DEFINE Good(n) == /\ Distinct(g[n])
                      /\ \A k \in 0..n : \A x : Has(k, x) <=> Has(n, x) /\ x \in Tried(near, far, k)
<1>3. \A n \in 1..p : far[n] \notin Tried(near, far, n - 1)
  <2> SUFFICES ASSUME NEW n \in 1..p, far[n] \in Tried(near, far, n - 1) PROVE FALSE
    OBVIOUS
  <2>1. PICK k \in 1..(n - 1) : far[n] = far[k]
    BY <1>2 DEF Tried
  <2>2. k \in 1..p /\ k # n
    BY <1>2
  <2>3. QED
    BY <2>1, <2>2 DEF Distinct
<1>4. \A k, n \in 0..p : k <= n => Tried(near, far, k) \subseteq Tried(near, far, n)
  <2> SUFFICES ASSUME NEW k \in 0..p, NEW n \in 0..p, k <= n
               PROVE  Tried(near, far, k) \subseteq Tried(near, far, n)
    OBVIOUS
  <2>1. 1..k \subseteq 1..n
    BY <1>2
  <2>2. QED
    BY <2>1 DEF Tried
<1>5. ASSUME NEW n \in 1..p PROVE far[n] \in Tried(near, far, n)
  <2>1. n \in 1..n
    BY <1>2
  <2>2. QED
    BY <2>1 DEF Tried
<1>6. Good(0)
  <2>1. Tried(near, far, 0) = ToSet(near)
    BY DEF Tried
  <2>2. QED
    BY <1>1, <2>1
<1>7. ASSUME NEW n \in 1..p, Good(n - 1)
      PROVE  /\ Good(n)
             /\ Has(n, far[n]) <=> \E m \in ToSet(g[n - 1]) : NextTo(m, far[n], s)
  <2>0. n - 1 \in 0..p /\ n \in 0..p /\ n - 1 \in 0..(n - 1)
    BY <1>2
  <2>1. /\ n - 1 \in 0..p /\ n \in 0..p /\ g[n - 1] \in Seq(Hits) /\ g[n] \in Seq(Hits)
        /\ far[n] \in Hits /\ n - 1 \in 0..(n - 1)
    BY <1>1, <1>2, <2>0
  <2>2. ~Has(n - 1, far[n])
    BY <1>3, <1>7, <2>1
  <2>3. CASE \E m \in ToSet(g[n - 1]) : NextTo(m, far[n], s)
    <3>1. g[n] = Append(g[n - 1], far[n])
      BY <1>1, <2>1, <2>3, JoinIs
    <3>2. Distinct(g[n]) /\ \A x : Has(n, x) <=> Has(n - 1, x) \/ x = far[n]
      BY <1>7, <2>1, <2>2, <3>1, AppendMember
    <3>3. ASSUME NEW k \in 0..n, NEW x PROVE Has(k, x) <=> Has(n, x) /\ x \in Tried(near, far, k)
      <4>1. CASE k = n
        <5>1. Has(n - 1, x) => x \in Tried(near, far, n)
          BY <1>4, <1>7, <2>1
        <5>2. QED
          BY <1>5, <3>2, <4>1, <5>1
      <4>2. CASE k # n
        <5>1. k \in 0..(n - 1) /\ k \in 0..p /\ k <= n - 1
          BY <1>2, <4>2
        <5>2. far[n] \notin Tried(near, far, k)
          BY <1>3, <1>4, <2>1, <5>1
        <5>3. Has(k, x) <=> Has(n - 1, x) /\ x \in Tried(near, far, k)
          BY <1>7, <5>1
        <5>4. QED
          BY <3>2, <5>2, <5>3
      <4>3. QED
        BY <4>1, <4>2
    <3>4. QED
      BY <2>3, <3>2, <3>3
  <2>4. CASE ~(\E m \in ToSet(g[n - 1]) : NextTo(m, far[n], s))
    <3>1. g[n] = g[n - 1]
      BY <1>1, <2>1, <2>4, JoinIs
    <3>2. ASSUME NEW k \in 0..n, NEW x PROVE Has(k, x) <=> Has(n, x) /\ x \in Tried(near, far, k)
      <4>1. CASE k = n
        <5>1. Has(n - 1, x) => x \in Tried(near, far, n)
          BY <1>4, <1>7, <2>1
        <5>2. QED
          BY <3>1, <4>1, <5>1
      <4>2. CASE k # n
        <5>1. k \in 0..(n - 1)
          BY <1>2, <4>2
        <5>2. Has(k, x) <=> Has(n - 1, x) /\ x \in Tried(near, far, k)
          BY <1>7, <5>1
        <5>3. QED
          BY <3>1, <5>2
      <4>3. QED
        BY <4>1, <4>2
    <3>3. QED
      BY <1>7, <2>2, <2>4, <3>1, <3>2
  <2>5. QED
    BY <2>3, <2>4
<1> HIDE DEF Good
<1>8. \A n \in 0..p : Good(n)
  <2> DEFINE N == {n \in 0..p : Good(n)}
  <2>1. 0 \in N
    BY <1>2, <1>6
  <2>2. \A n \in 1..p : n - 1 \in N => n \in N
    BY <1>2, <1>7
  <2>3. \A n \in 0..p : n \in N
    <3> HIDE DEF N, p
    <3>1. QED
      BY <1>2, <2>1, <2>2, StepByStep
  <2>4. QED
    BY <2>3
<1>9. /\ Distinct(got)
      /\ \A k \in 0..p : \A x : Has(k, x) <=> x \in ToSet(got) /\ x \in Tried(near, far, k)
  <2>1. p \in 0..p
    BY <1>2
  <2>2. Good(p)
    BY <1>8, <2>1
  <2>3. QED
    BY <1>1, <2>2 DEF Good
<1>10. got \in Seq(Hits)
  <2>1. p \in 0..p
    BY <1>2
  <2>2. QED
    BY <1>1, <2>1
<1>11. ToSet(near) \subseteq ToSet(got)
  <2>1. 0 \in 0..p /\ \A x \in ToSet(near) : Has(0, x)
    BY <1>1, <1>2
  <2>2. QED
    BY <1>9, <2>1
<1>12. ToSet(got) \subseteq ToSet(near) \cup ToSet(far)
  <2>1. p \in 0..p
    BY <1>2
  <2>2. \A x \in ToSet(got) : x \in Tried(near, far, p)
    BY <1>1, <1>9, <2>1
  <2>3. QED
    BY <1>2, <2>2 DEF Tried
<1>13. ASSUME NEW n \in 1..p
       PROVE  far[n] \in ToSet(got) <=> \E m \in ToSet(got) \cap Tried(near, far, n - 1) : NextTo(m, far[n], s)
  <2>1. n \in 0..p /\ n - 1 \in 0..p
    BY <1>2
  <2>2. far[n] \in ToSet(got) <=> Has(n, far[n])
    BY <1>5, <1>9, <2>1
  <2>3. ToSet(g[n - 1]) = ToSet(got) \cap Tried(near, far, n - 1)
    BY <1>9, <2>1
  <2>4. Has(n, far[n]) <=> \E m \in ToSet(g[n - 1]) : NextTo(m, far[n], s)
    BY <1>7, <1>8, <2>1
  <2>5. QED
    BY <2>2, <2>3, <2>4
<1>14. QED
  BY <1>9, <1>10, <1>11, <1>12, <1>13

\* What a cluster grown from near to far hits holds: all near ones, what a chain of
\* neighbours leads to, and all that is next to a member nearer to the seed.
Grown(near, far, s, M) ==
  /\ near \subseteq M /\ M \subseteq near \cup far
  /\ \A T : near \subseteq T /\ (\A i \in far \cap M, m \in M \cap T : NextTo(m, i, s) => i \in T)
              => M \subseteq T
  /\ \A i \in far \ M, m \in M : FromSeed(s, m) < FromSeed(s, i) => ~NextTo(m, i, s)

LEMMA GrownIs ==
  ASSUME Typed, NEW s \in Hits, NEW near, near \subseteq Hits, NEW far, far \subseteq Hits,
         near \cap far = {}, NEW q \in SortedByDistance(far, s),
         NEW got, got = JoinFar(Ascending(near), q, s)
  PROVE  got \in Seq(Hits) /\ Distinct(got) /\ Grown(near, far, s, ToSet(got))
<1> DEFINE l == Ascending(near)
<1> DEFINE M == ToSet(got)
<1>1. l \in Seq(Hits) /\ Distinct(l) /\ ToSet(l) = near
  BY AscendingList
<1>2. q \in SetToSeqs(far)
  BY DEF SortedByDistance
<1>3. q \in Seq(Hits) /\ Distinct(q) /\ ToSet(q) = far
  BY <1>2, PermutationIs
<1>4. \A i, j \in 1..Len(q) : i < j => FromSeed(s, q[i]) <= FromSeed(s, q[j])
  BY DEF SortedByDistance, IsSorted
<1> HIDE DEF l
<1>5. /\ got \in Seq(Hits) /\ Distinct(got) /\ near \subseteq M /\ M \subseteq near \cup far
      /\ \A n \in 1..Len(q) :
           q[n] \in M <=> \E m \in M \cap Tried(l, q, n - 1) : NextTo(m, q[n], s)
  BY <1>1, <1>3, JoinedIs DEF l
<1> HIDE DEF M
<1>6. Len(q) \in Nat /\ \A x : x \in far <=> \E n \in 1..Len(q) : x = q[n]
  BY <1>3, ListMembers
<1>7. \A n, x : x \in Tried(l, q, n) <=> x \in near \/ \E k \in 1..n : x = q[k]
  BY <1>1 DEF Tried
<1>8. ASSUME NEW T, near \subseteq T,
             \A i \in far \cap M, m \in M \cap T : NextTo(m, i, s) => i \in T
      PROVE  M \subseteq T
  <2> DEFINE N == {n \in Nat : \A k \in 1..n : k \in 1..Len(q) /\ q[k] \in M => q[k] \in T}
  <2>1. 0 \in N
    OBVIOUS
  <2>2. ASSUME NEW n \in Nat, n \in N PROVE n + 1 \in N
    <3> SUFFICES ASSUME n + 1 \in 1..Len(q), q[n + 1] \in M PROVE q[n + 1] \in T
      <4>1. \A k \in 1..(n + 1) : k \in 1..n \/ k = n + 1
        OBVIOUS
      <4>2. QED
        BY <2>2, <4>1
    <3>1. PICK m \in M \cap Tried(l, q, (n + 1) - 1) : NextTo(m, q[n + 1], s)
      BY <1>5
    <3>2. (n + 1) - 1 = n
      OBVIOUS
    <3>3. m \in Tried(l, q, n)
      BY <3>1, <3>2
    <3>4. m \in T
      <4>1. CASE m \in near
        BY <1>8, <4>1
      <4>2. CASE \E k \in 1..n : m = q[k]
        <5>1. PICK k \in 1..n : m = q[k]
          BY <4>2
        <5>2. k \in 1..Len(q)
          BY <1>6
        <5>3. QED
          BY <2>2, <3>1, <5>1, <5>2
      <4>3. QED
        BY <1>7, <3>3, <4>1, <4>2
    <3>5. q[n + 1] \in far
      BY <1>6
    <3>6. QED
      BY <1>8, <3>1, <3>4, <3>5
  <2>3. Nat \subseteq N
    <3> HIDE DEF N
    <3>1. QED
      BY <2>1, <2>2, Induction
  <2>4. Len(q) \in N
    <3> HIDE DEF N
    <3>1. QED
      BY <1>6, <2>3
  <2>5. ASSUME NEW x \in M PROVE x \in T
    <3>1. CASE x \in near
      BY <1>8, <3>1
    <3>2. CASE x \in far
      BY <1>6, <2>4, <2>5, <3>2
    <3>3. QED
      BY <1>5, <3>1, <3>2
  <2>6. QED
    BY <2>5
<1>9. ASSUME NEW i \in far \ M, NEW m \in M, FromSeed(s, m) < FromSeed(s, i), NextTo(m, i, s)
      PROVE  FALSE
  <2>1. PICK n \in 1..Len(q) : i = q[n]
    BY <1>6
  <2>2. m \notin Tried(l, q, n - 1)
    BY <1>5, <1>9, <2>1
  <2>3. m \notin near
    BY <1>7, <2>2
  <2>4. PICK k \in 1..Len(q) : m = q[k]
    BY <1>5, <1>6, <2>3
  <2>5. k \notin 1..(n - 1)
    BY <1>7, <2>2, <2>4
  <2>6. k # n
    BY <1>9, <2>1, <2>4
  <2>7. n < k
    BY <1>6, <2>5, <2>6
  <2>8. FromSeed(s, i) <= FromSeed(s, m)
    BY <1>4, <2>1, <2>4, <2>7
  <2>9. FromSeed(s, i) \in Int /\ FromSeed(s, m) \in Int
    <3>1. i \in Hits /\ m \in Hits
      BY <1>3, <2>1, <2>4
    <3>2. CellMax \in Nat /\ Apart(s, i) \in Nat /\ Apart(s, m) \in Nat
      BY <3>1, ApartIs, Constants
    <3>3. \A x \in Hits : Apart(s, x) \in Nat => FromSeed(s, x) \in Int
      BY DistanceIs DEF FromSeed, Beyond
    <3>4. QED
      BY <3>1, <3>2, <3>3
  <2>10. QED
    BY <1>9, <2>8, <2>9
<1>10. QED
  BY <1>5, <1>8, <1>9 DEF Grown, M

\* What PadmeVClusterization looks at: free hits near the seed in time, near or far.
Near1(good, s) == {i \in good : FromSeed(s, i) \in {0, 1}}
Far1(good, s) == {i \in good : FromSeed(s, i) > 1}

LEMMA CellsShape ==
  ASSUME Typed, algo = "cells", NEW s \in Hits, NEW good, good \subseteq Hits, s \in good,
         NEW M, Grown(Near1(good, s), Far1(good, s), s, M),
         NEW left, \A n \in Nat : Square(s, left, n) = {i \in good : Apart(s, i) <= n},
         NEW x, x.seed = s, Members(x) = M
  PROVE  Shape(x, left)
<1>1. CellMax \in Nat /\ CellMax > 0
  BY Constants
<1>2. ASSUME NEW i \in Hits, NEW j \in Hits
      PROVE  /\ Apart(i, j) \in Nat /\ Apart(i, j) = Apart(j, i)
             /\ Distance(Cell(i), Cell(j)) = IF Apart(i, j) <= CellMax THEN Apart(i, j) ELSE Beyond
  BY ApartIs, DistanceIs
<1>3. /\ Near1(good, s) = {i \in good : Apart(s, i) <= 1}
      /\ Near1(good, s) \cup Far1(good, s) = {i \in good : Apart(s, i) <= CellMax}
      /\ \A i \in good : Apart(s, i) <= CellMax => FromSeed(s, i) = Apart(s, i)
  <2>1. ASSUME NEW i \in good
        PROVE  /\ FromSeed(s, i) \in {0, 1} <=> Apart(s, i) <= 1
               /\ FromSeed(s, i) \in {0, 1} \/ FromSeed(s, i) > 1 <=> Apart(s, i) <= CellMax
               /\ Apart(s, i) <= CellMax => FromSeed(s, i) = Apart(s, i)
    <3>1. /\ Apart(s, i) \in Nat
          /\ FromSeed(s, i) = IF Apart(s, i) <= CellMax THEN Apart(s, i) ELSE -1
      BY <1>2 DEF FromSeed, Beyond
    <3>2. QED
      BY <1>1, <3>1
  <2>2. QED
    BY <2>1 DEF Near1, Far1
<1>4. Square(s, left, 1) = Near1(good, s) /\ Square(s, left, CellMax) = Near1(good, s) \cup Far1(good, s)
  BY <1>1, <1>3
<1>5. /\ Near1(good, s) \subseteq M /\ M \subseteq Near1(good, s) \cup Far1(good, s)
      /\ \A T : Near1(good, s) \subseteq T
                /\ (\A i \in Far1(good, s) \cap M, m \in M \cap T : NextTo(m, i, s) => i \in T)
                  => M \subseteq T
      /\ \A i \in Far1(good, s) \ M, m \in M : FromSeed(s, m) < FromSeed(s, i) => ~NextTo(m, i, s)
  BY DEF Grown
<1>6. Near1(good, s) \subseteq good /\ Far1(good, s) \subseteq good /\ M \subseteq good
  BY <1>5 DEF Near1, Far1
<1>7. s \in M
  <2>1. Apart(s, s) = 0
    BY ApartIs
  <2>2. QED
    BY <1>3, <1>5, <2>1
<1>8. M = Reachable(s, M, Links(M))
  <2> SUFFICES ASSUME NEW T \in SUBSET M, s \in T, \A p \in Links(M) : p[1] \in T => p[2] \in T
               PROVE  M \subseteq T
    BY DEF Reachable
  <2>1. ASSUME NEW i \in M, NEW j \in M, Apart(i, j) <= 1, i \in T PROVE j \in T
    <3>1. <<i, j>> \in Links(M)
      BY <2>1 DEF Links
    <3>2. <<i, j>>[1] \in T => <<i, j>>[2] \in T
      BY <3>1
    <3>3. QED
      BY <2>1, <3>2
  <2>2. Near1(good, s) \subseteq T
    <3>1. ASSUME NEW i \in Near1(good, s) PROVE i \in T
      <4>1. Apart(s, i) <= 1 /\ i \in M
        BY <1>3, <1>5
      <4>2. QED
        BY <1>7, <2>1, <4>1
    <3>2. QED
      BY <3>1
  <2>3. ASSUME NEW i \in Far1(good, s) \cap M, NEW m \in M \cap T, NextTo(m, i, s) PROVE i \in T
    <3>1. Distance(Cell(m), Cell(i)) = 1 /\ m \in Hits /\ i \in Hits
      BY <1>6, <2>3 DEF NextTo
    <3>2. Apart(m, i) = 1
      BY <1>2, <3>1 DEF Beyond
    <3>3. QED
      BY <2>1, <3>2
  <2>4. QED
    BY <1>5, <2>2, <2>3
<1>9. ASSUME NEW i \in Square(s, left, CellMax) \ M, NEW j \in M \ {s}, Apart(s, j) < Apart(s, i)
      PROVE  Apart(i, j) # 1
  <2>1. i \in Far1(good, s) \ M /\ i \in good /\ j \in good /\ i \in Hits /\ j \in Hits
    BY <1>4, <1>5, <1>6
  <2>2. FromSeed(s, j) = Apart(s, j) /\ FromSeed(s, i) = Apart(s, i)
    BY <1>3, <1>5, <2>1
  <2>3. ~NextTo(j, i, s)
    BY <1>5, <1>9, <2>1, <2>2
  <2>4. Distance(Cell(j), Cell(i)) # 1
    BY <2>3 DEF NextTo
  <2>5. Apart(j, i) # 1
    BY <1>1, <1>2, <2>1, <2>4
  <2>6. QED
    BY <1>2, <2>1, <2>5
<1>10. /\ Square(s, left, 1) \subseteq M /\ M \subseteq Square(s, left, CellMax)
  BY <1>4, <1>5
<1>11. QED
  BY <1>8, <1>9, <1>10 DEF Shape

LEMMA FingersApart ==
  ASSUME Typed, NEW i \in Hits, NEW j \in Hits
  PROVE  /\ Finger(i) \in Nat /\ Finger(i) \in 0..(NCols - 1)
         /\ Cell(i)[1] = Cell(j)[1] =>
              Apart(i, j) = IF Finger(i) <= Finger(j) THEN Finger(j) - Finger(i) ELSE Finger(i) - Finger(j)
<1>0. NCols \in Nat
  BY Constants
<1>1. /\ Finger(i) \in 0..(NCols - 1) /\ Finger(j) \in 0..(NCols - 1)
      /\ Cell(i)[1] \in Int /\ Cell(j)[1] \in Int
  BY HitsAre DEF Finger
<1>2. Finger(i) \in Nat /\ Finger(j) \in Nat
  BY <1>0, <1>1
<1>3. ASSUME Cell(i)[1] = Cell(j)[1]
      PROVE  Apart(i, j) = IF Finger(i) <= Finger(j) THEN Finger(j) - Finger(i) ELSE Finger(i) - Finger(j)
  <2>1. DRow(Cell(i), Cell(j)) = 0
    BY <1>3, ApartIs
  <2>2. DCol(Cell(i), Cell(j)) = IF Finger(i) <= Finger(j) THEN Finger(j) - Finger(i) ELSE Finger(i) - Finger(j)
    BY <1>2 DEF DCol, Abs, Finger
  <2>3. DCol(Cell(i), Cell(j)) \in Nat
    BY ApartIs
  <2>4. 0 <= DCol(Cell(i), Cell(j))
    BY <2>3
  <2>5. Apart(i, j) = DCol(Cell(i), Cell(j))
    BY <2>1, <2>4, ApartIs
  <2>6. QED
    BY <2>2, <2>5
<1>4. QED
  BY <1>1, <1>2, <1>3

LEMMA VetoShape ==
  ASSUME Typed, algo = "veto", NEW s \in Hits, NEW good, good \subseteq Hits, s \in good,
         NEW M, Grown(Near1(good, s), Far1(good, s), s, M),
         NEW left, Timely(s, left) = good, NEW x, x.seed = s, Members(x) = M
  PROVE  Shape(x, left)
<1> DEFINE R == {i \in good : Cell(i)[1] = Cell(s)[1]}
<1> DEFINE Z == Stretch(s, left)
<1>1. CellMax \in Nat /\ CellMax > 0 /\ NCols \in Nat
  BY Constants
<1>2. ASSUME NEW i \in Hits, NEW j \in Hits, Cell(i)[1] = Cell(j)[1]
      PROVE  /\ Finger(i) \in Nat /\ Finger(j) \in Nat /\ Finger(i) < NCols
             /\ Apart(i, j) \in Nat /\ Apart(i, j) = Apart(j, i)
             /\ Apart(i, j) = IF Finger(i) <= Finger(j) THEN Finger(j) - Finger(i) ELSE Finger(i) - Finger(j)
             /\ Distance(Cell(i), Cell(j)) = IF Apart(i, j) <= CellMax THEN Apart(i, j) ELSE -1
  <2>1. /\ Finger(i) \in Nat /\ Finger(j) \in Nat /\ Finger(i) \in 0..(NCols - 1)
        /\ Apart(i, j) = IF Finger(i) <= Finger(j) THEN Finger(j) - Finger(i) ELSE Finger(i) - Finger(j)
    BY <1>2, FingersApart
  <2>2. Finger(i) < NCols
    BY <1>1, <2>1
  <2>3. Apart(i, j) \in Nat /\ Apart(i, j) = Apart(j, i)
    BY ApartIs
  <2>4. Distance(Cell(i), Cell(j)) = IF Apart(i, j) <= CellMax THEN Apart(i, j) ELSE -1
    BY <1>2, DistanceIs DEF Beyond
  <2>5. QED
    BY <2>1, <2>2, <2>3, <2>4
<1>3. /\ Near1(good, s) = {i \in R : Apart(s, i) <= 1}
      /\ Near1(good, s) \cup Far1(good, s) = {i \in R : Apart(s, i) <= CellMax}
      /\ \A i \in R : Apart(s, i) <= CellMax => FromSeed(s, i) = Apart(s, i)
  <2>1. ASSUME NEW i \in R
        PROVE  /\ FromSeed(s, i) \in {0, 1} <=> Apart(s, i) <= 1
               /\ FromSeed(s, i) \in {0, 1} \/ FromSeed(s, i) > 1 <=> Apart(s, i) <= CellMax
               /\ Apart(s, i) <= CellMax => FromSeed(s, i) = Apart(s, i)
    <3>1. /\ Apart(s, i) \in Nat
          /\ FromSeed(s, i) = IF Apart(s, i) <= CellMax THEN Apart(s, i) ELSE -1
      BY <1>2 DEF FromSeed
    <3>2. QED
      BY <1>1, <3>1
  <2>2. ASSUME NEW i \in good, i \notin R
        PROVE  FromSeed(s, i) = -1
    BY <2>2, DistanceIs DEF FromSeed, Beyond
  <2>3. ASSUME NEW i PROVE i \in Near1(good, s) <=> i \in R /\ Apart(s, i) <= 1
    <3>1. CASE i \in R
      BY <2>1, <3>1 DEF Near1
    <3>2. CASE i \notin R
      BY <2>2, <3>2 DEF Near1
    <3>3. QED
      BY <3>1, <3>2
  <2>4. ASSUME NEW i
        PROVE  i \in Near1(good, s) \cup Far1(good, s) <=> i \in R /\ Apart(s, i) <= CellMax
    <3>1. CASE i \in R
      BY <2>1, <3>1 DEF Near1, Far1
    <3>2. CASE i \notin R
      BY <2>2, <3>2 DEF Near1, Far1
    <3>3. QED
      BY <3>1, <3>2
  <2>5. QED
    BY <2>1, <2>3, <2>4
<1>4. /\ Near1(good, s) \subseteq M /\ M \subseteq Near1(good, s) \cup Far1(good, s)
      /\ \A T : Near1(good, s) \subseteq T
                /\ (\A i \in Far1(good, s) \cap M, m \in M \cap T : NextTo(m, i, s) => i \in T)
                  => M \subseteq T
      /\ \A i \in Far1(good, s) \ M, m \in M : FromSeed(s, m) < FromSeed(s, i) => ~NextTo(m, i, s)
  BY DEF Grown
<1>5. \A i : i \in Z <=> /\ i \in R /\ Apart(s, i) <= CellMax
                         /\ \A f \in Between(s, i) : \E j \in R : Finger(j) = f
  BY DEF Stretch, Row
<1>6. \A i, f : f \in Between(s, i) <=>
        f \in 0..NCols - 1 /\ ((Finger(s) < f /\ f < Finger(i)) \/ (Finger(i) < f /\ f < Finger(s)))
  BY DEF Between
<1>7. s \in R /\ R \subseteq Hits
  OBVIOUS
<1> HIDE DEF R, Z
<1>8. ASSUME NEW i \in Near1(good, s) PROVE i \in Z
  <2>1. i \in R /\ Apart(s, i) <= 1
    BY <1>3
  <2>2. \A f \in Between(s, i) : FALSE
    <3>1. /\ Finger(i) \in Nat /\ Finger(s) \in Nat
          /\ Apart(s, i) = IF Finger(s) <= Finger(i) THEN Finger(i) - Finger(s) ELSE Finger(s) - Finger(i)
      BY <1>2, <1>7, <2>1 DEF R
    <3>2. ASSUME NEW f \in Between(s, i) PROVE FALSE
      <4>1. f \in Int /\ ((Finger(s) < f /\ f < Finger(i)) \/ (Finger(i) < f /\ f < Finger(s)))
        BY <1>1, <1>6
      <4>2. QED
        BY <2>1, <3>1, <4>1
    <3>3. QED
      BY <3>2
  <2>3. Apart(s, i) <= CellMax
    <3>1. Apart(s, i) \in Nat
      BY <1>7, <2>1, ApartIs
    <3>2. QED
      BY <1>1, <2>1, <3>1
  <2>4. QED
    BY <1>5, <2>1, <2>2, <2>3
<1>9. ASSUME NEW i \in Far1(good, s) \cap M, NEW m \in M \cap Z, NextTo(m, i, s) PROVE i \in Z
  <2>1. i \in R /\ m \in R /\ Apart(s, i) <= CellMax
    BY <1>3, <1>4, <1>5, <1>9
  <2>2. /\ Finger(i) \in Nat /\ Finger(s) \in Nat /\ Finger(m) \in Nat
        /\ Apart(m, i) \in Nat
        /\ Apart(m, i) = IF Finger(m) <= Finger(i) THEN Finger(i) - Finger(m) ELSE Finger(m) - Finger(i)
        /\ Distance(Cell(m), Cell(i)) = IF Apart(m, i) <= CellMax THEN Apart(m, i) ELSE -1
    BY <1>2, <1>7, <2>1 DEF R
  <2>3. Apart(m, i) = 1
    BY <1>9, <2>2 DEF NextTo
  <2>4. ASSUME NEW f \in Between(s, i) PROVE f = Finger(m) \/ f \in Between(s, m)
    <3>1. f \in 0..NCols - 1 /\ ((Finger(s) < f /\ f < Finger(i)) \/ (Finger(i) < f /\ f < Finger(s)))
      BY <1>6
    <3>2. f \in Int
      BY <1>1, <3>1
    <3>3. f = Finger(m) \/ (Finger(s) < f /\ f < Finger(m)) \/ (Finger(m) < f /\ f < Finger(s))
      BY <2>2, <2>3, <3>1, <3>2
    <3>4. QED
      BY <1>6, <3>1, <3>3
  <2>5. QED
    BY <1>5, <2>1, <2>4
<1>10. M \subseteq Z
  BY <1>4, <1>8, <1>9
<1>11. ASSUME NEW n \in Nat, \A i \in Z : Apart(s, i) <= n => i \in M,
              NEW i \in Z, Apart(s, i) <= n + 1
       PROVE  i \in M
  <2>1. i \in R /\ Apart(s, i) <= CellMax /\ s \in Hits /\ i \in Hits
    BY <1>5, <1>7
  <2>2. /\ Finger(i) \in Nat /\ Finger(s) \in Nat /\ Finger(i) < NCols /\ Finger(s) < NCols
        /\ Apart(s, i) \in Nat
        /\ Apart(s, i) = IF Finger(s) <= Finger(i) THEN Finger(i) - Finger(s) ELSE Finger(s) - Finger(i)
    BY <1>2, <1>7, <2>1 DEF R
  <2>3. CASE Apart(s, i) <= n
    BY <1>11, <2>3
  <2>4. CASE Apart(s, i) <= 1
    BY <1>3, <1>4, <2>1, <2>4
  <2>5. CASE Apart(s, i) = n + 1 /\ n >= 1
    <3> DEFINE f == IF Finger(s) <= Finger(i) THEN Finger(i) - 1 ELSE Finger(i) + 1
    <3>1. f \in 0..NCols - 1 /\ ((Finger(s) < f /\ f < Finger(i)) \/ (Finger(i) < f /\ f < Finger(s)))
      BY <1>1, <2>2, <2>5
    <3>2. PICK j \in R : Finger(j) = f
      <4> HIDE DEF f
      <4>1. QED
        BY <1>5, <1>6, <3>1
    <3>3. j \in Hits /\ Cell(j)[1] = Cell(s)[1] /\ Cell(i)[1] = Cell(s)[1]
      BY <2>1 DEF R
    <3>4. /\ Apart(s, j) = IF Finger(s) <= Finger(j) THEN Finger(j) - Finger(s) ELSE Finger(s) - Finger(j)
          /\ Apart(j, i) = IF Finger(j) <= Finger(i) THEN Finger(i) - Finger(j) ELSE Finger(j) - Finger(i)
          /\ Distance(Cell(j), Cell(i)) = IF Apart(j, i) <= CellMax THEN Apart(j, i) ELSE -1
      BY <1>2, <2>1, <3>3
    <3>5. Apart(s, j) = n /\ Apart(j, i) = 1
      BY <2>2, <2>5, <3>2, <3>4
    <3>6. ASSUME NEW e \in Between(s, j) PROVE e \in Between(s, i)
      <4>1. e \in 0..NCols - 1 /\ ((Finger(s) < e /\ e < Finger(j)) \/ (Finger(j) < e /\ e < Finger(s)))
        BY <1>6
      <4>2. e \in Int
        BY <1>1, <4>1
      <4>3. (Finger(s) < e /\ e < Finger(i)) \/ (Finger(i) < e /\ e < Finger(s))
        BY <2>2, <3>1, <3>2, <4>1, <4>2
      <4>4. QED
        BY <1>6, <4>1, <4>3
    <3>7. Apart(s, j) <= CellMax
      BY <1>1, <2>1, <2>5, <3>5
    <3>8. j \in Z
      BY <1>5, <3>6, <3>7
    <3>9. j \in M
      BY <1>11, <3>5, <3>8
    <3>10. j # s
      <4>1. Apart(s, s) = 0
        BY ApartIs
      <4>2. QED
        BY <2>5, <3>5, <4>1
    <3>11. NextTo(j, i, s)
      BY <1>1, <3>4, <3>5, <3>10 DEF NextTo
    <3>12. FromSeed(s, j) < FromSeed(s, i)
      BY <1>3, <2>1, <2>5, <3>5, <3>7
    <3>13. i \in Near1(good, s) \cup Far1(good, s)
      BY <1>3, <2>1
    <3>14. QED
      BY <1>4, <3>9, <3>11, <3>12, <3>13
  <2>6. QED
    BY <1>11, <2>2, <2>3, <2>4, <2>5
<1>12. Z \subseteq M
  <2> DEFINE N == {n \in Nat : \A i \in Z : Apart(s, i) <= n => i \in M}
  <2>1. 0 \in N
    <3>1. ASSUME NEW i \in Z, Apart(s, i) <= 0 PROVE i \in M
      <4>1. i \in R /\ Apart(s, i) \in Nat
        BY <1>5, <1>7, ApartIs
      <4>2. Apart(s, i) <= 1
        BY <3>1, <4>1
      <4>3. QED
        BY <1>3, <1>4, <4>1, <4>2
    <3>2. QED
      BY <3>1
  <2>2. \A n \in Nat : n \in N => n + 1 \in N
    BY <1>11
  <2>3. Nat \subseteq N
    <3> HIDE DEF N
    <3>1. QED
      BY <2>1, <2>2, Induction
  <2>4. ASSUME NEW i \in Z PROVE i \in M
    <3>1. Apart(s, i) \in Nat
      BY <1>5, <1>7, ApartIs
    <3>2. Apart(s, i) \in N
      BY <2>3, <3>1
    <3>3. Apart(s, i) <= Apart(s, i)
      BY <3>1
    <3>4. QED
      BY <3>2, <3>3
  <2>5. QED
    BY <2>4
<1>13. Fills(x, Stretch(s, left))
  BY <1>10, <1>12 DEF Fills, Z
<1>14. QED
  BY <1>13 DEF Shape

LEMMA BaseGood ==
  ASSUME Typed, Base, used \subseteq Hits, Hits \ used \subseteq Eligible,
         NEW s, Leading(s, Hits \ used),
         NEW good, good = {i \in Hits \ used : Energy(i) >= HitThr /\ Near(i, s)},
         NEW q \in SortedByDistance(Far1(good, s), s),
         NEW got, got = JoinFar(Ascending(Near1(good, s)), q, s),
         NEW x, x = [seed |-> s, n |-> Len(got), energy |-> Total(got), list |-> got]
  PROVE  GoodCluster(x, Hits \ used)
<1> DEFINE free == Hits \ used
<1> DEFINE M == ToSet(got)
<1>1. s \in Hits /\ s \in free
  BY DEF Leading
<1>2. ~OnCrystals /\ algo \in {"veto", "cells"} /\ algo \in AlgoKinds
  BY DEF Base, OnCrystals, AlgoKinds
<1>3. good = {i \in free : Near(i, s)}
  <2>1. \A i \in free : Energy(i) >= HitThr
    BY <1>2, EligibleIs
  <2>2. QED
    BY <2>1
<1>4. Timely(s, Out \cup free) = good
  BY <1>2, <1>3, TimelyIs
<1>5. s \in good /\ good \subseteq Hits
  BY <1>1, <1>3, NearItself
<1> HIDE DEF free
<1>6. /\ Near1(good, s) \subseteq good /\ Far1(good, s) \subseteq good
      /\ Near1(good, s) \cap Far1(good, s) = {}
  <2>1. \A i : FromSeed(s, i) \in {0, 1} => ~(FromSeed(s, i) > 1)
    OBVIOUS
  <2>2. QED
    BY <2>1 DEF Near1, Far1
<1>7. got \in Seq(Hits) /\ Distinct(got) /\ Grown(Near1(good, s), Far1(good, s), s, M)
  BY <1>1, <1>5, <1>6, GrownIs
<1> HIDE DEF M
<1>8. x.seed = s /\ x.list = got /\ x.n = Len(got) /\ x.energy = Total(got) /\ Members(x) = M
  BY DEF Members, M
<1>9. s \in M /\ M \subseteq good
  <2>1. s \in Near1(good, s)
    BY <1>5, NearItself DEF Near1, FromSeed
  <2>2. QED
    BY <1>6, <1>7, <2>1 DEF Grown
<1>10. Shape(x, Out \cup free)
  <2>1. CASE algo = "veto"
    BY <1>1, <1>4, <1>5, <1>7, <1>8, <2>1, VetoShape
  <2>2. CASE algo = "cells"
    <3> DEFINE left == Out \cup free
    <3>1. \A n \in Nat : Square(s, left, n) = {i \in good : Apart(s, i) <= n}
      BY <1>4 DEF Square
    <3> HIDE DEF left
    <3>2. Shape(x, left)
      BY ONLY Typed, <1>1, <1>5, <1>7, <1>8, <2>2, <3>1, CellsShape
    <3>3. QED
      BY <3>2 DEF left
  <2>3. QED
    BY <1>2, <2>1, <2>2
<1>11. Len(got) \in Nat /\ Total(got) \in Int
  BY <1>1, <1>7, TotalAppend
<1>12. x \in ClusterType
  BY <1>1, <1>7, <1>11 DEF ClusterType
<1>13. x.energy = Total(x.list) - (IF OnCrystals THEN 1 ELSE 0)
  BY <1>2, <1>8, <1>11
<1>14. Members(x) \subseteq free
  BY <1>3, <1>8, <1>9
<1>15. QED
  BY <1>7, <1>8, <1>9, <1>10, <1>12, <1>13, <1>14 DEF GoodCluster, free

-----------------------------------------------------------------------------
(* Crystals, and the cluster that is being made of them. *)

LEMMA OneCrystal ==
  ASSUME Typed
  PROVE  Crystals \subseteq Hits /\ \A i, j \in Crystals : Cell(i) = Cell(j) => i = j
<1>1. Crystals \subseteq Hits
  BY DEF Crystals
<1>2. ASSUME NEW i \in Crystals, NEW j \in Crystals, Cell(i) = Cell(j) PROVE i = j
  <2>1. i \in Hits /\ j \in Hits /\ j <= i /\ i <= j
    BY <1>2 DEF Crystals
  <2>2. i \in Int /\ j \in Int
    BY <2>1, HitsAre
  <2>3. QED
    BY <2>1, <2>2
<1>3. QED
  BY <1>1, <1>2

\* fCrystalList after SortEnergy.
Ordered ==
  /\ order \in Seq(Hits) /\ ToSet(order) = Crystals
  /\ \A i, j \in 1..Len(order) : i < j => Energy(order[i]) >= Energy(order[j])

LEMMA GetSeedIs ==
  ASSUME Typed, Ordered
  PROVE  /\ GetSeed # 0 => /\ GetSeed \in 1..Len(order)
                           /\ Leading(order[GetSeed], Crystals \ used)
         /\ GetSeed = 0 => \A i \in Crystals \ used : Energy(i) <= SeedThr
<1> DEFINE I == {k \in 1..Len(order) : order[k] \notin used /\ Energy(order[k]) > SeedThr}
<1>1. GetSeed = IF I # {} THEN Min(I) ELSE 0
  BY DEF GetSeed, SelectInSeq
<1>2. /\ Len(order) \in Nat /\ \A k \in 1..Len(order) : order[k] \in Hits
      /\ \A i : i \in Crystals <=> \E k \in 1..Len(order) : i = order[k]
  BY ListMembers DEF Ordered
<1>3. \A i \in Hits : Energy(i) \in Int
  BY HitsAre
<1>4. I \subseteq Nat /\ 0 \notin I
  BY <1>2
<1>5. CASE I = {}
  <2>1. ASSUME NEW i \in Crystals \ used PROVE Energy(i) <= SeedThr
    <3>1. PICK k \in 1..Len(order) : i = order[k]
      BY <1>2
    <3>2. ~(Energy(i) > SeedThr) /\ Energy(i) \in Int
      BY <1>2, <1>3, <1>5, <3>1
    <3>3. QED
      BY <3>2, Constants
  <2>2. QED
    BY <1>1, <1>5, <2>1
<1>6. CASE I # {}
  <2>1. GetSeed = Min(I)
    BY <1>1, <1>6
  <2>2. Min(I) \in I /\ \A k \in I : Min(I) <= k
    <3> HIDE DEF I
    <3>1. QED
      BY <1>4, <1>6, LeastIs
  <2> DEFINE g == GetSeed
  <2>3. g \in I /\ g # 0 /\ \A k \in I : g <= k
    BY <1>4, <2>1, <2>2
  <2> HIDE DEF g
  <2>4. /\ g \in 1..Len(order) /\ order[g] \in Crystals \ used /\ Energy(order[g]) > SeedThr
        /\ Energy(order[g]) \in Int
    BY <1>2, <1>3, <2>3
  <2>5. ASSUME NEW i \in Crystals \ used PROVE Energy(i) <= Energy(order[g])
    <3>1. PICK k \in 1..Len(order) : i = order[k]
      BY <1>2
    <3>2. Energy(i) \in Int
      BY <1>2, <1>3, <3>1
    <3>3. CASE Energy(i) > SeedThr
      <4>1. k \in I
        BY <3>1, <3>3
      <4>2. g = k \/ g < k
        BY <1>2, <2>3, <2>4, <4>1
      <4>3. QED
        BY <2>4, <3>1, <3>2, <4>2 DEF Ordered
    <3>4. CASE ~(Energy(i) > SeedThr)
      BY <2>4, <3>2, <3>4, Constants
    <3>5. QED
      BY <3>3, <3>4
  <2>6. QED
    BY <2>3, <2>4, <2>5 DEF Leading, g
<1>7. QED
  BY <1>5, <1>6

\* A cluster in the making, when the crystals in u were in use before it.
Making(w, u) ==
  /\ w \in Works /\ Distinct(w.list) /\ Len(w.list) <= MaxHits
  /\ ToSet(w.list) \subseteq Crystals \ u /\ w.used = u \cup ToSet(w.list)
  /\ w.energy = Total(w.list) - 1

LEMMA AddIs ==
  ASSUME Typed, NEW u, NEW w, Making(w, u), NEW i \in Crystals, i \notin w.used
  PROVE  /\ Making(AddCrystal(w, i), u)
         /\ Len(w.list) = MaxHits => AddCrystal(w, i) = w
         /\ Len(w.list) # MaxHits => /\ AddCrystal(w, i).used = w.used \cup {i}
                                     /\ Len(AddCrystal(w, i).list) = Len(w.list) + 1
<1> DEFINE l == w.list
<1> DEFINE r == AddCrystal(w, i)
<1>1. /\ w \in Works /\ Distinct(l) /\ Len(l) <= MaxHits
      /\ ToSet(l) \subseteq Crystals \ u /\ w.used = u \cup ToSet(l) /\ w.energy = Total(l) - 1
  BY DEF Making
<1>2. l \in Seq(Hits) /\ w.used \subseteq Hits /\ w.energy \in Int /\ Len(l) \in Nat /\ MaxHits \in Nat
  BY <1>1, Constants DEF Works
<1>3. i \in Hits /\ Energy(i) \in Int
  BY OneCrystal, HitsAre
<1>4. CASE Len(l) = MaxHits
  <2>1. r = w
    BY <1>2, <1>4 DEF AddCrystal
  <2>2. QED
    BY <1>4, <2>1
<1>5. CASE Len(l) # MaxHits
  <2>1. r = [used |-> w.used \cup {i}, list |-> Append(l, i), energy |-> w.energy + Energy(i)]
    BY <1>1, <1>2, <1>5 DEF AddCrystal
  <2> HIDE DEF l
  <2>2. /\ Append(l, i) \in Seq(Hits) /\ Len(Append(l, i)) = Len(l) + 1
        /\ ToSet(Append(l, i)) = ToSet(l) \cup {i} /\ Distinct(Append(l, i))
    BY <1>1, <1>2, <1>3, AppendMember
  <2>3. Total(l) \in Int /\ Total(Append(l, i)) = Total(l) + Energy(i)
    BY <1>2, <1>3, TotalAppend
  <2>4. r.used = w.used \cup {i} /\ r.list = Append(l, i) /\ r.energy = w.energy + Energy(i)
    BY <2>1
  <2>5. r \in Works
    BY <1>2, <1>3, <2>1, <2>2 DEF Works
  <2>6. Len(r.list) <= MaxHits
    BY <1>1, <1>2, <1>5, <2>2, <2>4
  <2>7. ToSet(r.list) \subseteq Crystals \ u /\ r.used = u \cup ToSet(r.list)
    BY <1>1, <2>2, <2>4
  <2>8. r.energy = Total(r.list) - 1
    BY <1>1, <1>3, <2>3, <2>4
  <2> HIDE DEF r
  <2>9. Making(r, u)
    BY <2>2, <2>4, <2>5, <2>6, <2>7, <2>8 DEF Making
  <2>10. QED
    BY <1>5, <2>2, <2>4, <2>9 DEF l, r
<1>6. QED
  BY <1>4, <1>5

LEMMA FirstCrystal ==
  ASSUME Typed, used \subseteq Hits, NEW s \in Crystals \ used,
         NEW w, w = AddCrystal(NoCrystals, s)
  PROVE  Making(w, used) /\ ToSet(w.list) = {s}
<1>1. /\ NoCrystals.used = used /\ NoCrystals.list = <<>> /\ NoCrystals.energy = -1
      /\ NoCrystals \in Works
  BY DEF NoCrystals, Works
<1>2. Len(<<>>) = 0 /\ ToSet(<<>>) = {} /\ Total(<<>>) = 0 /\ Distinct(<<>>)
  BY TotalEmpty DEF ToSet, Distinct
<1>3. MaxHits \in Nat /\ MaxHits # 0
  BY Constants
<1>4. Making(NoCrystals, used)
  BY <1>1, <1>2, <1>3 DEF Making
<1>5. Making(w, used) /\ w.used = used \cup {s}
  BY <1>1, <1>2, <1>3, <1>4, AddIs
<1>6. ToSet(w.list) \subseteq Crystals \ used /\ w.used = used \cup ToSet(w.list)
  BY <1>5 DEF Making
<1>7. QED
  BY <1>5, <1>6

\* What makes a cluster of a seed and the work on it good.
LEMMA CrystalGood ==
  ASSUME Typed, OnCrystals, used \subseteq Hits, NEW s, Leading(s, Crystals \ used),
         NEW c, Making(c, used), s \in ToSet(c.list),
         NEW x, x = [seed |-> s, n |-> Len(c.list), energy |-> c.energy, list |-> c.list],
         Shape(x, Crystals \ used)
  PROVE  GoodCluster(x, Eligible \ used) /\ c.used = used \cup Members(x) /\ c.used \subseteq Hits
<1>1. Eligible = Crystals /\ Pool = Crystals /\ Out = {}
  <2>1. algo \in AlgoKinds
    BY DEF Typed
  <2>2. QED
    BY <2>1, EligibleIs DEF Pool, Out
<1>2. /\ c \in Works /\ Distinct(c.list) /\ ToSet(c.list) \subseteq Crystals \ used
      /\ c.used = used \cup ToSet(c.list) /\ c.energy = Total(c.list) - 1
  BY DEF Making
<1>3. c.list \in Seq(Hits) /\ c.energy \in Int /\ c.used \subseteq Hits
  BY <1>2 DEF Works
<1>4. /\ x.seed = s /\ x.list = c.list /\ x.n = Len(c.list) /\ x.energy = c.energy
      /\ Members(x) = ToSet(c.list)
  BY DEF Members
<1>5. s \in Hits /\ Len(c.list) \in Nat
  BY <1>3, OneCrystal DEF Leading
<1>6. x \in ClusterType
  BY <1>3, <1>5 DEF ClusterType
<1>7. Out \cup (Crystals \ used) = Crystals \ used
  BY <1>1
<1>8. GoodCluster(x, Crystals \ used)
  BY <1>2, <1>4, <1>6, <1>7 DEF GoodCluster
<1>9. QED
  BY <1>1, <1>2, <1>3, <1>4, <1>8

-----------------------------------------------------------------------------
(* The radius finder. *)

\* Where j is, seen from i.
Offset(i, j) == <<Cell(j)[1] - Cell(i)[1], Cell(j)[2] - Cell(i)[2]>>

LEMMA ShiftIs ==
  ASSUME Typed, NEW i \in Hits, NEW j \in Hits, NEW d \in Int \X Int
  PROVE  /\ Offset(i, j) \in Int \X Int
         /\ Cell(j) = Shift(Cell(i), d) <=> d = Offset(i, j)
<1>1. Cell(i) \in Nat \X Nat /\ Cell(j) \in Nat \X Nat
  BY HitsAre
<1>2. PICK a, b, e, f \in Nat : Cell(i) = <<a, b>> /\ Cell(j) = <<e, f>>
  BY <1>1
<1>3. PICK m, n \in Int : d = <<m, n>>
  OBVIOUS
<1>4. <<e, f>> = <<a + m, b + n>> <=> <<m, n>> = <<e - a, f - b>>
  OBVIOUS
<1>5. Shift(Cell(i), d) = <<a + m, b + n>> /\ Offset(i, j) = <<e - a, f - b>>
  BY <1>2, <1>3 DEF Shift, Offset
<1>6. QED
  BY <1>2, <1>3, <1>4, <1>5

LEMMA Divided ==
  ASSUME NEW m \in Nat, m # 0, NEW a \in Int, NEW b \in 0..(m - 1)
  PROVE  (a * m + b) \div m = a /\ (a * m + b) % m = b
<1>1. b \in Int /\ 0 <= b /\ b < m
  OBVIOUS
<1> DEFINE n == a * m + b
<1> DEFINE q == n \div m
<1> DEFINE r == n % m
<1>2. n \in Int
  BY <1>1
<1>3. q \in Int /\ r \in Int /\ n = m * q + r /\ 0 <= r /\ r < m
  BY <1>2
<1>4. a * m + b = m * q + r
  BY <1>3
<1> HIDE DEF n, q, r
<1>5. m * (a - q) = r - b
  BY <1>1, <1>3, <1>4
<1>6. CASE a > q
  <2>1. m * (a - q) >= m
    BY <1>3, <1>6
  <2>2. QED
    BY <1>1, <1>3, <1>5, <2>1
<1>7. CASE a < q
  <2>1. m * (a - q) <= -m
    BY <1>3, <1>7
  <2>2. QED
    BY <1>1, <1>3, <1>5, <2>1
<1>8. CASE a = q
  <2>1. r = b
    BY <1>1, <1>3, <1>5, <1>8
  <2>2. QED
    BY <1>8, <2>1 DEF n, q, r
<1>9. QED
  BY <1>3, <1>6, <1>7, <1>8

\* A centre within the radius is within reach.
LEMMA ReachIs ==
  /\ Reach \in Nat /\ Side \in Nat /\ Side = 2 * Reach + 1
  /\ \A n \in Int : (n * CrySize) * (n * CrySize) <= Radius * Radius => -Reach <= n /\ n <= Reach
<1>1. CrySize \in Nat /\ CrySize > 0 /\ Radius \in Nat /\ Radius > 0
  BY Constants
<1>2. Reach \in Int /\ Radius = CrySize * Reach + (Radius % CrySize) /\ 0 <= Radius % CrySize /\ Radius % CrySize < CrySize
  BY <1>1 DEF Reach
<1>3. CrySize * Reach <= Radius /\ Radius < CrySize * (Reach + 1)
  BY <1>1, <1>2
<1>4. Reach >= 0
  <2> SUFFICES ASSUME Reach <= -1 PROVE FALSE
    BY <1>2
  <2>1. CrySize * (Reach + 1) <= 0
    BY <1>1, <1>2
  <2>2. QED
    BY <1>1, <1>2, <1>3, <2>1
<1>5. ASSUME NEW n \in Int, n >= Reach + 1
      PROVE  (n * CrySize) * (n * CrySize) > Radius * Radius
  <2> DEFINE a == n * CrySize
  <2>1. a \in Int /\ a >= CrySize * (Reach + 1)
    BY <1>1, <1>2, <1>5
  <2>2. a > Radius
    BY <1>1, <1>2, <1>3, <2>1
  <2> HIDE DEF a
  <2>3. a * a > Radius * Radius
    BY <1>1, <2>1, <2>2
  <2>4. QED
    BY <2>3 DEF a
<1>6. ASSUME NEW n \in Int, (n * CrySize) * (n * CrySize) <= Radius * Radius
      PROVE  -Reach <= n /\ n <= Reach
  <2>1. n <= Reach
    <3> SUFFICES ASSUME n >= Reach + 1 PROVE FALSE
      BY <1>2
    <3>1. (n * CrySize) * (n * CrySize) > Radius * Radius
      BY <1>5
    <3> DEFINE a == (n * CrySize) * (n * CrySize)
    <3>2. a \in Int /\ Radius * Radius \in Int
      BY <1>1
    <3>3. QED
      BY <1>6, <3>1, <3>2
  <2>2. -Reach <= n
    <3> SUFFICES ASSUME -n >= Reach + 1 PROVE FALSE
      BY <1>2
    <3>1. ((-n) * CrySize) * ((-n) * CrySize) > Radius * Radius
      BY <1>5
    <3>2. ((-n) * CrySize) * ((-n) * CrySize) = (n * CrySize) * (n * CrySize)
      BY <1>1
    <3> DEFINE a == (n * CrySize) * (n * CrySize)
    <3>3. a \in Int /\ Radius * Radius \in Int
      BY <1>1
    <3>4. QED
      BY <1>6, <3>1, <3>2, <3>3
  <2>3. QED
    BY <2>1, <2>2
<1>7. QED
  BY <1>2, <1>4, <1>6 DEF Side

LEMMA BoxIs ==
  /\ Side * Side \in Nat
  /\ \A k \in 1..(Side * Side) : Box[k] \in Int \X Int
  /\ \A d \in Int \X Int : Neighbour(d) => \E k \in 1..(Side * Side) : Box[k] = d
<1>1. Reach \in Nat /\ Side \in Nat /\ Side = 2 * Reach + 1
  BY ReachIs
<1>2. Side * Side \in Nat
  BY <1>1
<1>3. ASSUME NEW k \in 1..(Side * Side)
      PROVE  /\ Box[k] = <<((k - 1) \div Side) - Reach, ((k - 1) % Side) - Reach>>
             /\ Box[k] \in Int \X Int
  <2>1. Box[k] = <<((k - 1) \div Side) - Reach, ((k - 1) % Side) - Reach>>
    BY DEF Box
  <2>2. k - 1 \in Int /\ Side > 0
    BY <1>1, <1>2
  <2>3. (k - 1) \div Side \in Int /\ (k - 1) % Side \in Int
    BY <1>1, <2>2
  <2>4. ((k - 1) \div Side) - Reach \in Int /\ ((k - 1) % Side) - Reach \in Int
    BY <1>1, <2>3
  <2>5. QED
    BY <2>1, <2>4
<1>4. ASSUME NEW a \in Int, NEW b \in Int, Neighbour(<<a, b>>)
      PROVE  \E k \in 1..(Side * Side) : Box[k] = <<a, b>>
  <2>1. CrySize \in Nat /\ Radius \in Nat
    BY Constants
  <2> DEFINE A == (a * CrySize) * (a * CrySize)
  <2> DEFINE B == (b * CrySize) * (b * CrySize)
  <2>2. A + B <= Radius * Radius
    BY <1>4 DEF Neighbour
  <2>3. A \in Int /\ B \in Int /\ A >= 0 /\ B >= 0 /\ Radius * Radius \in Int
    <3>1. \A n \in Int : n * n \in Int /\ n * n >= 0
      OBVIOUS
    <3>2. a * CrySize \in Int /\ b * CrySize \in Int
      BY <2>1
    <3>3. QED
      BY <2>1, <3>1, <3>2
  <2>4. A <= Radius * Radius /\ B <= Radius * Radius
    <3> HIDE DEF A, B
    <3>1. QED
      BY <2>2, <2>3
  <2>5. -Reach <= a /\ a <= Reach /\ -Reach <= b /\ b <= Reach
    BY <2>4, ReachIs
  <2> DEFINE m == a + Reach
  <2> DEFINE n == b + Reach
  <2> DEFINE k == (m * Side + n) + 1
  <2>6. m \in Int /\ 0 <= m /\ m <= Side - 1 /\ n \in Int /\ 0 <= n /\ n <= Side - 1
    BY <1>1, <2>5
  <2>7. k - 1 = m * Side + n
    BY <1>1, <2>6
  <2>8. (k - 1) \div Side = m /\ (k - 1) % Side = n
    <3> HIDE DEF m, n, k
    <3>1. n \in 0..(Side - 1) /\ Side # 0
      BY <1>1, <2>6
    <3>2. (m * Side + n) \div Side = m /\ (m * Side + n) % Side = n
      BY ONLY <1>1, <2>6, <3>1, Divided
    <3>3. QED
      BY <2>7, <3>2
  <2>9. k \in 1..(Side * Side)
    <3> HIDE DEF m, n
    <3>1. m * Side \in Int /\ 0 <= m * Side /\ m * Side <= (Side - 1) * Side
      BY <1>1, <2>6
    <3>2. (Side - 1) * Side = Side * Side - Side
      BY <1>1
    <3> DEFINE p == m * Side
    <3> DEFINE q == Side * Side
    <3>3. p \in Int /\ 0 <= p /\ p <= q - Side /\ q \in Int
      BY <1>1, <1>2, <3>1, <3>2
    <3>4. k = (p + n) + 1
      OBVIOUS
    <3> HIDE DEF p, q, k
    <3>5. k \in 1..q
      BY <1>1, <2>6, <3>3, <3>4
    <3>6. QED
      BY <3>5 DEF q
  <2>10. Box[k] = <<a, b>>
    <3>1. m - Reach = a /\ n - Reach = b
      BY <1>1
    <3> HIDE DEF m, n, k
    <3>2. QED
      BY <1>3, <2>8, <2>9, <3>1
  <2>11. QED
    BY <2>9, <2>10
<1>5. ASSUME NEW d \in Int \X Int, Neighbour(d)
      PROVE  \E k \in 1..(Side * Side) : Box[k] = d
  <2>1. PICK a, b \in Int : d = <<a, b>>
    OBVIOUS
  <2>2. QED
    BY <1>4, <1>5, <2>1
<1>6. QED
  BY <1>2, <1>3, <1>5

LEMMA NeighbourIs ==
  ASSUME Typed, NEW i \in Crystals, NEW j \in Crystals
  PROVE  Neighbour(Offset(i, j)) <=>
           /\ i # j
           /\ (DRow(Cell(i), Cell(j)) * CrySize) * (DRow(Cell(i), Cell(j)) * CrySize)
              + (DCol(Cell(i), Cell(j)) * CrySize) * (DCol(Cell(i), Cell(j)) * CrySize) <= Radius * Radius
<1>1. i \in Hits /\ j \in Hits /\ CrySize \in Int
  BY OneCrystal, Constants
<1>2. Cell(i) \in Nat \X Nat /\ Cell(j) \in Nat \X Nat
  BY <1>1, HitsAre
<1>3. PICK a, b, e, f \in Nat : Cell(i) = <<a, b>> /\ Cell(j) = <<e, f>>
  BY <1>2
<1> DEFINE m == e - a
<1> DEFINE n == f - b
<1>4. Offset(i, j) = <<m, n>> /\ m \in Int /\ n \in Int
  BY <1>3 DEF Offset
<1>5. <<m, n>> = <<0, 0>> <=> i = j
  <2>1. <<m, n>> = <<0, 0>> <=> Cell(i) = Cell(j)
    BY <1>3
  <2>2. QED
    BY <2>1, OneCrystal
<1>6. /\ DRow(Cell(i), Cell(j)) = m \/ DRow(Cell(i), Cell(j)) = -m
      /\ DCol(Cell(i), Cell(j)) = n \/ DCol(Cell(i), Cell(j)) = -n
  BY <1>3 DEF DRow, DCol, Abs
<1> HIDE DEF m, n
<1>7. \A z \in Int : ((-z) * CrySize) * ((-z) * CrySize) = (z * CrySize) * (z * CrySize)
  BY <1>1
<1>8. /\ (DRow(Cell(i), Cell(j)) * CrySize) * (DRow(Cell(i), Cell(j)) * CrySize) = (m * CrySize) * (m * CrySize)
      /\ (DCol(Cell(i), Cell(j)) * CrySize) * (DCol(Cell(i), Cell(j)) * CrySize) = (n * CrySize) * (n * CrySize)
  BY <1>4, <1>6, <1>7
<1>9. Neighbour(<<m, n>>) <=>
        <<m, n>> # <<0, 0>> /\ (m * CrySize) * (m * CrySize) + (n * CrySize) * (n * CrySize) <= Radius * Radius
  BY DEF Neighbour
<1>10. QED
  BY <1>4, <1>5, <1>8, <1>9

FreeAt(v, i, d) == {j \in CrystalAt(Shift(Cell(i), d)) \ v.used : Neighbour(d) /\ Energy(j) > HitThr}
VisitAt(v, i, d) == IF FreeAt(v, i, d) = {} THEN v ELSE AddCrystal(v, CHOOSE j \in FreeAt(v, i, d) : TRUE)

LEMMA AddTyped ==
  ASSUME Typed, NEW w \in Works, NEW i \in Crystals
  PROVE  AddCrystal(w, i) \in Works
<1>1. i \in Hits /\ Energy(i) \in Int
  BY OneCrystal, HitsAre
<1>2. w.used \subseteq Hits /\ w.list \in Seq(Hits) /\ w.energy \in Int
  BY DEF Works
<1>3. w.used \cup {i} \subseteq Hits /\ Append(w.list, i) \in Seq(Hits) /\ w.energy + Energy(i) \in Int
  BY <1>1, <1>2
<1>4. [used |-> w.used \cup {i}, list |-> Append(w.list, i), energy |-> w.energy + Energy(i)] \in Works
  BY <1>3 DEF Works
<1>5. QED
  BY <1>4 DEF AddCrystal

LEMMA VisitTyped ==
  ASSUME Typed, NEW v \in Works, NEW i, NEW d
  PROVE  VisitAt(v, i, d) \in Works
<1>1. CASE FreeAt(v, i, d) = {}
  BY <1>1 DEF VisitAt
<1>2. CASE FreeAt(v, i, d) # {}
  <2>1. (CHOOSE j \in FreeAt(v, i, d) : TRUE) \in FreeAt(v, i, d)
    BY <1>2
  <2>2. FreeAt(v, i, d) \subseteq Crystals
    BY DEF FreeAt, CrystalAt
  <2>3. QED
    BY <1>2, <2>1, <2>2, AddTyped DEF VisitAt
<1>3. QED
  BY <1>1, <1>2

\* What ExpandRadius has after each line of the box.
Visits(w, i) ==
  {g \in [0..(Side * Side) -> Works] :
     /\ g[0] = w /\ \A n \in 1..(Side * Side) : g[n] = VisitAt(g[n - 1], i, Box[n])
     /\ ExpandRadius(w, i) = g[Side * Side]}

LEMMA VisitsIs ==
  ASSUME Typed, NEW w \in Works, NEW i
  PROVE  Visits(w, i) # {}
<1> DEFINE m == Side * Side
<1> DEFINE V == Works
<1> DEFINE P(f) == f = [n \in 0..m |-> IF n = 0 THEN w ELSE VisitAt(f[n - 1], i, Box[n])]
<1>0. m \in Nat
  BY BoxIs
<1>1. ASSUME NEW v \in V, NEW n \in 1..m PROVE VisitAt(v, i, Box[n]) \in V
  BY VisitTyped
<1>4. ExpandRadius(w, i) = (CHOOSE g : P(g))[m]
  BY DEF ExpandRadius, VisitAt, FreeAt
<1> HIDE DEF m, V
<1>2. PICK f \in [0..m -> V] : f[0] = w /\ \A n \in 1..m : f[n] = VisitAt(f[n - 1], i, Box[n])
  <2> DEFINE F == [n \in 1..m |-> [v \in V |-> VisitAt(v, i, Box[n])]]
  <2>1. F \in [1..m -> [V -> V]]
    BY <1>1
  <2>2. PICK f : f \in Walks(V, m, w, F)
    <3> HIDE DEF F
    <3>0. w \in V
      BY DEF V
    <3>1. Walks(V, m, w, F) # {}
      BY <1>0, <2>1, <3>0, Recursion
    <3>2. QED
      BY <3>1
  <2>3. f \in [0..m -> V] /\ f[0] = w /\ \A n \in 1..m : f[n] = F[n][f[n - 1]]
    <3> HIDE DEF F
    <3>1. QED
      BY <2>2 DEF Walks
  <2>4. ASSUME NEW n \in 1..m PROVE f[n] = VisitAt(f[n - 1], i, Box[n])
    <3>1. n - 1 \in 0..m
      BY <1>0
    <3>2. f[n - 1] \in V
      BY <2>3, <3>1
    <3>3. QED
      BY <2>3, <3>2
  <2>5. QED
    BY <2>3, <2>4
<1>3. P(f)
  <2>1. ASSUME NEW n \in 0..m PROVE f[n] = IF n = 0 THEN w ELSE VisitAt(f[n - 1], i, Box[n])
    <3>1. n = 0 \/ n \in 1..m
      BY <1>0
    <3>2. QED
      BY <1>2, <3>1
  <2>2. QED
    BY <1>2, <2>1
<1>5. PICK g : P(g) /\ ExpandRadius(w, i) = g[m]
  BY <1>3, <1>4
<1>6. g[0] = w /\ \A n \in 1..m : g[n] = VisitAt(g[n - 1], i, Box[n])
  <2>1. \A n \in 0..m : g[n] = IF n = 0 THEN w ELSE VisitAt(g[n - 1], i, Box[n])
    BY <1>5
  <2>2. 0 \in 0..m /\ \A n \in 1..m : n \in 0..m /\ n # 0
    BY <1>0
  <2>3. QED
    BY <2>1, <2>2
<1>7. \A n \in 0..m : g[n] \in V
  <2> DEFINE N == {n \in 0..m : g[n] \in V}
  <2>1. 0 \in N
    BY <1>0, <1>6 DEF V
  <2>2. \A n \in 1..m : n - 1 \in N => n \in N
    BY <1>0, <1>1, <1>6
  <2>3. \A n \in 0..m : n \in N
    <3> HIDE DEF N
    <3>1. QED
      BY <1>0, <2>1, <2>2, StepByStep
  <2>4. QED
    BY <2>3
<1>8. g \in [0..m -> V]
  BY <1>5, <1>7
<1>9. QED
  BY <1>5, <1>6, <1>8 DEF Visits, m, V

\* The crystals a radius cluster of i may take, when those in u were in use.
Around(i, u) == {j \in Crystals \ u : Neighbour(Offset(i, j)) /\ Energy(j) > HitThr}

LEMMA VisitIs ==
  ASSUME Typed, NEW u, NEW v, Making(v, u), NEW i \in Crystals, NEW d \in Int \X Int,
         NEW r, r = VisitAt(v, i, d)
  PROVE  /\ Making(r, u) /\ v.used \subseteq r.used /\ r.used \subseteq v.used \cup Around(i, u)
         /\ Len(r.list) # MaxHits =>
              /\ Len(v.list) # MaxHits
              /\ \A j \in Around(i, u) : Offset(i, j) = d => j \in r.used
<1>1. i \in Hits /\ Crystals \subseteq Hits
  BY OneCrystal
<1>2. \A j : j \in FreeAt(v, i, d) <=>
        j \in Crystals \ v.used /\ Offset(i, j) = d /\ Neighbour(d) /\ Energy(j) > HitThr
  <2>1. \A j \in Crystals : Cell(j) = Shift(Cell(i), d) <=> d = Offset(i, j)
    BY <1>1, ShiftIs
  <2>2. QED
    BY <2>1 DEF FreeAt, CrystalAt
<1>3. u \subseteq v.used /\ Len(v.list) \in Nat /\ MaxHits \in Nat /\ Len(v.list) <= MaxHits
  BY Constants DEF Making, Works
<1>4. CASE FreeAt(v, i, d) = {}
  <2>1. r = v
    BY <1>4 DEF VisitAt
  <2>2. \A j \in Around(i, u) : Offset(i, j) = d => j \in v.used
    BY <1>2, <1>4 DEF Around
  <2>3. QED
    BY <2>1, <2>2
<1>5. CASE FreeAt(v, i, d) # {}
  <2>1. PICK j \in FreeAt(v, i, d) : r = AddCrystal(v, j)
    BY <1>5 DEF VisitAt
  <2>2. j \in Crystals /\ j \notin v.used /\ j \in Around(i, u) /\ Offset(i, j) = d
    BY <1>2, <1>3, <2>1 DEF Around
  <2>3. /\ Making(r, u)
        /\ Len(v.list) = MaxHits => r = v
        /\ Len(v.list) # MaxHits => r.used = v.used \cup {j}
    BY <2>1, <2>2, AddIs
  <2>4. ASSUME NEW k \in Around(i, u), Offset(i, k) = d PROVE k = j
    <3>1. k \in Crystals
      BY DEF Around
    <3>2. Cell(k) = Shift(Cell(i), d) /\ Cell(j) = Shift(Cell(i), d)
      BY <1>1, <2>2, <2>4, <3>1, ShiftIs
    <3>3. QED
      BY <2>2, <3>1, <3>2, OneCrystal
  <2>5. QED
    BY <2>2, <2>3, <2>4
<1>6. QED
  BY <1>4, <1>5

LEMMA RadiusIs ==
  ASSUME Typed, NEW u, NEW w, Making(w, u), NEW i \in Crystals, NEW r, r = ExpandRadius(w, i)
  PROVE  /\ Making(r, u) /\ w.used \subseteq r.used /\ r.used \subseteq w.used \cup Around(i, u)
         /\ Len(r.list) # MaxHits => Around(i, u) \subseteq r.used
<1> DEFINE m == Side * Side
<1>0. w \in Works
  BY DEF Making
<1>1. PICK g \in [0..m -> Works] :
        /\ g[0] = w /\ \A n \in 1..m : g[n] = VisitAt(g[n - 1], i, Box[n])
        /\ r = g[m]
  BY <1>0, VisitsIs DEF Visits
<1>2. /\ m \in Nat /\ \A n \in 1..m : Box[n] \in Int \X Int
      /\ \A d \in Int \X Int : Neighbour(d) => \E k \in 1..m : Box[k] = d
  BY BoxIs
<1> HIDE DEF m
<1> DEFINE P(n) == /\ Making(g[n], u) /\ w.used \subseteq g[n].used
                   /\ g[n].used \subseteq w.used \cup Around(i, u)
                   /\ Len(g[n].list) # MaxHits =>
                        \A j \in Around(i, u), k \in 1..n : Offset(i, j) = Box[k] => j \in g[n].used
<1> DEFINE N == {n \in 0..m : P(n)}
<1>3. 0 \in N
  BY <1>1, <1>2
<1>4. ASSUME NEW n \in 1..m, n - 1 \in N PROVE n \in N
  <2> DEFINE v == g[n - 1]
  <2>1. /\ Making(v, u) /\ w.used \subseteq v.used /\ v.used \subseteq w.used \cup Around(i, u)
        /\ Len(v.list) # MaxHits =>
             \A j \in Around(i, u), k \in 1..(n - 1) : Offset(i, j) = Box[k] => j \in v.used
    <3>1. P(n - 1)
      <4> HIDE DEF P
      <4>1. QED
        BY <1>4
    <3>2. QED
      BY <3>1
  <2>2. g[n] = VisitAt(v, i, Box[n])
    BY <1>1
  <2>3. \A k \in 1..n : k \in 1..(n - 1) \/ k = n
    BY <1>2
  <2> HIDE DEF v
  <2>4. /\ Making(g[n], u) /\ v.used \subseteq g[n].used /\ g[n].used \subseteq v.used \cup Around(i, u)
        /\ Len(g[n].list) # MaxHits =>
             /\ Len(v.list) # MaxHits
             /\ \A j \in Around(i, u) : Offset(i, j) = Box[n] => j \in g[n].used
    BY <1>2, <2>1, <2>2, VisitIs
  <2>5. Len(g[n].list) # MaxHits =>
          \A j \in Around(i, u), k \in 1..n : Offset(i, j) = Box[k] => j \in g[n].used
    BY <2>1, <2>3, <2>4
  <2>6. n \in 0..m
    BY <1>2
  <2>7. QED
    BY <2>1, <2>4, <2>5, <2>6
<1>5. \A n \in 0..m : n \in N
  <2> HIDE DEF N
  <2>1. QED
    BY <1>2, <1>3, <1>4, StepByStep
<1>6. m \in N
  <2>1. m \in 0..m
    BY <1>2
  <2> HIDE DEF N
  <2>2. QED
    BY <1>5, <2>1
<1>7. \A j \in Around(i, u) : \E k \in 1..m : Offset(i, j) = Box[k]
  <2>1. ASSUME NEW j \in Around(i, u) PROVE \E k \in 1..m : Offset(i, j) = Box[k]
    <3>1. j \in Hits /\ i \in Hits /\ Neighbour(Offset(i, j)) /\ <<0, 0>> \in Int \X Int
      BY OneCrystal DEF Around
    <3>2. Offset(i, j) \in Int \X Int
      BY <3>1, ShiftIs
    <3>3. QED
      BY <1>2, <3>1, <3>2
  <2>2. QED
    BY <2>1
<1>8. P(m)
  <2> HIDE DEF P
  <2>1. QED
    BY <1>6
<1>9. Len(r.list) # MaxHits => Around(i, u) \subseteq r.used
  <2> HIDE DEF N
  <2>1. QED
    BY <1>1, <1>7, <1>8
<1>10. QED
  BY <1>1, <1>8, <1>9

LEMMA RadiusGood ==
  ASSUME Typed, algo = "radius", used \subseteq Hits, NEW s, Leading(s, Crystals \ used),
         NEW c, c = ExpandRadius(AddCrystal(NoCrystals, s), s),
         NEW x, x = [seed |-> s, n |-> Len(c.list), energy |-> c.energy, list |-> c.list]
  PROVE  GoodCluster(x, Eligible \ used) /\ c.used = used \cup Members(x) /\ c.used \subseteq Hits
<1> DEFINE left == Crystals \ used
<1> DEFINE w == AddCrystal(NoCrystals, s)
<1>1. s \in left /\ s \in Crystals /\ OnCrystals
  BY DEF Leading, OnCrystals
<1>2. Making(w, used) /\ ToSet(w.list) = {s}
  BY <1>1, FirstCrystal
<1>3. w.used = used \cup {s}
  BY <1>2 DEF Making
<1> HIDE DEF w
<1>4. /\ Making(c, used) /\ w.used \subseteq c.used /\ c.used \subseteq w.used \cup Around(s, used)
      /\ Len(c.list) # MaxHits => Around(s, used) \subseteq c.used
  BY <1>1, <1>2, RadiusIs DEF w
<1>5. ToSet(c.list) \subseteq left /\ c.used = used \cup ToSet(c.list)
  BY <1>4 DEF Making
<1>6. Around(s, used) \subseteq left
  BY DEF Around
<1>7. /\ s \in ToSet(c.list) /\ ToSet(c.list) \subseteq {s} \cup Around(s, used)
      /\ Len(c.list) # MaxHits => ToSet(c.list) = {s} \cup Around(s, used)
  BY <1>1, <1>3, <1>4, <1>5, <1>6
<1>8. Disc(s, left) = {s} \cup Around(s, used)
  <2>1. \A j \in Crystals : Neighbour(Offset(s, j)) <=>
           /\ s # j
           /\ (DRow(Cell(s), Cell(j)) * CrySize) * (DRow(Cell(s), Cell(j)) * CrySize)
              + (DCol(Cell(s), Cell(j)) * CrySize) * (DCol(Cell(s), Cell(j)) * CrySize) <= Radius * Radius
    BY <1>1, NeighbourIs
  <2> DEFINE Close(j) == (DRow(Cell(s), Cell(j)) * CrySize) * (DRow(Cell(s), Cell(j)) * CrySize)
              + (DCol(Cell(s), Cell(j)) * CrySize) * (DCol(Cell(s), Cell(j)) * CrySize) <= Radius * Radius
  <2>2. Disc(s, left) = {s} \cup {j \in left : Energy(j) > HitThr /\ Close(j)}
    BY DEF Disc
  <2>3. \A j \in left : Neighbour(Offset(s, j)) <=> s # j /\ Close(j)
    BY <2>1
  <2> HIDE DEF Close
  <2>4. QED
    BY <2>2, <2>3 DEF Around
<1>9. x.seed = s /\ x.n = Len(c.list) /\ Members(x) = ToSet(c.list)
  BY DEF Members
<1>10. Full(x) <=> Len(c.list) = MaxHits
  BY <1>9 DEF Full
<1> HIDE DEF left
<1>11. Fills(x, Disc(s, left))
  BY <1>7, <1>8, <1>9, <1>10 DEF Fills
<1>12. Shape(x, left)
  BY <1>9, <1>11 DEF Shape
<1>13. QED
  BY <1>1, <1>4, <1>7, <1>12, CrystalGood DEF left

-----------------------------------------------------------------------------
(* The island finder: ExpandIsland is well defined, as the energy falls.   *)

Rank(i) == IF Energy(i) > HitThr THEN Energy(i) - HitThr ELSE 0

\* Visit, when f is how a crystal next to i is expanded, and ExpandIsland with it.
Step(f, v, i, d) ==
  LET more == Downhill(v, i, d)
      next == CHOOSE j \in more : TRUE
  IN  IF more = {} THEN v ELSE f[<<AddCrystal(v, next), next>>]
Steps(f, v, i) == Step(f, Step(f, Step(f, Step(f, v, i, Right), i, Up), i, Left), i, Down)

LEMMA RankIs ==
  ASSUME Typed, NEW i \in Hits
  PROVE  /\ Rank(i) \in Nat
         /\ \A j \in Hits : Energy(j) > HitThr /\ Energy(j) < Energy(i) => Rank(j) < Rank(i)
         /\ \A j \in Hits : Energy(j) <= Energy(i) => Rank(j) <= Rank(i)
<1>1. HitThr \in Int /\ \A j \in Hits : Energy(j) \in Int
  BY HitsAre, Constants
<1>2. QED
  BY <1>1 DEF Rank

LEMMA StepCase ==
  ASSUME NEW f, NEW v, NEW i, NEW d
  PROVE  \/ Downhill(v, i, d) = {} /\ Step(f, v, i, d) = v
         \/ /\ Downhill(v, i, d) # {}
            /\ (CHOOSE j \in Downhill(v, i, d) : TRUE) \in Downhill(v, i, d)
            /\ Step(f, v, i, d) = f[<<AddCrystal(v, CHOOSE j \in Downhill(v, i, d) : TRUE),
                                      CHOOSE j \in Downhill(v, i, d) : TRUE>>]
  BY DEF Step

LEMMA StepSame ==
  ASSUME Typed, NEW f \in [Works \X Crystals -> Works], NEW g \in [Works \X Crystals -> Works],
         NEW i \in Crystals, \A x \in Works \X Crystals : Rank(x[2]) < Rank(i) => f[x] = g[x],
         NEW v \in Works, NEW d
  PROVE  Step(f, v, i, d) = Step(g, v, i, d) /\ Step(f, v, i, d) \in Works
<1> DEFINE more == Downhill(v, i, d)
<1> DEFINE next == CHOOSE j \in more : TRUE
<1>1. CASE more = {}
  BY <1>1 DEF Step
<1>2. CASE more # {}
  <2>1. next \in more
    BY <1>2
  <2> HIDE DEF next
  <2>2. next \in Crystals /\ Energy(next) > HitThr /\ Energy(next) < Energy(i)
    <3>1. \A j \in more : j \in Crystals /\ Energy(j) > HitThr /\ Energy(j) < Energy(i)
      BY Constants DEF Downhill, CrystalAt
    <3> HIDE DEF more
    <3>2. QED
      BY <2>1, <3>1
  <2>3. Rank(next) < Rank(i)
    BY <2>2, RankIs, OneCrystal
  <2>4. AddCrystal(v, next) \in Works
    BY <2>2, AddTyped
  <2> DEFINE x == <<AddCrystal(v, next), next>>
  <2>5. x \in Works \X Crystals /\ x[2] = next
    BY <2>2, <2>4
  <2>6. Step(f, v, i, d) = f[x] /\ Step(g, v, i, d) = g[x]
    BY <1>2 DEF Step, next
  <2> HIDE DEF x
  <2>7. f[x] = g[x] /\ f[x] \in Works
    BY <2>3, <2>5
  <2>8. QED
    BY <2>6, <2>7
<1>3. QED
  BY <1>1, <1>2

LEMMA StepsSame ==
  ASSUME Typed, NEW f \in [Works \X Crystals -> Works], NEW g \in [Works \X Crystals -> Works],
         NEW i \in Crystals, \A x \in Works \X Crystals : Rank(x[2]) < Rank(i) => f[x] = g[x],
         NEW v \in Works
  PROVE  Steps(f, v, i) = Steps(g, v, i) /\ Steps(f, v, i) \in Works
<1>1. \A w \in Works : \A d : Step(f, w, i, d) = Step(g, w, i, d) /\ Step(f, w, i, d) \in Works
  BY StepSame
<1>2. PICK a : a = Step(f, v, i, Right) /\ a = Step(g, v, i, Right) /\ a \in Works
  BY <1>1
<1>3. PICK b : b = Step(f, a, i, Up) /\ b = Step(g, a, i, Up) /\ b \in Works
  BY <1>1, <1>2
<1>4. PICK c : c = Step(f, b, i, Left) /\ c = Step(g, b, i, Left) /\ c \in Works
  BY <1>1, <1>3
<1>5. PICK e : e = Step(f, c, i, Down) /\ e = Step(g, c, i, Down) /\ e \in Works
  BY <1>1, <1>4
<1>6. Steps(f, v, i) = e /\ Steps(g, v, i) = e
  BY <1>2, <1>3, <1>4, <1>5 DEF Steps
<1>7. QED
  BY <1>5, <1>6

LEMMA IslandExists ==
  ASSUME Typed
  PROVE  \E f \in [Works \X Crystals -> Works] : \A x \in Works \X Crystals : f[x] = Steps(f, x[1], x[2])
<1> DEFINE D == Works \X Crystals
<1> DEFINE Up2(n, f) == \A x \in D : Rank(x[2]) < n => f[x] = Steps(f, x[1], x[2])
<1> DEFINE N == {n \in Nat : \E f \in [D -> Works] : Up2(n, f)}
<1>1. \A x \in D : x[1] \in Works /\ x[2] \in Crystals /\ x[2] \in Hits /\ Rank(x[2]) \in Nat
  BY OneCrystal, RankIs
<1>2. 0 \in N
  <2> DEFINE f == [x \in D |-> x[1]]
  <2>1. f \in [D -> Works]
    BY <1>1
  <2>2. \A x \in D : ~(Rank(x[2]) < 0)
    BY <1>1
  <2> HIDE DEF f, D
  <2>3. QED
    BY <2>1, <2>2
<1>3. ASSUME NEW n \in Nat, n \in N PROVE n + 1 \in N
  <2>1. PICK f \in [D -> Works] : Up2(n, f)
    BY <1>3
  <2> DEFINE g == [x \in D |-> Steps(f, x[1], x[2])]
  <2>2. g \in [D -> Works]
    <3>1. \A x \in D : Steps(f, x[1], x[2]) \in Works
      BY <1>1, StepsSame
    <3>2. QED
      BY <3>1
  <2>3. \A x \in D : g[x] = Steps(f, x[1], x[2])
    OBVIOUS
  <2> HIDE DEF g
  <2>4. \A x \in D : Rank(x[2]) < n => f[x] = g[x]
    BY <2>1, <2>3
  <2>5. ASSUME NEW x \in D, Rank(x[2]) < n + 1 PROVE g[x] = Steps(g, x[1], x[2])
    <3>1. \A y \in D : Rank(y[2]) < Rank(x[2]) => f[y] = g[y]
      <4>1. ASSUME NEW y \in D, Rank(y[2]) < Rank(x[2]) PROVE f[y] = g[y]
        <5>1. Rank(y[2]) \in Nat /\ Rank(x[2]) \in Nat
          BY <1>1
        <5>2. Rank(y[2]) < n
          BY <2>5, <4>1, <5>1
        <5>3. QED
          BY <2>4, <5>2
      <4>2. QED
        BY <4>1
    <3>2. Steps(f, x[1], x[2]) = Steps(g, x[1], x[2])
      BY <1>1, <2>2, <3>1, StepsSame
    <3>3. QED
      BY <2>3, <3>2
  <2>6. Up2(n + 1, g)
    BY <2>5
  <2> HIDE DEF Up2, D
  <2>7. QED
    BY <2>2, <2>6
<1>4. Nat \subseteq N
  <2> HIDE DEF N
  <2>1. QED
    BY <1>2, <1>3, Induction
<1>5. PICK n \in Nat : \A i \in Crystals : Rank(i) < n
  <2>1. CASE Crystals = {}
    BY <2>1
  <2>2. CASE Crystals # {}
    <3>1. PICK s \in Crystals : \A i \in Crystals : Energy(i) <= Energy(s)
      BY <2>2, OneCrystal, MostEnergetic
    <3>2. Rank(s) \in Nat /\ \A i \in Crystals : Rank(i) \in Nat /\ Rank(i) <= Rank(s)
      BY <3>1, OneCrystal, RankIs
    <3>3. Rank(s) + 1 \in Nat /\ \A i \in Crystals : Rank(i) < Rank(s) + 1
      BY <3>2
    <3>4. QED
      BY <3>3
  <2>3. QED
    BY <2>1, <2>2
<1>6. n \in N
  BY <1>4
<1>7. PICK f \in [D -> Works] : Up2(n, f)
  BY <1>6
<1>8. QED
  BY <1>1, <1>5, <1>7

LEMMA ExpandIslandIs ==
  ASSUME Typed
  PROVE  \E g : /\ \A x \in Works \X Crystals : g[x] = Steps(g, x[1], x[2])
                /\ \A w, i : ExpandIsland(w, i) = g[<<w, i>>]
<1> DEFINE P(f) == f = [x \in Works \X Crystals |-> Steps(f, x[1], x[2])]
<1> DEFINE g == CHOOSE f : P(f)
<1>1. \A w, i : ExpandIsland(w, i) = g[<<w, i>>]
  BY DEF ExpandIsland, Steps, Step
<1>2. \E f : P(f)
  BY IslandExists
<1>3. P(g)
  BY <1>2
<1> HIDE DEF g
<1>4. \A x \in Works \X Crystals : g[x] = Steps(g, x[1], x[2])
  BY <1>3
<1>5. QED
  BY <1>1, <1>4

\* The crystals next to i of less energy than it, when those in u were in use.
Below(i, u) == {j \in Crystals \ u : <<i, j>> \in Falls(Crystals \ u)}
Dirs == {Right, Up, Left, Down}

LEMMA BelowIs ==
  ASSUME Typed, NEW u, NEW i \in Crystals \ u, NEW j \in Crystals \ u
  PROVE  j \in Below(i, u) <=> /\ HitThr < Energy(j) /\ Energy(j) < Energy(i)
                              /\ \E d \in Dirs : Cell(j) = Shift(Cell(i), d)
<1>1. Cell(i) \in Nat \X Nat /\ Cell(j) \in Nat \X Nat
  BY OneCrystal, HitsAre
<1>2. PICK a, b, e, f \in Nat : Cell(i) = <<a, b>> /\ Cell(j) = <<e, f>>
  BY <1>1
<1>3. DRow(Cell(i), Cell(j)) = (IF a - e < 0 THEN -(a - e) ELSE a - e)
  BY <1>2 DEF DRow, Abs
<1>4. DCol(Cell(i), Cell(j)) = (IF b - f < 0 THEN -(b - f) ELSE b - f)
  BY <1>2 DEF DCol, Abs
<1>5. /\ Shift(Cell(i), Right) = <<a + 0, b + 1>> /\ Shift(Cell(i), Up) = <<a + 1, b + 0>>
      /\ Shift(Cell(i), Left) = <<a + 0, b + (-1)>> /\ Shift(Cell(i), Down) = <<a + (-1), b + 0>>
  BY <1>2 DEF Shift, Right, Up, Left, Down
<1>6. DRow(Cell(i), Cell(j)) + DCol(Cell(i), Cell(j)) = 1
        <=> \/ (e = a /\ f = b + 1) \/ (e = a + 1 /\ f = b)
            \/ (e = a /\ f = b - 1) \/ (e = a - 1 /\ f = b)
  <2>1. a \in Int /\ b \in Int /\ e \in Int /\ f \in Int
    BY <1>2
  <2>2. (IF a - e < 0 THEN -(a - e) ELSE a - e) + (IF b - f < 0 THEN -(b - f) ELSE b - f) = 1
          <=> \/ (e = a /\ f = b + 1) \/ (e = a + 1 /\ f = b)
              \/ (e = a /\ f = b - 1) \/ (e = a - 1 /\ f = b)
    BY <2>1
  <2>3. QED
    BY <1>3, <1>4, <2>2
<1>7. (\E d \in Dirs : Cell(j) = Shift(Cell(i), d))
        <=> \/ (e = a /\ f = b + 1) \/ (e = a + 1 /\ f = b)
            \/ (e = a /\ f = b - 1) \/ (e = a - 1 /\ f = b)
  <2>1. (\E d \in Dirs : Cell(j) = Shift(Cell(i), d))
          <=> \/ Cell(j) = Shift(Cell(i), Right) \/ Cell(j) = Shift(Cell(i), Up)
              \/ Cell(j) = Shift(Cell(i), Left) \/ Cell(j) = Shift(Cell(i), Down)
    BY DEF Dirs
  <2>2. /\ Cell(j) = Shift(Cell(i), Right) <=> e = a /\ f = b + 1
        /\ Cell(j) = Shift(Cell(i), Up) <=> e = a + 1 /\ f = b
        /\ Cell(j) = Shift(Cell(i), Left) <=> e = a /\ f = b - 1
        /\ Cell(j) = Shift(Cell(i), Down) <=> e = a - 1 /\ f = b
    BY <1>2, <1>5
  <2>3. ((e = a /\ f = b + 1) \/ (e = a + 1 /\ f = b) \/ (e = a /\ f = b - 1) \/ (e = a - 1 /\ f = b))
          <=> \/ Cell(j) = Shift(Cell(i), Right) \/ Cell(j) = Shift(Cell(i), Up)
              \/ Cell(j) = Shift(Cell(i), Left) \/ Cell(j) = Shift(Cell(i), Down)
    BY <2>2
  <2>4. QED
    BY <2>1, <2>3
<1>8. j \in Below(i, u) <=> /\ DRow(Cell(i), Cell(j)) + DCol(Cell(i), Cell(j)) = 1
                            /\ HitThr < Energy(j) /\ Energy(j) < Energy(i)
  BY DEF Below, Falls
<1>9. QED
  BY <1>6, <1>7, <1>8

\* From v to r a cluster has grown by what the energy falls to from i, and if there
\* was room for all of it, also by what it falls to from there.
Spreads(v, r, i, u) ==
  /\ Making(r, u) /\ v.used \subseteq r.used /\ (Len(r.list) # MaxHits => Len(v.list) # MaxHits)
  /\ \A T : i \in T /\ (\A j \in Crystals \ u : \A k \in Below(j, u) : j \in T => k \in T)
              => r.used \ v.used \subseteq T
  /\ Len(r.list) # MaxHits => \A j \in r.used \ v.used : Below(j, u) \subseteq r.used

Island(w, r, i, u) ==
  Spreads(w, r, i, u) /\ (Len(r.list) # MaxHits => Below(i, u) \subseteq r.used)

LEMMA SpreadsOn ==
  ASSUME NEW v, NEW w, NEW r, NEW i, NEW u, Spreads(v, w, i, u), Spreads(w, r, i, u)
  PROVE  Spreads(v, r, i, u)
<1>1. Making(r, u) /\ v.used \subseteq r.used /\ (Len(r.list) # MaxHits => Len(v.list) # MaxHits)
  BY DEF Spreads
<1>2. ASSUME NEW T, i \in T, \A j \in Crystals \ u : \A k \in Below(j, u) : j \in T => k \in T
      PROVE  r.used \ v.used \subseteq T
  <2>1. w.used \ v.used \subseteq T /\ r.used \ w.used \subseteq T
    BY <1>2 DEF Spreads
  <2>2. QED
    BY <2>1
<1>3. ASSUME Len(r.list) # MaxHits, NEW j \in r.used \ v.used PROVE Below(j, u) \subseteq r.used
  <2>1. /\ Len(w.list) # MaxHits /\ w.used \subseteq r.used
        /\ \A k \in w.used \ v.used : Below(k, u) \subseteq w.used
        /\ \A k \in r.used \ w.used : Below(k, u) \subseteq r.used
    BY <1>3 DEF Spreads
  <2>2. QED
    BY <2>1
<1>4. QED
  BY <1>1, <1>2, <1>3 DEF Spreads

\* One of the four visits, when those to crystals of lower rank do what they should.
LEMMA StepIs ==
  ASSUME Typed, NEW u, NEW i \in Crystals \ u, NEW g,
         \A w \in Works, j \in Crystals \ u :
           Making(w, u) /\ Rank(j) < Rank(i) => Island(w, g[<<w, j>>], j, u),
         NEW v, Making(v, u), NEW d \in Dirs, NEW r, r = Step(g, v, i, d)
  PROVE  /\ Spreads(v, r, i, u)
         /\ Len(r.list) # MaxHits => \A j \in Below(i, u) : Cell(j) = Shift(Cell(i), d) => j \in r.used
<1> DEFINE more == Downhill(v, i, d)
<1>1. \A j : j \in more <=>
        j \in Crystals \ v.used /\ Cell(j) = Shift(Cell(i), d) /\ HitThr < Energy(j) /\ Energy(j) < Energy(i)
  <2>1. \A j \in Crystals : Energy(j) > HitThr <=> HitThr < Energy(j)
    OBVIOUS
  <2>2. QED
    BY <2>1 DEF Downhill, CrystalAt
<1>2. u \subseteq v.used /\ v \in Works
  BY DEF Making
<1>3. \A j \in Below(i, u) : j \in Crystals \ u /\ HitThr < Energy(j) /\ Energy(j) < Energy(i)
  BY BelowIs DEF Below
<1>4. CASE more = {}
  <2>1. r = v
    BY <1>4, StepCase
  <2>2. ASSUME NEW j \in Below(i, u), Cell(j) = Shift(Cell(i), d) PROVE j \in v.used
    BY <1>1, <1>3, <1>4, <2>2
  <2>3. Spreads(v, v, i, u)
    BY DEF Spreads
  <2>4. QED
    BY <2>1, <2>2, <2>3
<1>5. CASE more # {}
  <2>1. PICK j \in more : r = g[<<AddCrystal(v, j), j>>]
    BY <1>5, StepCase
  <2>2. j \in Crystals \ u /\ j \notin v.used /\ j \in Below(i, u)
    <3>1. j \in Crystals \ u /\ j \notin v.used
      BY <1>1, <1>2
    <3>2. QED
      BY <1>1, <3>1, BelowIs
  <2> DEFINE w == AddCrystal(v, j)
  <2>3. /\ Making(w, u)
        /\ Len(v.list) = MaxHits => w = v
        /\ Len(v.list) # MaxHits => w.used = v.used \cup {j}
    BY <2>2, AddIs
  <2>4. Rank(j) < Rank(i)
    <3>1. Energy(j) > HitThr /\ Energy(j) < Energy(i) /\ i \in Hits /\ j \in Hits
      BY <1>3, <2>2, OneCrystal
    <3>2. QED
      BY <3>1, RankIs
  <2>5. r = g[<<w, j>>]
    BY <2>1
  <2> HIDE DEF w, more
  <2>6. Island(w, r, j, u)
    <3>1. w \in Works
      BY <2>3 DEF Making
    <3>2. QED
      BY <2>2, <2>3, <2>4, <2>5, <3>1
  <2>7. /\ Making(r, u) /\ w.used \subseteq r.used /\ (Len(r.list) # MaxHits => Len(w.list) # MaxHits)
        /\ \A T : j \in T /\ (\A m \in Crystals \ u : \A k \in Below(m, u) : m \in T => k \in T)
                    => r.used \ w.used \subseteq T
        /\ Len(r.list) # MaxHits => \A m \in r.used \ w.used : Below(m, u) \subseteq r.used
        /\ Len(r.list) # MaxHits => Below(j, u) \subseteq r.used
    BY <2>6 DEF Island, Spreads
  <2>8. v.used \subseteq w.used /\ w.used \subseteq v.used \cup {j}
    BY <2>3
  <2>9. Len(r.list) # MaxHits => Len(v.list) # MaxHits /\ j \in r.used
    BY <2>3, <2>7
  <2>10. ASSUME NEW T, i \in T, \A m \in Crystals \ u : \A k \in Below(m, u) : m \in T => k \in T
         PROVE  r.used \ v.used \subseteq T
    <3>1. j \in T
      BY <2>2, <2>10
    <3>2. r.used \ w.used \subseteq T
      BY <2>7, <2>10, <3>1
    <3>3. QED
      BY <2>8, <3>1, <3>2
  <2>11. Len(r.list) # MaxHits => \A m \in r.used \ v.used : Below(m, u) \subseteq r.used
    BY <2>7, <2>8
  <2>12. Spreads(v, r, i, u)
    BY <2>7, <2>8, <2>9, <2>10, <2>11 DEF Spreads
  <2>13. ASSUME NEW k \in Below(i, u), Cell(k) = Shift(Cell(i), d) PROVE k = j
    <3>1. k \in Crystals /\ j \in Crystals /\ Cell(j) = Shift(Cell(i), d)
      BY <1>1, <1>3, <2>2 DEF more
    <3>2. QED
      BY <2>13, <3>1, OneCrystal
  <2>14. QED
    BY <2>9, <2>12, <2>13
<1>6. QED
  BY <1>4, <1>5

LEMMA StepsIs ==
  ASSUME Typed, NEW u, NEW i \in Crystals \ u, NEW g,
         \A w \in Works, j \in Crystals \ u :
           Making(w, u) /\ Rank(j) < Rank(i) => Island(w, g[<<w, j>>], j, u),
         NEW v, Making(v, u)
  PROVE  Island(v, Steps(g, v, i), i, u)
<1> DEFINE Met(r, d) == Len(r.list) # MaxHits => \A j \in Below(i, u) : Cell(j) = Shift(Cell(i), d) => j \in r.used
<1>1. \A w, d : Making(w, u) /\ d \in Dirs
                 => Spreads(w, Step(g, w, i, d), i, u) /\ Met(Step(g, w, i, d), d)
  BY StepIs
<1>2. \A w, r, d : Met(w, d) /\ Spreads(w, r, i, u) => Met(r, d)
  BY DEF Spreads
<1>3. \A w, r : Spreads(w, r, i, u) => Making(r, u)
  BY DEF Spreads
<1>4. Right \in Dirs /\ Up \in Dirs /\ Left \in Dirs /\ Down \in Dirs
  BY DEF Dirs
<1> HIDE DEF Met
<1>5. PICK a : a = Step(g, v, i, Right) /\ Spreads(v, a, i, u) /\ Making(a, u) /\ Met(a, Right)
  BY <1>1, <1>3, <1>4
<1>6. PICK b : b = Step(g, a, i, Up) /\ Spreads(a, b, i, u) /\ Making(b, u) /\ Met(b, Up)
  BY <1>1, <1>3, <1>4, <1>5
<1>7. PICK c : c = Step(g, b, i, Left) /\ Spreads(b, c, i, u) /\ Making(c, u) /\ Met(c, Left)
  BY <1>1, <1>3, <1>4, <1>6
<1>8. PICK r : r = Step(g, c, i, Down) /\ Spreads(c, r, i, u) /\ Making(r, u) /\ Met(r, Down)
  BY <1>1, <1>3, <1>4, <1>7
<1>9. r = Steps(g, v, i)
  BY <1>5, <1>6, <1>7, <1>8 DEF Steps
<1>10. Spreads(v, c, i, u) /\ Spreads(v, r, i, u)
  <2>1. Spreads(v, b, i, u)
    BY <1>5, <1>6, SpreadsOn
  <2>2. Spreads(v, c, i, u)
    BY <1>7, <2>1, SpreadsOn
  <2>3. QED
    BY <1>8, <2>2, SpreadsOn
<1>11. Met(r, Right) /\ Met(r, Up) /\ Met(r, Left) /\ Met(r, Down)
  <2>1. Met(b, Right) /\ Met(c, Right) /\ Met(c, Up)
    BY <1>2, <1>5, <1>6, <1>7
  <2>2. QED
    BY <1>2, <1>7, <1>8, <2>1
<1>12. Len(r.list) # MaxHits => Below(i, u) \subseteq r.used
  <2> SUFFICES ASSUME Len(r.list) # MaxHits, NEW j \in Below(i, u) PROVE j \in r.used
    OBVIOUS
  <2>1. j \in Crystals \ u
    BY DEF Below
  <2>2. PICK d \in Dirs : Cell(j) = Shift(Cell(i), d)
    BY <2>1, BelowIs
  <2>3. Met(r, d)
    BY <1>11 DEF Dirs
  <2>4. QED
    BY <2>2, <2>3 DEF Met
<1>13. QED
  BY <1>9, <1>10, <1>12 DEF Island

LEMMA IslandIs ==
  ASSUME Typed, NEW u, NEW w, Making(w, u), NEW i \in Crystals \ u
  PROVE  Island(w, ExpandIsland(w, i), i, u)
<1>1. PICK g : /\ \A x \in Works \X Crystals : g[x] = Steps(g, x[1], x[2])
               /\ \A v, j : ExpandIsland(v, j) = g[<<v, j>>]
  BY ExpandIslandIs
<1> DEFINE N == {n \in Nat : \A v \in Works, j \in Crystals \ u :
                               Making(v, u) /\ Rank(j) < n => Island(v, g[<<v, j>>], j, u)}
<1>2. \A j \in Crystals : j \in Hits /\ Rank(j) \in Nat
  BY OneCrystal, RankIs
<1>3. 0 \in N
  BY <1>2
<1>4. ASSUME NEW n \in Nat, n \in N PROVE n + 1 \in N
  <2> SUFFICES ASSUME NEW v \in Works, NEW j \in Crystals \ u, Making(v, u), Rank(j) < n + 1
               PROVE  Island(v, g[<<v, j>>], j, u)
    OBVIOUS
  <2>1. ASSUME NEW x \in Works, NEW k \in Crystals \ u, Making(x, u), Rank(k) < Rank(j)
        PROVE  Island(x, g[<<x, k>>], k, u)
    <3>1. Rank(k) \in Nat /\ Rank(j) \in Nat
      BY <1>2
    <3>2. Rank(k) < n
      BY <2>1, <3>1
    <3>3. QED
      BY <1>4, <2>1, <3>2
  <2>2. Island(v, Steps(g, v, j), j, u)
    BY <2>1, StepsIs
  <2>3. g[<<v, j>>] = Steps(g, v, j)
    <3> DEFINE x == <<v, j>>
    <3>1. x \in Works \X Crystals /\ x[1] = v /\ x[2] = j
      OBVIOUS
    <3> HIDE DEF x
    <3>2. g[x] = Steps(g, v, j)
      BY <1>1, <3>1
    <3>3. QED
      BY <3>2 DEF x
  <2>4. QED
    BY <2>2, <2>3
<1>5. Nat \subseteq N
  <2> HIDE DEF N
  <2>1. QED
    BY <1>3, <1>4, Induction
<1>6. Rank(i) + 1 \in N /\ Rank(i) < Rank(i) + 1 /\ w \in Works
  <2>1. Rank(i) \in Nat /\ w \in Works
    BY <1>2 DEF Making
  <2> HIDE DEF N
  <2>2. QED
    BY <1>5, <2>1
<1>7. Island(w, g[<<w, i>>], i, u)
  BY <1>6
<1>8. QED
  BY <1>1, <1>7

LEMMA IslandGood ==
  ASSUME Typed, algo = "island", used \subseteq Hits, NEW s, Leading(s, Crystals \ used),
         NEW c, c = ExpandIsland(AddCrystal(NoCrystals, s), s),
         NEW x, x = [seed |-> s, n |-> Len(c.list), energy |-> c.energy, list |-> c.list]
  PROVE  GoodCluster(x, Eligible \ used) /\ c.used = used \cup Members(x) /\ c.used \subseteq Hits
<1> DEFINE left == Crystals \ used
<1> DEFINE w == AddCrystal(NoCrystals, s)
<1> DEFINE M == ToSet(c.list)
<1> DEFINE R == Reachable(s, left, Falls(left))
<1>1. s \in left /\ s \in Crystals /\ OnCrystals
  BY DEF Leading, OnCrystals
<1>2. Making(w, used) /\ ToSet(w.list) = {s}
  BY <1>1, FirstCrystal
<1>3. w.used = used \cup {s}
  BY <1>2 DEF Making
<1> HIDE DEF w
<1>4. Island(w, c, s, used)
  BY <1>1, <1>2, IslandIs DEF w
<1>5. /\ Making(c, used) /\ w.used \subseteq c.used
      /\ \A T : s \in T /\ (\A j \in left : \A k \in Below(j, used) : j \in T => k \in T)
                  => c.used \ w.used \subseteq T
      /\ Len(c.list) # MaxHits => \A j \in c.used \ w.used : Below(j, used) \subseteq c.used
      /\ Len(c.list) # MaxHits => Below(s, used) \subseteq c.used
  BY <1>4 DEF Island, Spreads
<1>6. M \subseteq left /\ c.used = used \cup M
  BY <1>5 DEF Making
<1> HIDE DEF M
<1>7. s \in M /\ c.used \ w.used = M \ {s}
  BY <1>1, <1>3, <1>5, <1>6
<1>8. \A j \in left, k \in left : k \in Below(j, used) <=> <<j, k>> \in Falls(left)
  BY DEF Below
<1>9. \A j : Below(j, used) \subseteq left
  BY DEF Below
<1>10. \A p \in Falls(left) : p[1] \in left /\ p[2] \in left /\ p = <<p[1], p[2]>>
  BY DEF Falls
<1> HIDE DEF left
<1>11. M \subseteq R
  <2> SUFFICES ASSUME NEW T \in SUBSET left, s \in T, \A p \in Falls(left) : p[1] \in T => p[2] \in T
               PROVE  M \subseteq T
    BY <1>6 DEF Reachable
  <2>1. ASSUME NEW j \in left, NEW k \in Below(j, used), j \in T PROVE k \in T
    <3>1. <<j, k>> \in Falls(left)
      BY <1>8, <1>9
    <3>2. <<j, k>>[1] \in T => <<j, k>>[2] \in T
      BY <3>1
    <3>3. QED
      BY <2>1, <3>2
  <2>2. M \ {s} \subseteq T
    BY <1>5, <1>7, <2>1
  <2>3. QED
    BY <2>2
<1>12. ASSUME Len(c.list) # MaxHits PROVE R \subseteq M
  <2>1. \A p \in Falls(left) : p[1] \in M => p[2] \in M
    <3>1. ASSUME NEW p \in Falls(left), p[1] \in M PROVE p[2] \in M
      <4>1. p[2] \in Below(p[1], used)
        BY <1>8, <1>10
      <4>2. Below(p[1], used) \subseteq c.used
        BY <1>5, <1>7, <1>12, <3>1
      <4>3. p[2] \notin used
        BY <1>10 DEF left
      <4>4. QED
        BY <1>6, <4>1, <4>2, <4>3
    <3>2. QED
      BY <3>1
  <2>2. QED
    BY <1>6, <1>7, <2>1 DEF Reachable
<1>13. x.seed = s /\ x.n = Len(c.list) /\ Members(x) = M
  BY DEF Members, M
<1>14. Full(x) <=> Len(c.list) = MaxHits
  BY <1>13 DEF Full
<1>15. Fills(x, R)
  BY <1>11, <1>12, <1>13, <1>14 DEF Fills
<1>16. Shape(x, left)
  BY <1>13, <1>15 DEF Shape
<1>17. s \in ToSet(c.list) /\ Shape(x, Crystals \ used)
  BY <1>7, <1>16 DEF left, M
<1>18. QED
  BY <1>1, <1>5, <1>17, CrystalGood

-----------------------------------------------------------------------------
(* What good clusters, one after the other, add up to. *)

Disjoint(c) == \A j, k \in 1..Len(c) : j # k => Members(c[j]) \cap Members(c[k]) = {}
InOrder(c) == \A j, k \in 1..Len(c) : j < k => Energy(c[j].seed) >= Energy(c[k].seed)
Meant(x) ==
  /\ Members(x) \subseteq Eligible /\ Distinct(x.list)
  /\ x.energy = Total(x.list) - (IF OnCrystals THEN 1 ELSE 0)
  /\ Leads(x)

\* The clusters c are right, and with what was out of the question they use u up.
SoundClusters(c, u) ==
  /\ c \in Seq(ClusterType) /\ u = Out \cup Before(c, Len(c) + 1)
  /\ Disjoint(c) /\ InOrder(c)
  /\ \A k \in 1..Len(c) :
       /\ Meant(c[k]) /\ Shape(c[k], LeftBefore(c, k))
       /\ \A i \in Eligible \ u : Energy(i) <= Energy(c[k].seed)

LEMMA BeforeIs ==
  ASSUME NEW c, NEW k
  PROVE  \A i : i \in Before(c, k) <=> \E j \in 1..(k - 1) : i \in Members(c[j])
  BY DEF Before

LEMMA NoClusters ==
  ASSUME NEW u, u = Out
  PROVE  SoundClusters(<<>>, u)
<1>1. <<>> \in Seq(ClusterType) /\ Len(<<>>) = 0
  OBVIOUS
<1>2. Before(<<>>, 0 + 1) = {}
  BY DEF Before
<1>3. QED
  BY <1>1, <1>2 DEF SoundClusters, Disjoint, InOrder

LEMMA AppendCluster ==
  ASSUME Typed, NEW c, NEW u, SoundClusters(c, u), NEW x, GoodCluster(x, Eligible \ u)
  PROVE  SoundClusters(Append(c, x), u \cup Members(x))
<1> DEFINE n == Len(c)
<1> DEFINE b == Append(c, x)
<1>1. c \in Seq(ClusterType) /\ n \in Nat /\ x \in ClusterType
  BY DEF SoundClusters, GoodCluster
<1>2. /\ b \in Seq(ClusterType) /\ Len(b) = n + 1 /\ b[n + 1] = x
      /\ \A k \in 1..n : b[k] = c[k]
  BY <1>1
<1> HIDE DEF b, n
<1>3. \A k \in 1..(n + 1) : k \in 1..n \/ k = n + 1
  BY <1>1
<1>4. /\ u = Out \cup Before(c, n + 1) /\ Disjoint(c) /\ InOrder(c)
      /\ \A k \in 1..n : /\ Meant(c[k]) /\ Shape(c[k], LeftBefore(c, k))
                         /\ \A i \in Eligible \ u : Energy(i) <= Energy(c[k].seed)
  BY DEF SoundClusters, n
<1>5. /\ Leading(x.seed, Eligible \ u) /\ Members(x) \subseteq Eligible \ u
      /\ Distinct(x.list) /\ x.energy = Total(x.list) - (IF OnCrystals THEN 1 ELSE 0)
      /\ x.seed \in Members(x) \/ (algo = "ecal" /\ Full(x))
      /\ Shape(x, Out \cup (Eligible \ u))
  BY DEF GoodCluster
<1>6. \A k \in 1..(n + 1) : Before(b, k) = Before(c, k)
  <2>1. ASSUME NEW k \in 1..(n + 1), NEW i PROVE i \in Before(b, k) <=> i \in Before(c, k)
    <3>1. \A j \in 1..(k - 1) : j \in 1..n
      BY <1>1
    <3>2. QED
      BY <1>2, <3>1, BeforeIs
  <2>2. QED
    BY <2>1
<1>7. Before(b, (n + 1) + 1) = Before(c, n + 1) \cup Members(x)
  <2>1. \A j : j \in 1..(((n + 1) + 1) - 1) <=> j \in 1..n \/ j = n + 1
    BY <1>1
  <2>2. \A j : j \in 1..((n + 1) - 1) <=> j \in 1..n
    BY <1>1
  <2>3. ASSUME NEW i PROVE i \in Before(b, (n + 1) + 1) <=> i \in Before(c, n + 1) \/ i \in Members(x)
    <3>1. i \in Before(b, (n + 1) + 1) <=> \E j : j \in 1..(((n + 1) + 1) - 1) /\ i \in Members(b[j])
      BY BeforeIs
    <3>2. i \in Before(c, n + 1) <=> \E j : j \in 1..((n + 1) - 1) /\ i \in Members(c[j])
      BY BeforeIs
    <3>3. QED
      BY <1>2, <2>1, <2>2, <3>1, <3>2
  <2>4. QED
    BY <2>3
<1>8. u \cup Members(x) = Out \cup Before(b, (n + 1) + 1)
  BY <1>4, <1>7
<1>9. \A k \in 1..n : Members(c[k]) \subseteq Before(c, n + 1)
  <2>1. \A k \in 1..n : k \in 1..((n + 1) - 1)
    BY <1>1
  <2>2. QED
    BY <2>1, BeforeIs
<1>10. Disjoint(b)
  <2>1. ASSUME NEW k \in 1..n PROVE Members(c[k]) \cap Members(x) = {}
    BY <1>4, <1>5, <1>9
  <2>2. \A j, k \in 1..n : j # k => Members(c[j]) \cap Members(c[k]) = {}
    BY <1>4 DEF Disjoint, n
  <2> SUFFICES ASSUME NEW j \in 1..(n + 1), NEW k \in 1..(n + 1), j # k
               PROVE  Members(b[j]) \cap Members(b[k]) = {}
    BY <1>2 DEF Disjoint
  <2>3. CASE j \in 1..n /\ k \in 1..n
    BY <1>2, <2>2, <2>3
  <2>4. CASE j \in 1..n /\ k = n + 1
    BY <1>2, <2>1, <2>4
  <2>5. CASE j = n + 1 /\ k \in 1..n
    BY <1>2, <2>1, <2>5
  <2>6. QED
    BY <1>3, <2>3, <2>4, <2>5
<1>11. InOrder(b)
  <2>1. x.seed \in Eligible \ u
    BY <1>5 DEF Leading
  <2>2. \A k \in 1..n : c[k] \in ClusterType
    BY <1>1 DEF n
  <2>3. x.seed \in Hits /\ \A k \in 1..n : c[k].seed \in Hits
    BY <1>1, <2>2 DEF ClusterType
  <2>4. Energy(x.seed) \in Int /\ \A k \in 1..n : Energy(c[k].seed) \in Int
    BY <2>3, HitsAre
  <2>5. \A k \in 1..n : Energy(c[k].seed) >= Energy(x.seed)
    BY <1>4, <2>1, <2>4
  <2>6. \A j, k \in 1..n : j < k => Energy(c[j].seed) >= Energy(c[k].seed)
    BY <1>4 DEF InOrder, n
  <2> SUFFICES ASSUME NEW j \in 1..(n + 1), NEW k \in 1..(n + 1), j < k
               PROVE  Energy(b[j].seed) >= Energy(b[k].seed)
    BY <1>2 DEF InOrder
  <2>7. j \in 1..n
    BY <1>1
  <2>8. CASE k \in 1..n
    BY <1>2, <2>6, <2>7, <2>8
  <2>9. CASE k = n + 1
    BY <1>2, <2>5, <2>7, <2>9
  <2>10. QED
    BY <1>3, <2>8, <2>9
<1>12. Meant(x)
  <2>1. \A i \in Members(x) : Energy(i) <= Energy(x.seed)
    BY <1>5 DEF Leading
  <2>2. QED
    BY <1>5, <2>1 DEF Meant, Leads
<1>13. Before(c, n + 1) \subseteq Eligible
  <2>1. ASSUME NEW i \in Before(c, n + 1) PROVE i \in Eligible
    <3>1. PICK j \in 1..((n + 1) - 1) : i \in Members(c[j])
      BY BeforeIs
    <3>2. j \in 1..n
      BY <1>1
    <3>3. QED
      BY <1>4, <3>1, <3>2 DEF Meant
  <2>2. QED
    BY <2>1
<1>14. LeftBefore(b, n + 1) = Out \cup (Eligible \ u)
  <2>1. Before(b, n + 1) = Before(c, n + 1)
    <3>1. n + 1 \in 1..(n + 1)
      BY <1>1
    <3>2. QED
      BY <1>6, <3>1
  <2>2. LeftBefore(b, n + 1) = Pool \ Before(c, n + 1)
    BY <2>1 DEF LeftBefore, Pool
  <2>3. Eligible \subseteq Pool
    BY EligibleIs DEF Typed
  <2>4. QED
    BY <1>4, <1>13, <2>2, <2>3 DEF Out
<1>15. ASSUME NEW k \in 1..(n + 1)
       PROVE  /\ Meant(b[k]) /\ Shape(b[k], LeftBefore(b, k))
              /\ \A i \in Eligible \ (u \cup Members(x)) : Energy(i) <= Energy(b[k].seed)
  <2>1. CASE k \in 1..n
    <3>1. b[k] = c[k]
      BY <1>2, <2>1
    <3>2. LeftBefore(b, k) = LeftBefore(c, k)
      BY <1>6 DEF LeftBefore
    <3>3. QED
      BY <1>4, <2>1, <3>1, <3>2
  <2>2. CASE k = n + 1
    <3>1. b[k] = x
      BY <1>2, <2>2
    <3>2. Shape(x, LeftBefore(b, k))
      BY <1>5, <1>14, <2>2
    <3>3. \A i \in Eligible \ u : Energy(i) <= Energy(x.seed)
      BY <1>5 DEF Leading
    <3>4. QED
      BY <1>12, <3>1, <3>2, <3>3
  <2>3. QED
    BY <1>3, <2>1, <2>2
<1>16. SoundClusters(b, u \cup Members(x))
  BY <1>2, <1>8, <1>10, <1>11, <1>15 DEF SoundClusters
<1>17. QED
  BY <1>16 DEF b

-----------------------------------------------------------------------------
(* clusMatrix: what is put from a row on leaves the rows before, but not what *)
(* went on there because it did not fit.                                      *)

\* The lists of the clusters are in the array; and none is longer than a row.
Rows(c, m) == \A k \in 1..Len(c) : (k - 1) * MaxHits + c[k].n <= Len(m)
Short(c) == \A k \in 1..Len(c) : c[k].n <= MaxHits

\* The clusters c and v are the same, but for what goes beyond a row in the lists of v.
Agree(c, v) ==
  /\ Len(c) = Len(v)
  /\ \A k \in 1..Len(v) :
       /\ c[k].seed = v[k].seed /\ c[k].n = v[k].n /\ c[k].energy = v[k].energy
       /\ Len(c[k].list) = v[k].n /\ Len(v[k].list) = v[k].n
       /\ \A i \in 1..v[k].n : i <= MaxHits \/ ~Simple => c[k].list[i] = v[k].list[i]

LEMMA PutRowIs ==
  ASSUME NEW T, 1 \in T, NEW m \in Seq(T), NEW row \in Nat, NEW s \in Seq(T)
  PROVE  /\ PutRow(m, row, s) \in Seq(T)
         /\ Len(PutRow(m, row, s)) \in Nat
         /\ Len(m) <= Len(PutRow(m, row, s)) /\ row * MaxHits + Len(s) <= Len(PutRow(m, row, s))
         /\ Len(PutRow(m, row, s)) \in {Len(m), row * MaxHits + Len(s)}
         /\ \A k \in 1..Len(m) : k <= row * MaxHits => PutRow(m, row, s)[k] = m[k]
         /\ \A k \in 1..Len(s) : PutRow(m, row, s)[row * MaxHits + k] = s[k]
<1> DEFINE from == row * MaxHits
<1> DEFINE z == Max({Len(m), from + Len(s)})
<1>1. from \in Nat /\ Len(m) \in Nat /\ Len(s) \in Nat
  BY Constants
<1> HIDE DEF from
<1>2. z \in {Len(m), from + Len(s)} /\ z >= Len(m) /\ z >= from + Len(s)
  <2> DEFINE S == {Len(m), from + Len(s)}
  <2>1. \E x \in S : \A y \in S : x >= y
    BY <1>1
  <2> DEFINE M == Max(S)
  <2>2. M \in S /\ \A y \in S : M >= y
    <3> HIDE DEF S
    <3>1. QED
      BY <2>1 DEF Max
  <2> HIDE DEF M
  <2>3. M \in S /\ M >= Len(m) /\ M >= from + Len(s)
    BY <2>2
  <2>4. QED
    BY <2>3 DEF M
<1>3. z \in Nat
  BY <1>1, <1>2
<1>4. PutRow(m, row, s) =
        [k \in 1..z |-> IF k - from \in DOMAIN s THEN s[k - from] ELSE IF k \in DOMAIN m THEN m[k] ELSE 1]
  BY DEF PutRow, from
<1> HIDE DEF z
<1>5. DOMAIN m = 1..Len(m) /\ DOMAIN s = 1..Len(s)
  OBVIOUS
<1> DEFINE r == PutRow(m, row, s)
<1>6. ASSUME NEW k \in 1..z
      PROVE  (IF k - from \in DOMAIN s THEN s[k - from] ELSE IF k \in DOMAIN m THEN m[k] ELSE 1) \in T
  BY <1>5
<1>7. r \in [1..z -> T]
  BY <1>4, <1>6
<1>8. r \in Seq(T) /\ Len(r) = z
  BY <1>3, <1>7
<1>9. \A k \in 1..Len(m) : k <= from => r[k] = m[k]
  <2> SUFFICES ASSUME NEW k \in 1..Len(m), k <= from PROVE r[k] = m[k]
    OBVIOUS
  <2>1. k \in 1..z /\ k - from \notin 1..Len(s)
    BY <1>1, <1>2, <1>3
  <2>2. QED
    BY <1>4, <1>5, <2>1
<1>10. \A k \in 1..Len(s) : r[from + k] = s[k]
  <2> SUFFICES ASSUME NEW k \in 1..Len(s) PROVE r[from + k] = s[k]
    OBVIOUS
  <2>1. from + k \in 1..z /\ (from + k) - from = k
    BY <1>1, <1>2, <1>3
  <2>2. QED
    BY <1>4, <1>5, <2>1
<1>11. QED
  BY <1>2, <1>3, <1>8, <1>9, <1>10 DEF from

LEMMA Relisted ==
  ASSUME NEW x \in ClusterType, NEW l
  PROVE  [x EXCEPT !.list = l] = [seed |-> x.seed, n |-> x.n, energy |-> x.energy, list |-> l]
<1>1. PICK s, n, e, k : x = [seed |-> s, n |-> n, energy |-> e, list |-> k]
  BY DEF ClusterType
<1>2. QED
  BY <1>1

LEMMA ListedIs ==
  ASSUME NEW m \in Seq(Hits), NEW c \in Seq(ClusterType), Rows(c, m)
  PROVE  /\ Listed(c, m) \in Seq(ClusterType) /\ Len(Listed(c, m)) = Len(c)
         /\ \A k \in 1..Len(c) :
              /\ Listed(c, m)[k] = [seed |-> c[k].seed, n |-> c[k].n, energy |-> c[k].energy,
                                    list |-> SubSeq(m, (k - 1) * MaxHits + 1, (k - 1) * MaxHits + c[k].n)]
              /\ Listed(c, m)[k].seed = c[k].seed /\ Listed(c, m)[k].n = c[k].n
<1>1. DOMAIN c = 1..Len(c) /\ Len(c) \in Nat /\ MaxHits \in Nat /\ Len(m) \in Nat
  BY Constants
<1>2. ASSUME NEW k \in 1..Len(c)
      PROVE  /\ Listed(c, m)[k] = [seed |-> c[k].seed, n |-> c[k].n, energy |-> c[k].energy,
                                   list |-> SubSeq(m, (k - 1) * MaxHits + 1, (k - 1) * MaxHits + c[k].n)]
             /\ Listed(c, m)[k] \in ClusterType
             /\ Listed(c, m)[k].seed = c[k].seed /\ Listed(c, m)[k].n = c[k].n
  <2>1. c[k] \in ClusterType
    OBVIOUS
  <2> DEFINE a == (k - 1) * MaxHits
  <2>2. Listed(c, m)[k] = [c[k] EXCEPT !.list = SubSeq(m, a + 1, a + c[k].n)]
    BY <1>1 DEF Listed
  <2>3. c[k].n \in Nat /\ a \in Nat /\ a + c[k].n <= Len(m)
    <3>1. k - 1 \in Nat
      BY <1>1
    <3>2. c[k].n \in Nat /\ a \in Nat
      BY <1>1, <2>1, <3>1 DEF ClusterType
    <3>3. QED
      BY <3>2 DEF Rows
  <2> HIDE DEF a
  <2> DEFINE l == SubSeq(m, a + 1, a + c[k].n)
  <2>4. l \in Seq(Hits)
    BY <1>1, <2>3
  <2> HIDE DEF l
  <2>5. [c[k] EXCEPT !.list = l] = [seed |-> c[k].seed, n |-> c[k].n, energy |-> c[k].energy, list |-> l]
    BY <2>1, Relisted
  <2>6. [seed |-> c[k].seed, n |-> c[k].n, energy |-> c[k].energy, list |-> l] \in ClusterType
    BY <2>1, <2>4 DEF ClusterType
  <2>7. Listed(c, m)[k] = [seed |-> c[k].seed, n |-> c[k].n, energy |-> c[k].energy, list |-> l]
    BY <2>2, <2>5 DEF l
  <2>8. QED
    BY <2>6, <2>7 DEF l, a
<1>3. Listed(c, m) \in [1..Len(c) -> ClusterType]
  <2>1. DOMAIN Listed(c, m) = 1..Len(c)
    BY <1>1 DEF Listed
  <2>2. Listed(c, m) = [k \in 1..Len(c) |-> Listed(c, m)[k]]
    BY <1>1 DEF Listed
  <2>3. QED
    BY <1>2, <2>2
<1>4. Listed(c, m) \in Seq(ClusterType) /\ Len(Listed(c, m)) = Len(c)
  <2> DEFINE l == Listed(c, m)
  <2> HIDE DEF l
  <2>1. l \in [1..Len(c) -> ClusterType]
    BY <1>3 DEF l
  <2>2. l \in Seq(ClusterType) /\ Len(l) = Len(c)
    BY ONLY <1>1, <2>1
  <2>3. QED
    BY <2>2 DEF l
<1>5. QED
  BY ONLY <1>2, <1>4

LEMMA ListedAppend ==
  ASSUME NEW m \in Seq(Hits), NEW c \in Seq(ClusterType), Rows(c, m),
         Simple, 1 \in Hits, NEW x \in ClusterType, NEW y \in ClusterType,
         x.seed = y.seed, x.n = y.n, x.energy = y.energy, y.n = Len(y.list)
  PROVE  /\ Rows(Append(c, x), PutRow(m, Len(c), y.list))
         /\ PutRow(m, Len(c), y.list) \in Seq(Hits) /\ Append(c, x) \in Seq(ClusterType)
         /\ Len(PutRow(m, Len(c), y.list)) \in {Len(m), Len(c) * MaxHits + Len(y.list)}
         /\ \A g \in Seq(ClusterType) :
              Agree(g, Listed(c, m)) => Agree(Append(g, y), Listed(Append(c, x), PutRow(m, Len(c), y.list)))
<1> DEFINE p == PutRow(m, Len(c), y.list)
<1> DEFINE b == Append(c, x)
<1> DEFINE n == Len(c)
<1> DEFINE s == y.list
<1> DEFINE seed == y.seed
<1> DEFINE e == y.energy
<1>0. s \in Seq(Hits) /\ y = [seed |-> seed, n |-> Len(s), energy |-> e, list |-> s] /\ p = PutRow(m, Len(c), s)
  BY DEF ClusterType
<1>1. n \in Nat /\ Len(m) \in Nat /\ Len(s) \in Nat /\ MaxHits \in Nat
  BY <1>0, Constants
<1>2. /\ b \in Seq(ClusterType) /\ Len(b) = n + 1 /\ b[n + 1] = x
      /\ \A k \in 1..n : b[k] = c[k]
  BY <1>1
<1>3. /\ p \in Seq(Hits) /\ Len(p) \in Nat /\ Len(m) <= Len(p) /\ n * MaxHits + Len(s) <= Len(p)
      /\ Len(p) \in {Len(m), n * MaxHits + Len(s)}
      /\ \A k \in 1..Len(m) : k <= n * MaxHits => p[k] = m[k]
      /\ \A k \in 1..Len(s) : p[n * MaxHits + k] = s[k]
  BY <1>0, <1>1, PutRowIs
<1>4. \A k \in 1..n : c[k].n \in Nat /\ (k - 1) * MaxHits + c[k].n <= Len(m)
  <2>1. \A k \in 1..n : c[k] \in ClusterType
    OBVIOUS
  <2>2. QED
    BY <2>1 DEF ClusterType, Rows
<1>5. \A k \in 1..(n + 1) : k \in 1..n \/ k = n + 1
  BY <1>1
<1>6. x.n = Len(s) /\ x.seed = seed /\ x.energy = e
  OBVIOUS
<1> HIDE DEF n, s, seed, e, p, b
<1>7. Rows(b, p)
  <2> SUFFICES ASSUME NEW k \in 1..(n + 1) PROVE (k - 1) * MaxHits + b[k].n <= Len(p)
    BY <1>2 DEF Rows
  <2>1. CASE k \in 1..n
    <3> DEFINE a == (k - 1) * MaxHits
    <3>1. a \in Int
      BY <1>1
    <3>2. b[k].n \in Nat /\ a + b[k].n <= Len(m)
      BY <1>2, <1>4, <2>1
    <3> HIDE DEF a
    <3>3. \A z, o, q, r \in Int : z + o <= q /\ q <= r => z + o <= r
      BY ONLY TRUE
    <3>4. Len(m) \in Int /\ Len(p) \in Int /\ Len(m) <= Len(p)
      BY <1>1, <1>3
    <3>7. b[k].n \in Int
      BY ONLY <3>2
    <3>5. a + b[k].n <= Len(p)
      BY ONLY <3>1, <3>2, <3>3, <3>4, <3>7
    <3>6. QED
      BY <3>5 DEF a
  <2>2. CASE k = n + 1
    <3>1. k - 1 = n /\ b[k].n = Len(s)
      BY <1>1, <1>2, <1>6, <2>2
    <3>2. QED
      BY <1>3, <3>1
  <2>3. QED
    BY <1>5, <2>1, <2>2
<1> DEFINE L == Listed(b, p)
<1> DEFINE K == Listed(c, m)
<1>8. /\ L \in Seq(ClusterType) /\ Len(L) = n + 1
      /\ \A k \in 1..(n + 1) :
           L[k] = [seed |-> b[k].seed, n |-> b[k].n, energy |-> b[k].energy,
                   list |-> SubSeq(p, (k - 1) * MaxHits + 1, (k - 1) * MaxHits + b[k].n)]
  <2>1. /\ Listed(b, p) \in Seq(ClusterType) /\ Len(Listed(b, p)) = Len(b)
        /\ \A k \in 1..Len(b) :
             Listed(b, p)[k] = [seed |-> b[k].seed, n |-> b[k].n, energy |-> b[k].energy,
                                list |-> SubSeq(p, (k - 1) * MaxHits + 1, (k - 1) * MaxHits + b[k].n)]
    <3>1. b \in Seq(ClusterType) /\ p \in Seq(Hits) /\ Rows(b, p)
      BY <1>2, <1>3, <1>7
    <3>2. QED
      BY ONLY <3>1, ListedIs
  <2>2. QED
    BY <1>2, <2>1
<1>9. /\ K \in Seq(ClusterType) /\ Len(K) = n
      /\ \A k \in 1..n :
           K[k] = [seed |-> c[k].seed, n |-> c[k].n, energy |-> c[k].energy,
                   list |-> SubSeq(m, (k - 1) * MaxHits + 1, (k - 1) * MaxHits + c[k].n)]
  BY ListedIs DEF n
<1> HIDE DEF L, K
<1>10. ASSUME NEW k \in 1..n
       PROVE  /\ L[k].seed = K[k].seed /\ L[k].n = K[k].n /\ L[k].energy = K[k].energy
              /\ K[k].n \in Nat /\ Len(L[k].list) = K[k].n
              /\ \A i \in 1..K[k].n : i <= MaxHits => L[k].list[i] = K[k].list[i]
  <2> DEFINE a == (k - 1) * MaxHits
  <2> DEFINE o == c[k].n
  <2>1. a \in Nat /\ o \in Nat /\ a + o <= Len(m)
    <3>1. k - 1 \in Nat
      BY <1>1
    <3>2. a \in Nat
      BY <1>1, <3>1
    <3>3. o \in Nat /\ a + o <= Len(m)
      BY <1>4
    <3>4. QED
      BY <3>2, <3>3
  <2>2. a + MaxHits <= n * MaxHits
    <3>1. k - 1 \in Nat /\ k <= n
      BY <1>1
    <3>2. (k - 1) * MaxHits + MaxHits = k * MaxHits
      BY <1>1
    <3>3. k * MaxHits <= n * MaxHits
      BY <1>1, <3>1
    <3>4. QED
      BY <3>2, <3>3
  <2>3. n * MaxHits \in Nat
    BY <1>1
  <2>4. k \in 1..(n + 1) /\ b[k] = c[k]
    BY <1>1, <1>2
  <2>5. /\ L[k] = [seed |-> c[k].seed, n |-> o, energy |-> c[k].energy, list |-> SubSeq(p, a + 1, a + o)]
        /\ K[k] = [seed |-> c[k].seed, n |-> o, energy |-> c[k].energy, list |-> SubSeq(m, a + 1, a + o)]
    BY <1>8, <1>9, <2>4
  <2> HIDE DEF a, o
  <2>6. a + o <= Len(p)
    BY <1>1, <1>3, <2>1
  <2>7. /\ SubSeq(p, a + 1, a + o) \in Seq(Hits) /\ Len(SubSeq(p, a + 1, a + o)) = o
        /\ \A i \in 1..o : SubSeq(p, a + 1, a + o)[i] = p[a + i]
    BY <1>3, <2>1, <2>6
  <2>8. /\ SubSeq(m, a + 1, a + o) \in Seq(Hits) /\ Len(SubSeq(m, a + 1, a + o)) = o
        /\ \A i \in 1..o : SubSeq(m, a + 1, a + o)[i] = m[a + i]
    BY <1>1, <2>1
  <2>9. ASSUME NEW i \in 1..o, i <= MaxHits PROVE p[a + i] = m[a + i]
    <3> DEFINE q == n * MaxHits
    <3>1. q \in Nat /\ a + MaxHits <= q
      BY <2>2, <2>3
    <3> HIDE DEF q
    <3>2. a + i \in 1..Len(m) /\ a + i <= q
      BY <1>1, <2>1, <2>9, <3>1
    <3>3. QED
      BY <1>3, <3>2 DEF q
  <2>10. \A i \in 1..o : i <= MaxHits => SubSeq(p, a + 1, a + o)[i] = SubSeq(m, a + 1, a + o)[i]
    BY <2>7, <2>8, <2>9
  <2>11. QED
    BY <2>1, <2>5, <2>7, <2>10
<1>11. L[n + 1] = y
  <2>1. n + 1 \in 1..(n + 1) /\ (n + 1) - 1 = n
    BY <1>1
  <2>2. b[n + 1].n = Len(s) /\ b[n + 1].seed = seed /\ b[n + 1].energy = e
    BY <1>2, <1>6
  <2> DEFINE a == n * MaxHits
  <2>3. L[n + 1] = [seed |-> seed, n |-> Len(s), energy |-> e, list |-> SubSeq(p, a + 1, a + Len(s))]
    BY <1>8, <2>1, <2>2
  <2>4. a \in Nat /\ a + Len(s) <= Len(p) /\ \A k \in 1..Len(s) : p[a + k] = s[k]
    <3>1. a \in Nat
      BY <1>1
    <3>2. QED
      BY <1>3, <3>1
  <2> HIDE DEF a
  <2>5. SubSeq(p, a + 1, a + Len(s)) = s
    <3> DEFINE f == SubSeq(p, a + 1, a + Len(s))
    <3>1. f \in Seq(Hits) /\ Len(f) = Len(s) /\ \A i \in 1..Len(s) : f[i] = p[a + i]
      BY <1>0, <1>1, <1>3, <2>4
    <3> HIDE DEF f
    <3>2. \A i \in 1..Len(s) : f[i] = s[i]
      BY <2>4, <3>1
    <3>3. f = s
      BY <1>0, <3>1, <3>2
    <3>4. QED
      BY <3>3 DEF f
  <2>6. QED
    BY <1>0, <2>3, <2>5
<1>12. ASSUME NEW g \in Seq(ClusterType), Agree(g, K) PROVE Agree(Append(g, y), L)
  <2> DEFINE A == Append(g, y)
  <2>1. Len(g) = n
    BY <1>9, <1>12 DEF Agree
  <2>2. Len(A) = n + 1 /\ A[n + 1] = y /\ \A k \in 1..n : A[k] = g[k]
    BY <1>1, <2>1
  <2> HIDE DEF A
  <2>3. ASSUME NEW k \in 1..n
        PROVE  /\ A[k].seed = L[k].seed /\ A[k].n = L[k].n /\ A[k].energy = L[k].energy
               /\ Len(A[k].list) = L[k].n /\ Len(L[k].list) = L[k].n
               /\ \A i \in 1..L[k].n : i <= MaxHits => A[k].list[i] = L[k].list[i]
    <3>1. /\ g[k].seed = K[k].seed /\ g[k].n = K[k].n /\ g[k].energy = K[k].energy
          /\ Len(g[k].list) = K[k].n
          /\ \A i \in 1..K[k].n : i <= MaxHits => g[k].list[i] = K[k].list[i]
      BY <1>9, <1>12 DEF Agree
    <3>2. QED
      BY <1>10, <2>2, <3>1
  <2>4. /\ A[n + 1].seed = L[n + 1].seed /\ A[n + 1].n = L[n + 1].n /\ A[n + 1].energy = L[n + 1].energy
        /\ Len(A[n + 1].list) = L[n + 1].n /\ Len(L[n + 1].list) = L[n + 1].n
        /\ \A i \in 1..L[n + 1].n : A[n + 1].list[i] = L[n + 1].list[i]
    BY <1>0, <1>11, <2>2
  <2>5. ASSUME NEW k \in 1..(n + 1)
        PROVE  /\ A[k].seed = L[k].seed /\ A[k].n = L[k].n /\ A[k].energy = L[k].energy
               /\ Len(A[k].list) = L[k].n /\ Len(L[k].list) = L[k].n
               /\ \A i \in 1..L[k].n : i <= MaxHits => A[k].list[i] = L[k].list[i]
    BY <1>5, <2>3, <2>4
  <2>6. Agree(A, L)
    BY <1>8, <2>2, <2>5 DEF Agree
  <2>7. QED
    BY <2>6 DEF A
<1>13. QED
  BY <1>2, <1>3, <1>7, <1>12 DEF L, K, p, b, n, s

-----------------------------------------------------------------------------
(* Neither the configuration nor the event moves, nor what is said of them. *)

SumOf(h, l) ==
  LET sum[n \in 0..Len(l)] == IF n = 0 THEN 0 ELSE sum[n - 1] + h[l[n]].e
  IN  sum[Len(l)]

LEMMA TotalUnmoved ==
  ASSUME hits' = hits, NEW l
  PROVE  Total(l)' = Total(l)
<1>1. Total(l) = SumOf(hits, l)
  BY DEF Total, SumOf, Energy
<1>2. Total(l)' = SumOf(hits', l)
  BY DEF Total, SumOf, Energy
<1>3. QED
  BY <1>1, <1>2

LEMMA HitsUnmoved ==
  ASSUME algo' = algo, hits' = hits
  PROVE  /\ Hits' = Hits /\ Crystals' = Crystals /\ ClusterType' = ClusterType
         /\ OnCrystals' = OnCrystals /\ Base' = Base /\ Simple' = Simple
         /\ Eligible' = Eligible /\ Pool' = Pool /\ Out' = Out
<1>1. Hits' = Hits
  BY DEF Hits
<1>2. (OnCrystals' = OnCrystals) /\ (Base' = Base) /\ (Simple' = Simple)
  BY DEF OnCrystals, Base, Simple
<1>3. \A i : Cell(i)' = Cell(i) /\ Energy(i)' = Energy(i)
  BY DEF Cell, Energy
<1>4. Crystals' = Crystals
  BY <1>1, <1>3 DEF Crystals
<1>5. ClusterType' = ClusterType
  BY <1>1 DEF ClusterType
<1>6. Eligible' = Eligible
  BY <1>1, <1>2, <1>3, <1>4 DEF Eligible
<1>7. Pool' = Pool
  BY <1>1, <1>2, <1>4 DEF Pool
<1>8. Out' = Out
  BY <1>6, <1>7 DEF Out
<1>9. QED
  BY <1>1, <1>2, <1>4, <1>5, <1>6, <1>7, <1>8

\* The fingers of the hits on the seed's row.
Struck(s, left) == {Finger(j) : j \in Row(s, left)}

LEMMA ShapeUnmoved ==
  ASSUME algo \in AlgoKinds, algo' = algo, hits' = hits, NEW x, NEW left
  PROVE  Shape(x, left)' <=> Shape(x, left)
<1>1. \A i : Cell(i)' = Cell(i) /\ Energy(i)' = Energy(i) /\ Finger(i)' = Finger(i)
  BY DEF Cell, Energy, Finger
<1>2. \A i, j : Apart(i, j)' = Apart(i, j) /\ (Near(i, j)' <=> Near(i, j))
  BY <1>1 DEF Apart, Near
<1>3. Base' <=> Base
  BY DEF Base
<1>4. \A s : Timely(s, left)' = Timely(s, left)
  BY <1>1, <1>2, <1>3 DEF Timely
<1>5. \A s, n : Square(s, left, n)' = Square(s, left, n)
  BY <1>2, <1>4 DEF Square
<1>6. \A s : Row(s, left)' = Row(s, left)
  BY <1>1, <1>4 DEF Row
<1>7. \A s, i : Between(s, i)' = Between(s, i)
  BY <1>1 DEF Between
<1>8. \A s : Struck(s, left)' = Struck(s, left)
  <2>1. ASSUME NEW s, NEW f PROVE f \in Struck(s, left)' <=> f \in Struck(s, left)
    <3>1. f \in Struck(s, left) <=> \E j \in Row(s, left) : f = Finger(j)
      BY DEF Struck
    <3>2. f \in Struck(s, left)' <=> \E j \in Row(s, left)' : f = Finger(j)'
      BY DEF Struck
    <3>3. QED
      BY <1>1, <1>6, <3>1, <3>2
  <2>2. ASSUME NEW s PROVE Struck(s, left)' = Struck(s, left)
    <3>1. Struck(s, left) = {f \in Struck(s, left) : TRUE} /\ Struck(s, left)' = {f \in Struck(s, left)' : TRUE}
      BY DEF Struck
    <3>2. QED
      BY <2>1, <3>1
  <2>3. QED
    BY <2>2
<1>9. \A s : Stretch(s, left)' = Stretch(s, left)
  <2>1. ASSUME NEW s PROVE Stretch(s, left)' = Stretch(s, left)
    <3>1. Stretch(s, left) = {i \in Row(s, left) : Apart(s, i) <= CellMax /\ Between(s, i) \subseteq Struck(s, left)}
      BY DEF Stretch, Struck
    <3>2. Stretch(s, left)' = {i \in Row(s, left)' : Apart(s, i)' <= CellMax /\ Between(s, i)' \subseteq Struck(s, left)'}
      BY DEF Stretch, Struck
    <3>3. QED
      BY <1>2, <1>6, <1>7, <1>8, <3>1, <3>2
  <2>2. QED
    BY <2>1
<1>10. \A S : Links(S)' = Links(S)
  BY <1>2 DEF Links
<1>11. \A S : Falls(S)' = Falls(S)
  BY <1>1 DEF Falls
<1>12. \A s : Disc(s, left)' = Disc(s, left)
  BY <1>1 DEF Disc
<1>13. \A region : Fills(x, region)' <=> Fills(x, region)
  BY DEF Fills, Full
<1>14. CASE algo = "ecal"
  BY <1>5, <1>13, <1>14 DEF Shape
<1>15. CASE algo = "sac"
  BY <1>5, <1>13, <1>15 DEF Shape
<1>16. CASE algo = "veto"
  BY <1>9, <1>13, <1>16 DEF Shape
<1>17. CASE algo = "island"
  BY <1>11, <1>13, <1>17 DEF Shape
<1>18. CASE algo = "radius"
  BY <1>12, <1>13, <1>18 DEF Shape
<1>19. CASE algo = "cells"
  BY <1>2, <1>5, <1>10, <1>19 DEF Shape
<1>20. QED
  BY <1>14, <1>15, <1>16, <1>17, <1>18, <1>19 DEF AlgoKinds

LEMMA SoundUnmoved ==
  ASSUME algo \in AlgoKinds, algo' = algo, hits' = hits, NEW c, NEW u
  PROVE  SoundClusters(c, u)' <=> SoundClusters(c, u)
<1>1. /\ Hits' = Hits /\ Crystals' = Crystals /\ ClusterType' = ClusterType
      /\ OnCrystals' = OnCrystals /\ Eligible' = Eligible /\ Out' = Out
  BY HitsUnmoved
<1>2. \A i : Energy(i)' = Energy(i)
  BY DEF Energy
<1>3. \A l : Total(l)' = Total(l)
  BY TotalUnmoved
<1>4. \A x : Full(x)' <=> Full(x)
  BY DEF Full
<1>5. \A x : Leads(x)' <=> Leads(x)
  BY <1>2, <1>4 DEF Leads
<1>6. \A x : Meant(x)' <=> Meant(x)
  BY <1>1, <1>3, <1>5 DEF Meant
<1>7. \A k : LeftBefore(c, k)' = LeftBefore(c, k)
  BY <1>1 DEF LeftBefore
<1>8. \A k : Shape(c[k], LeftBefore(c, k))' <=> Shape(c[k], LeftBefore(c, k))
  <2>1. ASSUME NEW k PROVE Shape(c[k], LeftBefore(c, k))' <=> Shape(c[k], LeftBefore(c, k))
    <3>1. PICK left : left = LeftBefore(c, k) /\ left = LeftBefore(c, k)'
      BY <1>7
    <3>2. Shape(c[k], left)' <=> Shape(c[k], left)
      BY ShapeUnmoved
    <3>3. QED
      BY <3>1, <3>2
  <2>2. QED
    BY <2>1
<1>9. (InOrder(c)' <=> InOrder(c)) /\ (Disjoint(c)' <=> Disjoint(c))
  BY <1>2 DEF InOrder, Disjoint
<1>10. QED
  BY <1>1, <1>2, <1>6, <1>8, <1>9 DEF SoundClusters


LEMMA AgreeUnmoved ==
  ASSUME algo' = algo, NEW c, NEW v
  PROVE  Agree(c, v)' <=> Agree(c, v)
<1>1. Simple' <=> Simple
  BY DEF Simple
<1>2. QED
  BY <1>1 DEF Agree
-----------------------------------------------------------------------------
(* The induction over the steps. *)

\* The clusters with their lists: what ListHits makes of them, until it has.
View == IF Simple /\ phase # "done" THEN Listed(cls, matrix) ELSE cls

\* There are sound clusters of which View has what fits in the rows.  Said of v
\* and u, so that it is about the same when algo and hits stay the same.
Found == \A v, u : v = View /\ u = used => \E c : SoundClusters(c, u) /\ Agree(c, v)

ClTypes ==
  /\ Typed /\ phase \in {"hits", "seeds", "list", "done", "overrun"}
  /\ used \in SUBSET Hits /\ matrix \in Seq(Hits) /\ cls \in Seq(ClusterType)

\* What has been written is inside of clusMatrix, and what has been read of the
\* arrays of hits.
Inside ==
  /\ Len(matrix) <= MaxClusters * MaxHits
  /\ Simple /\ cls # <<>> => Len(hits) <= MaxEvHits

Inv ==
  /\ ClTypes /\ Inside
  /\ phase = "hits" => used = {} /\ matrix = <<>> /\ cls = <<>>
  /\ phase = "list" => Simple
  /\ phase # "hits" /\ Refused => phase = "done" /\ cls = <<>>
  /\ phase # "hits" /\ ~Refused => Out \subseteq used /\ Found
  /\ phase = "seeds" /\ OnCrystals => Ordered
  /\ Simple /\ phase # "done" => Rows(cls, matrix)
  /\ algo = "ecal" => Short(cls) /\ (phase = "seeds" => Len(cls) < MaxClusters)
  /\ phase \in {"list", "done"} /\ ~Limited /\ ~Refused => \A i \in Eligible \ used : Energy(i) <= SeedThr

LEMMA NothingWritten ==
  0 <= MaxClusters * MaxHits /\ Len(<<>>) = 0
<1>1. MaxClusters \in Nat /\ MaxHits \in Nat
  BY Constants
<1>2. QED
  BY <1>1

LEMMA InvInit == ClInit => Inv
<1> SUFFICES ASSUME ClInit PROVE Inv
  OBVIOUS
<1>1. algo \in AlgoKinds
  BY ClusteringAssumption DEF ClInit, ClusteringAssumption
<1>2. hits \in Seq(HitData)
  BY Constants DEF ClInit
<1>3. /\ phase = "hits" /\ used = {} /\ matrix = <<>> /\ cls = <<>>
  BY DEF ClInit
<1>4. ClTypes
  BY <1>1, <1>2, <1>3 DEF ClTypes, Typed
<1>5. Rows(<<>>, <<>>) /\ Short(<<>>)
  BY DEF Rows, Short
<1>6. Inside
  BY <1>3, NothingWritten DEF Inside
<1>7. QED
  BY <1>3, <1>4, <1>5, <1>6 DEF Inv

\* What has to be looked at after a step that is not the first.
LEMMA InvAfter ==
  ASSUME Inv, algo' = algo, hits' = hits, ~Refused,
         phase' \in {"seeds", "list", "done", "overrun"}, phase' = "list" => Simple,
         used' \in SUBSET Hits, Out \subseteq used',
         matrix' \in Seq(Hits), cls' \in Seq(ClusterType),
         \A v, u : v = View' /\ u = used' => \E c : SoundClusters(c, u) /\ Agree(c, v),
         Len(matrix') <= MaxClusters * MaxHits, Simple /\ cls' # <<>> => Len(hits) <= MaxEvHits,
         phase' = "seeds" /\ OnCrystals => Ordered',
         Simple /\ phase' # "done" => Rows(cls', matrix'),
         algo = "ecal" => Short(cls') /\ (phase' = "seeds" => Len(cls') < MaxClusters),
         phase' \in {"list", "done"} /\ ~(Limited') => \A i \in Eligible \ used' : Energy(i) <= SeedThr
  PROVE  Inv'
<1>1. /\ Hits' = Hits /\ ClusterType' = ClusterType /\ OnCrystals' = OnCrystals /\ Simple' = Simple
      /\ Eligible' = Eligible /\ Out' = Out
  BY HitsUnmoved
<1>2. algo \in AlgoKinds /\ Typed' /\ \A i : Energy(i)' = Energy(i)
  BY DEF Inv, ClTypes, Typed, Energy
<1>3. ClTypes'
  BY <1>1, <1>2 DEF ClTypes
<1>4. Found'
  <2>1. \A c, u : SoundClusters(c, u)' <=> SoundClusters(c, u)
    BY <1>2, SoundUnmoved
  <2>2. \A c, v : Agree(c, v)' <=> Agree(c, v)
    BY AgreeUnmoved
  <2>3. QED
    BY <2>1, <2>2 DEF Found
<1>5. phase' # "hits" /\ (phase' = "list" => Simple') /\ (Out' \subseteq used')
  BY <1>1
<1>6. phase' = "seeds" /\ OnCrystals' => Ordered'
  BY <1>1
<1>7. (Simple' /\ phase' # "done") => Rows(cls, matrix)'
  BY <1>1 DEF Rows
<1>8. algo' = "ecal" => Short(cls)' /\ (phase' = "seeds" => Len(cls)' < MaxClusters)
  BY DEF Short
<1>9. (phase' \in {"list", "done"} /\ ~(Limited')) => \A i \in (Eligible \ used)' : Energy(i)' <= SeedThr
  BY <1>1, <1>2
<1>10. Inside' /\ ~(Refused')
  BY <1>1 DEF Inside, Refused
<1>11. QED
  BY <1>3, <1>4, <1>5, <1>6, <1>7, <1>8, <1>9, <1>10 DEF Inv

\* While seeds are looked for, the hits have been taken in.
LEMMA InvSeeds ==
  ASSUME Inv, phase = "seeds"
  PROVE  /\ ~Refused /\ Typed /\ algo \in AlgoKinds /\ Found /\ Inside
         /\ used \in SUBSET Hits /\ Out \subseteq used /\ matrix \in Seq(Hits) /\ cls \in Seq(ClusterType)
  BY DEF Inv, ClTypes, Typed

LEMMA FoundAfter ==
  ASSUME Typed, Found, NEW x, GoodCluster(x, Eligible \ used), used' = used \cup Members(x),
         \A g \in Seq(ClusterType) : Agree(g, View) => Agree(Append(g, x), View')
  PROVE  \A v, u : v = View' /\ u = used' => \E c : SoundClusters(c, u) /\ Agree(c, v)
<1>1. PICK v, u : v = View /\ u = used
  OBVIOUS
<1>2. PICK c : SoundClusters(c, u) /\ Agree(c, v)
  BY <1>1 DEF Found
<1>3. GoodCluster(x, Eligible \ u)
  BY <1>1
<1>4. SoundClusters(Append(c, x), u \cup Members(x))
  BY <1>2, <1>3, AppendCluster
<1>5. Agree(Append(c, x), View')
  BY <1>1, <1>2 DEF SoundClusters
<1>6. QED
  BY <1>1, <1>4, <1>5

\* Every cluster takes a hit that was free.
LEMMA TakesFree ==
  ASSUME Typed, used \subseteq Hits, NEW x, GoodCluster(x, Eligible \ used), used' = used \cup Members(x)
  PROVE  TakesHits /\ used' \in SUBSET Hits
<1>1. Members(x) \subseteq Eligible \ used /\ Members(x) # {}
  BY DEF GoodCluster
<1>2. Eligible \subseteq Hits
  BY EligibleIs DEF Typed
<1>3. QED
  BY <1>1, <1>2 DEF TakesHits

LEMMA NoneListed ==
  \A m : Listed(<<>>, m) = <<>>
  BY DEF Listed

\* The first step: what is out of the question is in use, there is no cluster.
LEMMA InvStart ==
  ASSUME Inv, phase = "hits", algo' = algo, hits' = hits, matrix' = matrix, cls' = cls,
         ~Refused, used' = Out, phase' = "seeds" \/ (phase' = "done" /\ Hits = {}),
         phase' = "seeds" /\ OnCrystals => Ordered'
  PROVE  Inv'
<1>1. /\ Typed /\ algo \in AlgoKinds /\ cls = <<>> /\ matrix = <<>> /\ cls' = <<>> /\ matrix' = <<>>
  BY DEF Inv, ClTypes, Typed
<1>2. Out \subseteq Hits /\ Eligible \subseteq Hits
  BY <1>1, EligibleIs
<1>3. View' = <<>>
  <2>1. View' = IF Simple' /\ phase' # "done" THEN Listed(<<>>, <<>>) ELSE <<>>
    BY <1>1 DEF View, Listed
  <2>2. QED
    BY <2>1, NoneListed
<1>4. \A v, u : v = View' /\ u = used' => \E c : SoundClusters(c, u) /\ Agree(c, v)
  <2>1. Agree(<<>>, <<>>)
    BY DEF Agree
  <2>2. QED
    BY <1>3, <2>1, NoClusters
<1>5. /\ Rows(<<>>, <<>>) /\ Short(<<>>) /\ <<>> \in Seq(Hits) /\ <<>> \in Seq(ClusterType)
      /\ Len(<<>>) < MaxClusters /\ Len(<<>>) <= MaxClusters * MaxHits
  BY NothingWritten, Constants DEF Rows, Short
<1>6. phase' \in {"list", "done"} => \A i \in Eligible \ used' : Energy(i) <= SeedThr
  BY <1>2
<1>7. QED
  BY <1>1, <1>2, <1>4, <1>5, <1>6, InvAfter

\* The first step of an event with too many hits: there will be no cluster.
LEMMA InvRefused ==
  ASSUME Inv, phase = "hits", algo' = algo, hits' = hits, matrix' = matrix, cls' = cls,
         Refused, used' = {}, phase' = "done"
  PROVE  Inv'
<1>1. /\ Typed /\ cls' = <<>> /\ matrix' = <<>>
  BY DEF Inv, ClTypes
<1>2. Typed' /\ Refused'
  BY <1>1 DEF Typed, Refused
<1>3. ClTypes'
  BY <1>1, <1>2 DEF ClTypes
<1>4. Inside'
  BY <1>1, NothingWritten DEF Inside
<1>5. Short(<<>>)
  BY DEF Short
<1>6. Short(cls)'
  BY <1>1, <1>5 DEF Short
<1>7. QED
  BY <1>1, <1>2, <1>3, <1>4, <1>6 DEF Inv

\* The step that finds no seed, or no room.
LEMMA InvEnd ==
  ASSUME Inv, phase = "seeds", NEW after, NoSeed(after),
         after \in {"list", "done", "overrun"}, after = "done" <=> ~Simple,
         after # "overrun" /\ ~Limited => \A i \in Eligible \ used : Energy(i) <= SeedThr
  PROVE  Inv' /\ phase' = after
<1>1. /\ algo' = algo /\ hits' = hits /\ matrix' = matrix /\ cls' = cls /\ used' = used /\ order' = order
      /\ phase' = after
  BY DEF NoSeed
<1>2. View' = View
  <2>1. (Simple' <=> Simple) /\ Listed(cls, matrix)' = Listed(cls, matrix)
    BY <1>1 DEF Simple, Listed
  <2>2. QED
    BY <1>1, <2>1 DEF View
<1>3. Limited' <=> Limited
  BY <1>1 DEF Limited
<1>4. ~Refused /\ Found /\ Inside /\ Out \subseteq used
  BY InvSeeds
<1>5. \A v, u : v = View' /\ u = used' => \E c : SoundClusters(c, u) /\ Agree(c, v)
  BY <1>1, <1>2, <1>4 DEF Found
<1>6. /\ Simple => Rows(cls', matrix')
      /\ algo = "ecal" => Short(cls')
      /\ used' \in SUBSET Hits /\ matrix' \in Seq(Hits) /\ cls' \in Seq(ClusterType) /\ Out \subseteq used'
  BY <1>1, <1>4 DEF Inv, ClTypes
<1>7. phase' # "seeds" /\ (phase' = "list" => Simple)
  BY <1>1
<1>8. phase' \in {"list", "done"} /\ ~(Limited') => \A i \in Eligible \ used' : Energy(i) <= SeedThr
  BY <1>1, <1>3
<1>9. Len(matrix') <= MaxClusters * MaxHits /\ (Simple /\ cls' # <<>> => Len(hits) <= MaxEvHits)
  BY <1>1, <1>4 DEF Inside
<1>10. Inv'
  BY <1>1, <1>4, <1>5, <1>6, <1>7, <1>8, <1>9, InvAfter
<1>11. QED
  BY <1>1, <1>10
\* What SearchEnds says of a step.
Progress ==
  /\ phase' \in Later(phase) \/ (phase' = phase /\ TakesHits)
  /\ phase' = "overrun" => algo = "sac" /\ Excess

LEMMA LaterIs ==
  /\ Later("hits") = {"seeds", "done"} /\ Later("seeds") = {"list", "done", "overrun"}
  /\ Later("list") = {"done"}
  BY DEF Later

LEMMA FillArraysInv == Inv /\ FillArrays => Inv' /\ Progress
<1> SUFFICES ASSUME Inv, FillArrays PROVE Inv' /\ Progress
  OBVIOUS
<1>1. /\ phase = "hits" /\ Simple /\ phase' = (IF hits = <<>> \/ Refused THEN "done" ELSE "seeds")
      /\ used' = (IF algo = "ecal" /\ ~Refused THEN {i \in Hits : Energy(i) < HitThr} ELSE {})
      /\ algo' = algo /\ hits' = hits /\ matrix' = matrix /\ cls' = cls
  BY DEF FillArrays
<1>2. Typed /\ algo \in AlgoKinds
  BY DEF Inv, ClTypes, Typed
<1>3. ~OnCrystals /\ Pool = Hits /\ algo \in {"ecal", "sac"}
  BY <1>1 DEF OnCrystals, Simple, Pool
<1>4. ~Refused => used' = Out
  <2> SUFFICES ASSUME ~Refused PROVE used' = Out
    OBVIOUS
  <2>1. CASE algo = "ecal"
    <3>1. Eligible = {i \in Hits : Energy(i) >= HitThr}
      BY <1>2, <2>1, EligibleIs
    <3>2. \A i \in Hits : Energy(i) < HitThr <=> ~(Energy(i) >= HitThr)
      BY <1>2, HitsAre, Constants
    <3>3. QED
      BY <1>1, <1>3, <2>1, <3>1, <3>2 DEF Out
  <2>2. CASE algo = "sac"
    <3>1. Eligible = Hits
      BY <1>2, <2>2, EligibleIs
    <3>2. QED
      BY <1>1, <1>3, <2>2, <3>1 DEF Out
  <2>3. QED
    BY <1>3, <2>1, <2>2
<1>5. ~Refused => phase' = "seeds" \/ (phase' = "done" /\ Hits = {})
  BY <1>1 DEF Hits
<1>6. Inv'
  <2>1. CASE Refused
    BY <1>1, <2>1, InvRefused
  <2>2. CASE ~Refused
    BY <1>1, <1>3, <1>4, <1>5, <2>2, InvStart
  <2>3. QED
    BY <2>1, <2>2
<1>7. QED
  BY <1>1, <1>6, LaterIs DEF Progress

LEMMA RemoveInv == Inv /\ RemoveOutOfTimeHits => Inv' /\ Progress
<1> SUFFICES ASSUME Inv, RemoveOutOfTimeHits PROVE Inv' /\ Progress
  OBVIOUS
<1>1. /\ phase = "hits" /\ Base /\ phase' = "seeds"
      /\ used' = {i \in Hits : hits[i].t < TLow \/ hits[i].t > THigh \/ Energy(i) < HitThr}
      /\ algo' = algo /\ hits' = hits /\ matrix' = matrix /\ cls' = cls
  BY DEF RemoveOutOfTimeHits
<1>2. Typed /\ algo \in AlgoKinds
  BY DEF Inv, ClTypes, Typed
<1>3. ~OnCrystals /\ Pool = Hits /\ ~Refused
  BY <1>1 DEF OnCrystals, Base, Pool, Refused
<1>4. used' = Out
  <2>1. Eligible = {i \in Hits : Energy(i) >= HitThr /\ hits[i].t \in TLow..THigh}
    BY <1>1, <1>2, EligibleIs
  <2>2. \A i \in Hits : (hits[i].t < TLow \/ hits[i].t > THigh \/ Energy(i) < HitThr)
                          <=> ~(Energy(i) >= HitThr /\ hits[i].t \in TLow..THigh)
    <3>1. ASSUME NEW e \in Int, NEW t \in Int
          PROVE  (t < TLow \/ t > THigh \/ e < HitThr) <=> ~(e >= HitThr /\ t \in TLow..THigh)
      BY Constants
    <3>2. QED
      BY <1>2, <3>1, HitsAre
  <2>3. QED
    BY <1>1, <1>3, <2>1, <2>2 DEF Out
<1>5. Inv'
  BY <1>1, <1>3, <1>4, InvStart
<1>6. QED
  BY <1>1, <1>5, LaterIs DEF Progress

LEMMA MakeCrystalsInv == Inv /\ MakeCrystals => Inv' /\ Progress
<1> SUFFICES ASSUME Inv, MakeCrystals PROVE Inv' /\ Progress
  OBVIOUS
<1>1. /\ phase = "hits" /\ OnCrystals /\ phase' = "seeds"
      /\ algo' = algo /\ hits' = hits /\ used' = used /\ matrix' = matrix /\ cls' = cls
  BY DEF MakeCrystals
<1>2. PICK q \in SetToSeqs(Crystals) :
        IsSorted(q, LAMBDA i, j : Energy(i) >= Energy(j)) /\ order' = q
  BY DEF MakeCrystals
<1>3. Typed /\ algo \in AlgoKinds /\ used = {}
  BY <1>1 DEF Inv, ClTypes, Typed
<1>4. used' = Out /\ ~Refused
  BY <1>1, <1>3, EligibleIs DEF Out, Pool, OnCrystals, Refused
<1>5. Ordered'
  <2>1. Hits' = Hits /\ Crystals' = Crystals
    BY <1>1, HitsUnmoved
  <2>2. q \in Seq(Hits) /\ ToSet(q) = Crystals
    BY <1>2, <1>3, OneCrystal, PermutationIs
  <2>3. \A i, j \in 1..Len(q) : i < j => Energy(q[i]) >= Energy(q[j])
    BY <1>2 DEF IsSorted
  <2>4. \A i : Energy(i)' = Energy(i)
    BY <1>1 DEF Energy
  <2>5. QED
    BY <1>2, <2>1, <2>2, <2>3, <2>4 DEF Ordered
<1>6. Inv'
  BY <1>1, <1>4, <1>5, InvStart
<1>7. QED
  BY <1>1, <1>6, LaterIs DEF Progress

LEMMA SimpleEndsInv == Inv /\ SimpleEnds => Inv' /\ Progress
<1> SUFFICES ASSUME Inv, SimpleEnds PROVE Inv' /\ Progress
  OBVIOUS
<1>1. phase = "seeds" /\ Simple /\ FindSeed(Hits \ used) = 0 /\ NoSeed("list")
  BY DEF SimpleEnds
<1>2. Typed /\ algo \in AlgoKinds
  BY <1>1, InvSeeds
<1>3. \A i \in Eligible \ used : Energy(i) <= SeedThr
  BY <1>1, <1>2, FindSeedIs, EligibleIs
<1>4. Inv' /\ phase' = "list"
  BY <1>1, <1>3, InvEnd
<1>5. QED
  BY <1>1, <1>4, LaterIs DEF Progress

LEMMA BaseEndsInv == Inv /\ BaseEnds => Inv' /\ Progress
<1> SUFFICES ASSUME Inv, BaseEnds PROVE Inv' /\ Progress
  OBVIOUS
<1>1. phase = "seeds" /\ Base /\ FindSeed(Hits \ used) = 0 /\ NoSeed("done")
  BY DEF BaseEnds
<1>2. Typed /\ algo \in AlgoKinds
  BY DEF Inv, ClTypes, Typed
<1>3. \A i \in Eligible \ used : Energy(i) <= SeedThr
  BY <1>1, <1>2, FindSeedIs, EligibleIs
<1>4. ~Simple
  BY <1>1 DEF Base, Simple
<1>5. Inv' /\ phase' = "done"
  BY <1>1, <1>3, <1>4, InvEnd
<1>6. QED
  BY <1>1, <1>5, LaterIs DEF Progress

LEMMA CrystalsEndInv == Inv /\ CrystalsEnd => Inv' /\ Progress
<1> SUFFICES ASSUME Inv, CrystalsEnd PROVE Inv' /\ Progress
  OBVIOUS
<1>1. phase = "seeds" /\ OnCrystals /\ NoSeed("done") /\ (GetSeed = 0 \/ Len(cls) = MaxClusters)
  BY DEF CrystalsEnd
<1>2. Typed /\ algo \in AlgoKinds /\ Ordered /\ Eligible = Crystals
  BY <1>1, EligibleIs DEF Inv, ClTypes, Typed
<1>3. ~Limited => \A i \in Eligible \ used : Energy(i) <= SeedThr
  <2>1. Len(cls) = MaxClusters => Limited
    BY <1>1 DEF Limited, OnCrystals
  <2>2. QED
    BY <1>1, <1>2, <2>1, GetSeedIs
<1>4. ~Simple
  BY <1>1 DEF OnCrystals, Simple
<1>5. Inv' /\ phase' = "done"
  BY <1>1, <1>3, <1>4, InvEnd
<1>6. QED
  BY <1>1, <1>5, LaterIs DEF Progress

\* A cluster whose list is in it at once.
LEMMA InvListed ==
  ASSUME Inv, phase = "seeds", ~Simple, phase' = phase, algo' = algo, hits' = hits,
         matrix' = matrix, order' = order,
         NEW x, GoodCluster(x, Eligible \ used), used' = used \cup Members(x), cls' = Append(cls, x)
  PROVE  Inv' /\ Progress
<1>1. /\ Typed /\ used \subseteq Hits /\ cls \in Seq(ClusterType) /\ matrix \in Seq(Hits) /\ Out \subseteq used
      /\ ~Refused /\ Found /\ Inside
  BY InvSeeds
<1>2. TakesHits /\ used' \in SUBSET Hits
  BY <1>1, TakesFree
<1>3. x \in ClusterType /\ x.n = Len(x.list)
  BY DEF GoodCluster
<1>4. cls' \in Seq(ClusterType) /\ matrix' \in Seq(Hits) /\ Out \subseteq used'
  BY <1>1, <1>3
<1>5. ~(Simple')
  BY DEF Simple
<1>6. View' = Append(cls, x) /\ View = cls
  BY <1>5 DEF View
<1>7. ASSUME NEW g \in Seq(ClusterType), Agree(g, View) PROVE Agree(Append(g, x), View')
  <2> DEFINE a == Append(g, x)
  <2> DEFINE b == Append(cls, x)
  <2>1. Len(g) = Len(cls) /\ Len(cls) \in Nat
    BY <1>1, <1>6, <1>7 DEF Agree
  <2>2. /\ Len(a) = Len(cls) + 1 /\ Len(b) = Len(cls) + 1
        /\ a[Len(cls) + 1] = x /\ b[Len(cls) + 1] = x
        /\ \A k \in 1..Len(cls) : a[k] = g[k] /\ b[k] = cls[k]
    BY <1>1, <2>1
  <2> HIDE DEF a, b
  <2>3. \A k \in 1..(Len(cls) + 1) : k \in 1..Len(cls) \/ k = Len(cls) + 1
    BY <2>1
  <2>4. \A k \in 1..Len(cls) :
          /\ g[k].seed = cls[k].seed /\ g[k].n = cls[k].n /\ g[k].energy = cls[k].energy
          /\ Len(g[k].list) = cls[k].n /\ Len(cls[k].list) = cls[k].n
          /\ \A i \in 1..cls[k].n : i <= MaxHits \/ ~Simple => g[k].list[i] = cls[k].list[i]
    BY <1>6, <1>7 DEF Agree
  <2>5. Agree(a, b)
    BY <1>3, <2>2, <2>3, <2>4 DEF Agree
  <2>6. QED
    BY <1>6, <2>5 DEF a, b
<1>8. \A v, u : v = View' /\ u = used' => \E c : SoundClusters(c, u) /\ Agree(c, v)
  BY <1>1, <1>7, FoundAfter
<1>9. OnCrystals => Ordered'
  <2>1. Hits' = Hits /\ Crystals' = Crystals /\ \A i : Energy(i)' = Energy(i)
    BY HitsUnmoved DEF Energy
  <2>2. QED
    BY <2>1 DEF Inv, Ordered
<1>10. algo # "ecal"
  BY DEF Simple
<1>11. Len(matrix') <= MaxClusters * MaxHits
  BY <1>1 DEF Inside
<1>12. Inv'
  BY <1>1, <1>2, <1>4, <1>8, <1>9, <1>10, <1>11, InvAfter
<1>13. QED
  BY <1>2, <1>12 DEF Progress

LEMMA BaseClusterInv == Inv /\ BaseCluster => Inv' /\ Progress
<1> SUFFICES ASSUME Inv, BaseCluster PROVE Inv' /\ Progress
  OBVIOUS
<1> DEFINE s == FindSeed(Hits \ used)
<1> DEFINE good == {i \in Hits \ used : Energy(i) >= HitThr /\ Near(i, s)}
<1>1. /\ phase = "seeds" /\ Base /\ s # 0
      /\ algo' = algo /\ hits' = hits /\ phase' = phase /\ order' = order /\ matrix' = matrix
  BY DEF BaseCluster
<1>2. PICK q \in SortedByDistance(Far1(good, s), s) :
        LET got == JoinFar(Ascending(Near1(good, s)), q, s)
        IN /\ used' = used \cup ToSet(got)
           /\ cls' = Append(cls, [seed |-> s, n |-> Len(got), energy |-> Total(got), list |-> got])
  BY DEF BaseCluster, Near1, Far1
<1> DEFINE got == JoinFar(Ascending(Near1(good, s)), q, s)
<1> DEFINE x == [seed |-> s, n |-> Len(got), energy |-> Total(got), list |-> got]
<1>3. used' = used \cup ToSet(got) /\ cls' = Append(cls, x)
  BY <1>2
<1>4. Typed /\ algo \in AlgoKinds /\ used \subseteq Hits /\ Out \subseteq used
  BY <1>1 DEF Inv, ClTypes, Typed
<1>5. ~OnCrystals /\ ~Simple /\ Pool = Hits
  BY <1>1 DEF OnCrystals, Base, Simple, Pool
<1>6. Hits \ used \subseteq Eligible /\ Eligible \ used = Hits \ used
  BY <1>4, <1>5, EligibleIs DEF Out
<1>7. Leading(s, Hits \ used)
  BY <1>1, <1>4, FindSeedIs
<1>8. Members(x) = ToSet(got)
  BY DEF Members
<1> HIDE DEF s, good
<1>9. GoodCluster(x, Hits \ used)
  <2>1. good = {i \in Hits \ used : Energy(i) >= HitThr /\ Near(i, s)}
    BY DEF good
  <2>2. QED
    BY <1>1, <1>2, <1>4, <1>6, <1>7, <2>1, BaseGood
<1> HIDE DEF x, got
<1>10. QED
  BY <1>1, <1>3, <1>5, <1>6, <1>8, <1>9, InvListed

LEMMA CrystalClusterInv == Inv /\ CrystalCluster => Inv' /\ Progress
<1> SUFFICES ASSUME Inv, CrystalCluster PROVE Inv' /\ Progress
  OBVIOUS
<1> DEFINE s == order[GetSeed]
<1> DEFINE w == AddCrystal(NoCrystals, s)
<1> DEFINE c == IF algo = "island" THEN ExpandIsland(w, s) ELSE ExpandRadius(w, s)
<1> DEFINE x == [seed |-> s, n |-> Len(c.list), energy |-> c.energy, list |-> c.list]
<1>1. /\ phase = "seeds" /\ OnCrystals /\ GetSeed # 0
      /\ used' = c.used /\ cls' = Append(cls, x)
      /\ algo' = algo /\ hits' = hits /\ phase' = phase /\ order' = order /\ matrix' = matrix
  BY DEF CrystalCluster
<1>2. Typed /\ used \subseteq Hits /\ Ordered
  BY <1>1 DEF Inv, ClTypes
<1>3. ~Simple /\ algo \in {"island", "radius"}
  BY <1>1 DEF OnCrystals, Simple
<1>4. Leading(s, Crystals \ used)
  BY <1>1, <1>2, GetSeedIs
<1> HIDE DEF s
<1>5. GoodCluster(x, Eligible \ used) /\ c.used = used \cup Members(x)
  <2>1. CASE algo = "island"
    <3>1. c = ExpandIsland(AddCrystal(NoCrystals, s), s)
      BY <2>1
    <3> HIDE DEF c
    <3>2. QED
      BY <1>2, <1>4, <2>1, <3>1, IslandGood
  <2>2. CASE algo = "radius"
    <3>1. c = ExpandRadius(AddCrystal(NoCrystals, s), s)
      BY <2>2
    <3> HIDE DEF c
    <3>2. QED
      BY <1>2, <1>4, <2>2, <3>1, RadiusGood
  <2>3. QED
    BY <1>3, <2>1, <2>2
<1> HIDE DEF x, c
<1>6. QED
  BY <1>1, <1>3, <1>5, InvListed


(***************************************************************************)
(* What SAC's arrays are too small for.                                    *)
(***************************************************************************)

\* All that belongs to a seed in SAC is around it.
LEMMA AroundSeed ==
  ASSUME Typed, algo = "sac", NEW s \in Hits
  PROVE  /\ Len(Collect(s)) <= Cardinality(Square(s, Hits, 1))
         /\ Len(Collect(s)) \in Nat /\ Cardinality(Square(s, Hits, 1)) \in Nat
<1>1. Belongs(s) \subseteq Square(s, Hits, 1)
  <2> SUFFICES ASSUME NEW i \in Belongs(s) PROVE i \in Square(s, Hits, 1)
    OBVIOUS
  <2>1. i \in Hits /\ Near(i, s) /\ Distance(Cell(s), Cell(i)) # Beyond
    BY DEF Belongs
  <2>2. Apart(s, i) \in Nat
    BY <2>1, ApartIs
  <2>3. Distance(Cell(s), Cell(i)) = IF Apart(s, i) <= 1 THEN Apart(s, i) ELSE Beyond
    BY <2>1, DistanceIs DEF Typed
  <2>4. Apart(s, i) <= 1
    BY <2>1, <2>2, <2>3
  <2>5. ~Base
    BY DEF Base
  <2>6. QED
    BY <2>1, <2>4, <2>5 DEF Square, Timely
<1>2. Square(s, Hits, 1) \subseteq Hits
  BY DEF Square, Timely
<1>3. IsFiniteSet(Square(s, Hits, 1)) /\ Cardinality(Square(s, Hits, 1)) \in Nat
  BY <1>2, HitsFinite
<1>4. Belongs(s) \subseteq Hits
  BY <1>1, <1>2
<1>5. Collect(s) = Ascending(Belongs(s)) /\ Len(Ascending(Belongs(s))) = Cardinality(Belongs(s))
  BY <1>4, AscendingList DEF Collect
<1>6. Cardinality(Belongs(s)) <= Cardinality(Square(s, Hits, 1)) /\ Cardinality(Belongs(s)) \in Nat
  BY <1>1, <1>3, <1>4, HitsFinite, FS_Subset
<1>7. QED
  BY <1>3, <1>5, <1>6

\* Before a seed that is free there are as many others as there are clusters.
LEMMA SeedsCounted ==
  ASSUME Inv, phase = "seeds", algo = "sac", NEW s, Leading(s, Hits \ used)
  PROVE  Len(cls) \in Nat /\ Cardinality(Strong) \in Nat /\ Len(cls) + 1 <= Cardinality(Strong)
<1>1. Typed /\ Found /\ cls \in Seq(ClusterType) /\ algo \in AlgoKinds
  BY InvSeeds
<1>2. PICK c : SoundClusters(c, used) /\ Agree(c, View)
  BY <1>1 DEF Found
<1> DEFINE n == Len(c)
<1>3. c \in Seq(ClusterType) /\ n \in Nat
  BY <1>2 DEF SoundClusters
<1>4. n = Len(cls)
  <2>1. Simple
    BY DEF Simple
  <2>2. View = Listed(cls, matrix) /\ Rows(cls, matrix) /\ matrix \in Seq(Hits)
    BY <2>1 DEF View, Inv, ClTypes
  <2>3. Len(View) = Len(cls)
    BY <1>1, <2>2, ListedIs
  <2>4. QED
    BY <1>2, <2>3 DEF Agree
<1>5. s \in Hits /\ s \notin used /\ Energy(s) > SeedThr /\ s \in Eligible
  BY <1>1, EligibleIs DEF Leading
<1>6. ASSUME NEW k \in 1..n
      PROVE  c[k].seed \in Strong /\ c[k].seed \in Members(c[k]) /\ c[k].seed \in used
  <2>1. c[k] \in ClusterType
    BY <1>3
  <2>2. c[k].seed \in Hits
    BY <2>1 DEF ClusterType
  <2>3. Meant(c[k]) /\ Energy(s) <= Energy(c[k].seed)
    BY <1>2, <1>5 DEF SoundClusters
  <2>4. c[k].seed \in Members(c[k])
    BY <2>3 DEF Meant, Leads
  <2>5. Energy(s) \in Int /\ Energy(c[k].seed) \in Int /\ SeedThr \in Int
    BY <1>1, <1>5, <2>2, HitsAre, Constants
  <2>6. c[k].seed \in Strong
    BY <1>5, <2>2, <2>3, <2>5 DEF Strong
  <2>7. c[k].seed \in Before(c, n + 1)
    <3>1. k \in 1..((n + 1) - 1)
      BY <1>3
    <3>2. QED
      BY <2>4, <3>1, BeforeIs
  <2>8. QED
    BY <1>2, <2>4, <2>6, <2>7 DEF SoundClusters
<1>7. ASSUME NEW j \in 1..n, NEW k \in 1..n, j # k PROVE c[j].seed # c[k].seed
  <2>1. Members(c[j]) \cap Members(c[k]) = {}
    BY <1>2, <1>7 DEF SoundClusters, Disjoint
  <2>2. QED
    BY <1>6, <2>1
<1>8. s \in Strong
  BY <1>5 DEF Strong
<1> DEFINE l == [k \in 1..(n + 1) |-> IF k \in 1..n THEN c[k].seed ELSE s]
<1> HIDE DEF n
<1>9. l \in Seq(Strong) /\ Len(l) = n + 1
  <2>1. l \in [1..(n + 1) -> Strong] /\ n + 1 \in Nat
    BY <1>3, <1>6, <1>8
  <2> HIDE DEF l
  <2>2. QED
    BY ONLY <2>1
<1>10. Distinct(l)
  <2> SUFFICES ASSUME NEW j \in 1..(n + 1), NEW k \in 1..(n + 1), j # k PROVE l[j] # l[k]
    BY <1>9 DEF Distinct
  <2>1. j \in 1..n \/ k \in 1..n
    BY <1>3
  <2>2. QED
    BY <1>5, <1>6, <1>7, <2>1
<1> HIDE DEF l
<1>11. Cardinality(ToSet(l)) = n + 1 /\ ToSet(l) \subseteq Strong
  BY <1>9, <1>10, MembersCounted, ListMembers
<1>12. Strong \subseteq Hits
  BY DEF Strong
<1>13. IsFiniteSet(Strong) /\ Cardinality(Strong) \in Nat
  BY <1>1, <1>12, HitsFinite
<1>14. Cardinality(ToSet(l)) <= Cardinality(Strong)
  BY <1>11, <1>13, FS_Subset
<1>15. QED
  BY <1>3, <1>4, <1>11, <1>13, <1>14

LEMMA RowsCounted ==
  ASSUME NEW n \in Nat, NEW g \in Nat, g <= MaxHits, n * MaxHits + g > MaxClusters * MaxHits
  PROVE  n >= MaxClusters
<1>1. MaxHits \in Nat /\ MaxClusters \in Nat
  BY Constants
<1> SUFFICES ASSUME n + 1 <= MaxClusters PROVE FALSE
  BY <1>1
<1>2. (n + 1) * MaxHits <= MaxClusters * MaxHits
  BY <1>1
<1>3. (n + 1) * MaxHits = n * MaxHits + MaxHits
  BY <1>1
<1>4. n * MaxHits \in Nat /\ MaxClusters * MaxHits \in Nat
  BY <1>1
<1>5. \A a, b \in Nat : a + g > b /\ a + MaxHits <= b => FALSE
  BY ONLY <1>1, g \in Nat, g <= MaxHits
<1>6. QED
  BY <1>2, <1>3, <1>4, <1>5

\* The room for a row: up to the last cluster that is allowed.
LEMMA RoomForRow ==
  ASSUME NEW n \in Nat, NEW g \in Nat, g <= MaxHits, n < MaxClusters
  PROVE  n * MaxHits + g <= MaxClusters * MaxHits
<1>1. MaxHits \in Nat /\ MaxClusters \in Nat
  BY Constants
<1>2. (n + 1) * MaxHits <= MaxClusters * MaxHits
  BY <1>1
<1>3. (n + 1) * MaxHits = n * MaxHits + MaxHits
  BY <1>1
<1>4. n * MaxHits \in Nat /\ MaxClusters * MaxHits \in Nat
  BY <1>1
<1>5. \A a, b \in Nat : a + MaxHits <= b => a + g <= b
  BY ONLY <1>1, g \in Nat, g <= MaxHits
<1>6. QED
  BY <1>2, <1>3, <1>4, <1>5

LEMMA OverrunExcess ==
  ASSUME Inv, phase = "seeds", Outside(FindSeed(Hits \ used))
  PROVE  algo = "sac" /\ Excess
<1> DEFINE s == FindSeed(Hits \ used)
<1> DEFINE g == Len(Collect(s))
<1>1. /\ algo = "sac"
      /\ Len(hits) > MaxEvHits \/ (s # 0 /\ Len(cls) * MaxHits + g > MaxClusters * MaxHits)
  BY DEF Outside
<1>2. Typed
  BY InvSeeds
<1>3. CASE Len(hits) > MaxEvHits
  BY <1>1, <1>3 DEF Excess
<1>4. CASE s # 0 /\ Len(cls) * MaxHits + g > MaxClusters * MaxHits
  <2>1. Leading(s, Hits \ used)
    BY <1>2, <1>4, FindSeedIs
  <2> HIDE DEF s
  <2>2. s \in Strong
    BY <2>1 DEF Leading, Strong
  <2>3. /\ g <= Cardinality(Square(s, Hits, 1))
        /\ g \in Nat /\ Cardinality(Square(s, Hits, 1)) \in Nat
    BY <1>1, <1>2, <2>2, AroundSeed DEF Strong
  <2>4. Len(cls) \in Nat /\ Cardinality(Strong) \in Nat /\ Len(cls) + 1 <= Cardinality(Strong)
    BY <1>1, <2>1, SeedsCounted
  <2> HIDE DEF g
  <2>5. MaxHits \in Nat /\ MaxClusters \in Nat
    BY Constants
  <2>6. CASE g <= MaxHits
    <3>1. Len(cls) >= MaxClusters
      BY <1>4, <2>3, <2>4, <2>6, RowsCounted
    <3>2. Cardinality(Strong) > MaxClusters
      BY <2>4, <2>5, <3>1
    <3>3. QED
      BY <1>1, <3>2 DEF Excess
  <2>7. CASE g > MaxHits
    <3>1. Cardinality(Square(s, Hits, 1)) > MaxHits
      BY <2>3, <2>5, <2>7
    <3>2. QED
      BY <1>1, <2>2, <3>1 DEF Excess
  <2>8. QED
    BY <2>3, <2>5, <2>6, <2>7
<1>5. QED
  BY <1>1, <1>3, <1>4

LEMMA OverrunInv == Inv /\ Overrun => Inv' /\ Progress
<1> SUFFICES ASSUME Inv, Overrun PROVE Inv' /\ Progress
  OBVIOUS
<1>1. phase = "seeds" /\ Outside(FindSeed(Hits \ used)) /\ NoSeed("overrun")
  BY DEF Overrun
<1>2. algo = "sac" /\ Excess
  BY <1>1, OverrunExcess
<1>3. Simple
  BY <1>2 DEF Simple
<1>4. Inv' /\ phase' = "overrun"
  BY <1>1, <1>3, InvEnd
<1>5. QED
  BY <1>1, <1>2, <1>4, LaterIs DEF Progress


LEMMA SimpleClusterInv == Inv /\ SimpleCluster => Inv' /\ Progress
<1> SUFFICES ASSUME Inv, SimpleCluster PROVE Inv' /\ Progress
  OBVIOUS
<1> DEFINE s == FindSeed(Hits \ used)
<1> DEFINE got == Collect(s)
<1> DEFINE x == [seed |-> s, n |-> Len(got), energy |-> Total(got), list |-> got]
<1>1. /\ phase = "seeds" /\ Simple /\ s # 0
      /\ used' = used \cup ToSet(got) /\ matrix' = PutRow(matrix, Len(cls), got)
      /\ cls' = Append(cls, [seed |-> s, n |-> Len(got), energy |-> Total(got), list |-> <<>>])
      /\ phase' = (IF algo = "ecal" /\ Len(cls') = MaxClusters THEN "list" ELSE "seeds")
      /\ algo' = algo /\ hits' = hits /\ ~Outside(s)
  BY DEF SimpleCluster
<1>2. ~Refused /\ Found /\ Inside /\ (algo = "ecal" => Len(cls) < MaxClusters)
  BY <1>1, InvSeeds DEF Inv
<1>3. /\ Typed /\ algo \in AlgoKinds /\ used \subseteq Hits /\ Out \subseteq used
      /\ matrix \in Seq(Hits) /\ cls \in Seq(ClusterType) /\ Rows(cls, matrix) /\ (algo = "ecal" => Short(cls))
  BY <1>1 DEF Inv, ClTypes, Typed
<1>4. ~OnCrystals /\ Pool = Hits /\ algo \in {"ecal", "sac"} /\ (Simple' <=> Simple)
  BY <1>1 DEF OnCrystals, Simple, Pool
<1>5. Hits \ used \subseteq Eligible /\ Eligible \ used = Hits \ used
  BY <1>3, <1>4, EligibleIs DEF Out
<1>6. Leading(s, Hits \ used)
  BY <1>1, <1>3, FindSeedIs
<1> HIDE DEF s
<1>7. /\ GoodCluster(x, Eligible \ used) /\ got \in Seq(Hits) /\ (algo = "ecal" => Len(got) <= MaxHits)
  BY <1>1, <1>3, <1>5, <1>6, SimpleGood
<1>8. /\ Len(got) \in Nat /\ Len(hits) <= MaxEvHits
       /\ Len(cls) * MaxHits + Len(got) <= MaxClusters * MaxHits
  <2>1. Len(hits) \in Nat /\ Len(cls) \in Nat /\ Len(got) \in Nat /\ MaxEvHits \in Nat
        /\ MaxHits \in Nat /\ MaxClusters \in Nat
    BY <1>3, <1>7, HitsAre, Constants
  <2>2. CASE algo = "ecal"
    <3>1. Len(got) <= MaxHits /\ Len(cls) < MaxClusters
      BY <1>2, <1>7, <2>2
    <3> HIDE DEF got
    <3>2. Len(cls) * MaxHits + Len(got) <= MaxClusters * MaxHits
      BY <2>1, <3>1, RoomForRow
    <3>3. QED
      BY <1>2, <2>1, <2>2, <3>2 DEF Refused
  <2>3. CASE algo = "sac"
    <3>1. ~(Len(hits) > MaxEvHits) /\ ~(Len(cls) * MaxHits + Len(got) > MaxClusters * MaxHits)
      BY <1>1, <2>3 DEF Outside
    <3> HIDE DEF got
    <3>2. Len(cls) * MaxHits \in Nat /\ MaxClusters * MaxHits \in Nat
      BY <2>1
    <3>3. QED
      BY <2>1, <3>1, <3>2
  <2>4. QED
    BY <1>4, <2>2, <2>3
<1>9. Members(x) = ToSet(got)
  BY DEF Members
<1>10. 1 \in Hits /\ s \in Hits
  BY <1>3, <1>6, HitsAre DEF Leading
<1>11. Total(got) \in Int /\ x \in ClusterType
  BY <1>7 DEF GoodCluster, ClusterType
<1> HIDE DEF got
<1> DEFINE y == [seed |-> s, n |-> Len(got), energy |-> Total(got), list |-> <<>>]
<1>12. /\ Rows(cls', matrix') /\ matrix' \in Seq(Hits) /\ cls' \in Seq(ClusterType)
       /\ Len(matrix') <= MaxClusters * MaxHits
       /\ \A g \in Seq(ClusterType) : Agree(g, Listed(cls, matrix)) => Agree(Append(g, x), Listed(cls', matrix'))
  <2>1. PICK p, b : /\ p = PutRow(matrix, Len(cls), got) /\ matrix' = p
                    /\ b = Append(cls, [seed |-> s, n |-> Len(got), energy |-> Total(got), list |-> <<>>]) /\ cls' = b
    BY <1>1
  <2>2. /\ Rows(b, p) /\ p \in Seq(Hits) /\ b \in Seq(ClusterType)
        /\ Len(p) \in {Len(matrix), Len(cls) * MaxHits + Len(got)}
        /\ \A g \in Seq(ClusterType) : Agree(g, Listed(cls, matrix)) => Agree(Append(g, x), Listed(b, p))
    <3>1. y \in ClusterType /\ y.seed = x.seed /\ y.n = x.n /\ y.energy = x.energy
      BY <1>7, <1>10, <1>11 DEF ClusterType
    <3>2. x.n = Len(x.list) /\ x.list = got
      OBVIOUS
    <3> HIDE DEF x
    <3>3. b = Append(cls, y) /\ p = PutRow(matrix, Len(cls), x.list)
      BY <2>1, <3>2
    <3> HIDE DEF y
    <3>4. QED
      <4>1. /\ matrix \in Seq(Hits) /\ cls \in Seq(ClusterType) /\ Rows(cls, matrix) /\ 1 \in Hits
            /\ x \in ClusterType /\ Simple
        BY <1>1, <1>3, <1>10, <1>11
      <4>2. x.seed = y.seed /\ y.n = x.n /\ x.energy = y.energy
        BY <3>1
      <4>3. QED
        BY ONLY <3>1, <3>2, <3>3, <4>1, <4>2, ListedAppend
  <2>3. Len(p) <= MaxClusters * MaxHits
    BY <1>2, <1>8, <2>2 DEF Inside
  <2>4. QED
    BY <2>1, <2>2, <2>3
<1>13. /\ Len(cls') = Len(cls) + 1 /\ y.n = Len(got) /\ Len(got) \in Nat /\ Len(cls) \in Nat
       /\ \A k \in 1..Len(cls) : cls'[k] = cls[k]
       /\ cls'[Len(cls) + 1] = y
  <2>1. y \in ClusterType
    BY <1>7, <1>10, <1>11 DEF ClusterType
  <2> HIDE DEF y
  <2>2. cls' = Append(cls, y)
    BY <1>1 DEF y
  <2>3. QED
    BY <1>3, <1>7, <2>1, <2>2 DEF y
<1> HIDE DEF x
<1>14. algo = "ecal" => Short(cls') /\ (phase' = "seeds" => Len(cls') < MaxClusters)
  <2> HIDE DEF y
  <2>1. algo = "ecal" => Short(cls')
    BY <1>3, <1>7, <1>13 DEF Short
  <2>2. algo = "ecal" /\ phase' = "seeds" => Len(cls') < MaxClusters
    <3>1. algo = "ecal" /\ phase' = "seeds" => Len(cls') # MaxClusters
      BY <1>1
    <3>2. MaxClusters \in Nat
      BY Constants
    <3>3. QED
      BY <1>2, <1>13, <3>1, <3>2
  <2>3. QED
    BY <2>1, <2>2
<1>15. phase' \in {"seeds", "list"}
  BY <1>1
<1>16. ASSUME NEW g \in Seq(ClusterType), Agree(g, View) PROVE Agree(Append(g, x), View')
  <2>1. View' = Listed(cls, matrix)' /\ View = Listed(cls, matrix)
    BY <1>1, <1>4, <1>15 DEF View
  <2>2. Listed(cls, matrix)' = Listed(cls', matrix')
    BY DEF Listed
  <2>3. QED
    BY <1>12, <1>16, <2>1, <2>2
<1>17. \A v, u : v = View' /\ u = used' => \E c : SoundClusters(c, u) /\ Agree(c, v)
  BY <1>2, <1>1, <1>3, <1>7, <1>9, <1>16, FoundAfter
<1>18. TakesHits /\ used' \in SUBSET Hits
  BY <1>1, <1>3, <1>7, <1>9, TakesFree
<1>19. phase' = "list" => Limited'
  BY <1>1 DEF Limited
<1>20. Out \subseteq used' /\ (phase' = "list" => Simple)
  BY <1>1, <1>3
<1>21. Inv'
  <2>1. phase' \in {"list", "done"} /\ ~(Limited') => FALSE
    BY <1>15, <1>19
  <2>2. QED
    BY <1>2, <1>1, <1>4, <1>12, <1>14, <1>15, <1>17, <1>18, <1>20, <1>8, <2>1, InvAfter
<1>22. QED
  BY <1>1, <1>15, <1>18, <1>21, LaterIs DEF Progress

LEMMA ListHitsInv == Inv /\ ListHits => Inv' /\ Progress
<1> SUFFICES ASSUME Inv, ListHits PROVE Inv' /\ Progress
  OBVIOUS
<1>1. /\ phase = "list" /\ phase' = "done" /\ cls' = Listed(cls, matrix)
      /\ algo' = algo /\ hits' = hits /\ used' = used /\ order' = order /\ matrix' = matrix
  BY DEF ListHits
<1>2. /\ Simple /\ ~Refused /\ Found /\ Inside /\ Rows(cls, matrix) /\ (algo = "ecal" => Short(cls))
      /\ used \in SUBSET Hits /\ Out \subseteq used /\ matrix \in Seq(Hits) /\ cls \in Seq(ClusterType)
      /\ ~Limited => \A i \in Eligible \ used : Energy(i) <= SeedThr
  BY <1>1 DEF Inv, ClTypes
<1>3. /\ cls' \in Seq(ClusterType) /\ Len(cls') = Len(cls) /\ \A k \in 1..Len(cls) : cls'[k].n = cls[k].n
  BY <1>1, <1>2, ListedIs
<1>4. DOMAIN cls = 1..Len(cls) /\ DOMAIN cls' = 1..Len(cls)
  BY <1>2, <1>3
<1>5. /\ Limited' <=> Limited
      /\ Len(matrix') <= MaxClusters * MaxHits /\ (Simple /\ cls' # <<>> => Len(hits) <= MaxEvHits)
  <2>1. cls = <<>> => cls' = <<>>
    BY <1>1, NoneListed
  <2>2. QED
    BY <1>1, <1>2, <1>3, <2>1 DEF Limited, Inside
<1>6. algo = "ecal" => Short(cls')
  BY <1>2, <1>3 DEF Short
<1>7. View' = View
  BY <1>1, <1>2 DEF View
<1>8. \A v, u : v = View' /\ u = used' => \E c : SoundClusters(c, u) /\ Agree(c, v)
  BY <1>1, <1>2, <1>7 DEF Found
<1>9. Inv'
  <2>1. ~(Limited') => \A i \in Eligible \ used' : Energy(i) <= SeedThr
    BY <1>1, <1>2, <1>5
  <2>2. phase' # "seeds" /\ phase' # "list" /\ phase' \in {"seeds", "list", "done"}
    BY <1>1
  <2>3. QED
    BY <1>1, <1>2, <1>3, <1>5, <1>6, <1>8, <2>1, <2>2, InvAfter
<1>10. QED
  BY <1>1, <1>9, LaterIs DEF Progress

LEMMA StepKeeps == Inv /\ ClNext => Inv' /\ Progress
  BY FillArraysInv, SimpleClusterInv, SimpleEndsInv, OverrunInv, ListHitsInv, RemoveInv, BaseClusterInv, BaseEndsInv,
     MakeCrystalsInv, CrystalClusterInv, CrystalsEndInv DEF ClNext

LEMMA InvStays == Inv /\ UNCHANGED clVars => Inv'
<1> SUFFICES ASSUME Inv, UNCHANGED clVars PROVE Inv'
  OBVIOUS
<1>1. /\ algo' = algo /\ hits' = hits /\ phase' = phase /\ used' = used
      /\ order' = order /\ matrix' = matrix /\ cls' = cls
  BY DEF clVars
<1>2. /\ Hits' = Hits /\ Crystals' = Crystals /\ ClusterType' = ClusterType /\ Eligible' = Eligible /\ Out' = Out
      /\ (OnCrystals' <=> OnCrystals) /\ (Simple' <=> Simple)
  BY <1>1, HitsUnmoved
<1>3. ClTypes'
  BY <1>1, <1>2 DEF Inv, ClTypes, Typed
<1>4. Inside' /\ (Refused' <=> Refused) /\ (Limited' <=> Limited)
  BY <1>1, <1>2 DEF Inv, Inside, Refused, Limited
<1>5. View' = View
  <2>1. Listed(cls, matrix)' = Listed(cls, matrix)
    BY <1>1 DEF Listed
  <2>2. QED
    BY <1>1, <1>2, <2>1 DEF View
<1>6. Found' <=> Found
  <2>1. algo \in AlgoKinds
    BY DEF Inv, ClTypes, Typed
  <2>2. \A c, u : SoundClusters(c, u)' <=> SoundClusters(c, u)
    BY <1>1, <2>1, SoundUnmoved
  <2>3. \A c, v : Agree(c, v)' <=> Agree(c, v)
    BY <1>1, AgreeUnmoved
  <2>4. QED
    BY <1>1, <1>5, <2>2, <2>3 DEF Found
<1>7. \A i : Energy(i)' = Energy(i)
  BY <1>1 DEF Energy
<1>8. (Ordered' <=> Ordered) /\ (Rows(cls, matrix)' <=> Rows(cls, matrix)) /\ (Short(cls)' <=> Short(cls))
  BY <1>1, <1>2, <1>7 DEF Ordered, Rows, Short
<1>9. QED
  BY <1>1, <1>2, <1>3, <1>4, <1>6, <1>7, <1>8 DEF Inv

(***************************************************************************)
(* The invariant: at every step there are sound clusters, of which the     *)
(* lists have what fits in the rows of clusMatrix, and every hit in use is *)
(* in one of them or was out of the question; what was written and read is *)
(* inside of the arrays; and the search ends when no free hit can be a     *)
(* seed, when there is no room, or where it would leave the arrays.        *)
(***************************************************************************)
THEOREM ClustersGrow == ClSpec => []Inv
<1>1. Inv /\ [ClNext]_clVars => Inv'
  BY StepKeeps, InvStays
<1>2. QED
  BY InvInit, <1>1, PTL DEF ClSpec

(***************************************************************************)
(* Every variable keeps its type; so no list, and no row of clusMatrix,    *)
(* holds what is not the index of a hit.  As long as the search is not     *)
(* said to have left the arrays, it has not: clusMatrix has not more rows  *)
(* than there are, and a cluster is made only of hits that are all in the  *)
(* arrays.                                                                 *)
(***************************************************************************)
THEOREM ClTypesHold == ClSpec => [](ClTypes /\ Inside)
<1>1. Inv => ClTypes /\ Inside
  BY DEF Inv
<1>2. QED
  BY <1>1, ClustersGrow, PTL

LEMMA PrefixIs ==
  ASSUME NEW T, NEW l \in Seq(T), NEW n \in Nat
  PROVE  /\ Upto(l, n) \in Seq(T) /\ Len(Upto(l, n)) \in Nat
         /\ Len(Upto(l, n)) <= n /\ Len(Upto(l, n)) <= Len(l)
         /\ \A i \in 1..Len(Upto(l, n)) : Upto(l, n)[i] = l[i]
<1> DEFINE m == Min({n, Len(l)})
<1>1. m \in {n, Len(l)} /\ m <= n /\ m <= Len(l)
  <2>1. {n, Len(l)} \subseteq Nat /\ {n, Len(l)} # {}
    OBVIOUS
  <2>2. QED
    BY <2>1, LeastIs
<1>2. Upto(l, n) = SubSeq(l, 1, m)
  BY DEF Upto
<1> HIDE DEF m
<1>3. Len(l) \in Nat /\ m \in 0..Len(l)
  BY <1>1
<1>4. /\ SubSeq(l, 1, m) \in Seq(T) /\ Len(SubSeq(l, 1, m)) = m
      /\ \A i \in 1..m : SubSeq(l, 1, m)[i] = l[i]
  BY <1>3
<1>5. QED
  BY <1>1, <1>2, <1>3, <1>4

\* At the end there are sound clusters of which cls has what fits in the rows,
\* and nothing fit to be a seed is free.
LEMMA AtTheEnd ==
  ASSUME Inv, Done, ~Refused
  PROVE  \E c \in Seq(ClusterType) :
           /\ SoundClusters(c, used) /\ cls \in Seq(ClusterType)
           /\ Len(c) = Len(cls) /\ Len(cls) \in Nat /\ DOMAIN cls = 1..Len(cls)
           /\ \A k \in 1..Len(cls) :
                /\ cls[k].seed = c[k].seed /\ cls[k].energy = c[k].energy
                /\ InRow(cls[k]) \in Seq(Hits) /\ Distinct(InRow(cls[k]))
                /\ ToSet(InRow(cls[k])) \subseteq Members(c[k])
                /\ Fits(cls[k]) => cls[k] = c[k]
           /\ ~Limited => \A i \in Eligible \ used : Energy(i) <= SeedThr
<1>1. View = cls /\ phase = "done"
  BY DEF View, Done
<1>2. PICK c : SoundClusters(c, used) /\ Agree(c, cls)
  BY <1>1 DEF Inv, Found
<1>3. c \in Seq(ClusterType) /\ cls \in Seq(ClusterType) /\ (algo = "ecal" => Short(cls)) /\ algo \in AlgoKinds
  BY <1>1, <1>2 DEF SoundClusters, Inv, ClTypes, Typed
<1>4. Len(c) = Len(cls) /\ Len(cls) \in Nat /\ DOMAIN cls = 1..Len(cls)
  BY <1>2, <1>3 DEF Agree
<1>5. ~Limited => \A i \in Eligible \ used : Energy(i) <= SeedThr
  BY <1>1 DEF Inv
<1>6. ASSUME NEW k \in 1..Len(cls)
      PROVE  /\ cls[k].seed = c[k].seed /\ cls[k].energy = c[k].energy
             /\ InRow(cls[k]) \in Seq(Hits) /\ Distinct(InRow(cls[k]))
             /\ ToSet(InRow(cls[k])) \subseteq Members(c[k])
             /\ Fits(cls[k]) => cls[k] = c[k]
  <2>1. PICK x, y : x = c[k] /\ y = cls[k] /\ x \in ClusterType /\ y \in ClusterType
    BY <1>3, <1>4
  <2>2. /\ x.seed = y.seed /\ x.n = y.n /\ x.energy = y.energy
        /\ Len(x.list) = y.n /\ Len(y.list) = y.n
        /\ \A i \in 1..y.n : i <= MaxHits \/ ~Simple => x.list[i] = y.list[i]
    BY <1>2, <2>1 DEF Agree
  <2>3. x.list \in Seq(Hits) /\ y.list \in Seq(Hits) /\ y.n \in Nat /\ MaxHits \in Nat
    BY <2>1, Constants DEF ClusterType
  <2>4. Distinct(x.list)
    BY <1>2, <1>4, <2>1 DEF SoundClusters, Meant
  <2>5. algo = "ecal" => y.n <= MaxHits
    BY <1>3, <2>1 DEF Short
  <2>6. Fits(y) => x = y
    <3> SUFFICES ASSUME Fits(y) PROVE x = y
      OBVIOUS
    <3>1. Simple => y.n <= MaxHits
      BY <2>5 DEF Fits, Simple
    <3>2. \A i \in 1..y.n : x.list[i] = y.list[i]
      BY <2>2, <2>3, <3>1
    <3>3. x.list = y.list
      BY <2>2, <2>3, <3>2
    <3>4. QED
      BY <2>1, <2>2, <3>3 DEF ClusterType
  <2>7. CASE algo # "sac"
    <3>1. InRow(y) = y.list /\ Fits(y)
      BY <2>7 DEF InRow, Fits
    <3>2. QED
      BY <2>1, <2>2, <2>3, <2>4, <2>6, <3>1 DEF Members
  <2>8. CASE algo = "sac"
    <3>1. InRow(y) = Upto(y.list, MaxHits)
      BY <2>8 DEF InRow
    <3>2. PICK u : u = Upto(y.list, MaxHits)
      OBVIOUS
    <3>3. u \in Seq(Hits) /\ Len(u) \in Nat /\ Len(u) <= MaxHits /\ Len(u) <= y.n /\ \A i \in 1..Len(u) : u[i] = y.list[i]
      BY <2>2, <2>3, <3>2, PrefixIs
    <3>4. \A i \in 1..Len(u) : i \in 1..y.n /\ u[i] = x.list[i]
      BY <2>2, <2>3, <3>3
    <3>5. Distinct(u)
      BY <2>2, <2>4, <3>4 DEF Distinct
    <3>6. ToSet(u) \subseteq ToSet(x.list)
      BY <2>2, <2>3, <3>3, <3>4, ListMembers
    <3>7. QED
      BY <2>1, <2>2, <2>6, <3>1, <3>2, <3>3, <3>5, <3>6 DEF Members
  <2>9. QED
    BY <2>7, <2>8
<1>7. QED
  BY <1>2, <1>3, <1>4, <1>5, <1>6

\* An event that was refused has no clusters.
LEMMA NoneRefused ==
  ASSUME Inv, Done, Refused
  PROVE  DOMAIN cls = {}
  BY DEF Inv, Done

(***************************************************************************)
(* No hit is in two clusters or twice in one, whatever way it was          *)
(* collected, and the energies add up; of SAC's clusters that do not fit   *)
(* in a row of clusMatrix, the part that does is theirs.                   *)
(***************************************************************************)
THEOREM HitsOnce == ClSpec => []HitsAddUp
<1>1. Inv => HitsAddUp
  <2> SUFFICES ASSUME Inv, Done
               PROVE  /\ \A k \in DOMAIN cls :
                           /\ Cardinality(ToSet(InRow(cls[k]))) = Len(InRow(cls[k]))
                           /\ Fits(cls[k]) => cls[k].energy = Total(cls[k].list) - (IF OnCrystals THEN 1 ELSE 0)
                      /\ \A j, k \in DOMAIN cls : j # k => ToSet(InRow(cls[j])) \cap ToSet(InRow(cls[k])) = {}
    BY DEF HitsAddUp
  <2>1. CASE Refused
    BY <2>1, NoneRefused
  <2>2. CASE ~Refused
    <3>1. PICK c \in Seq(ClusterType) :
            /\ SoundClusters(c, used) /\ Len(c) = Len(cls) /\ DOMAIN cls = 1..Len(cls)
            /\ \A k \in 1..Len(cls) :
                 /\ InRow(cls[k]) \in Seq(Hits) /\ Distinct(InRow(cls[k]))
                 /\ ToSet(InRow(cls[k])) \subseteq Members(c[k])
                 /\ Fits(cls[k]) => cls[k] = c[k]
      BY <2>2, AtTheEnd
    <3>2. ASSUME NEW k \in 1..Len(cls)
          PROVE  /\ Cardinality(ToSet(InRow(cls[k]))) = Len(InRow(cls[k]))
                 /\ Fits(cls[k]) => cls[k].energy = Total(cls[k].list) - (IF OnCrystals THEN 1 ELSE 0)
      <4>1. Cardinality(ToSet(InRow(cls[k]))) = Len(InRow(cls[k]))
        BY <3>1, MembersCounted
      <4>2. Meant(c[k])
        BY <3>1 DEF SoundClusters
      <4>3. QED
        BY <3>1, <4>1, <4>2 DEF Meant
    <3>3. QED
      BY <3>1, <3>2 DEF SoundClusters, Disjoint
  <2>3. QED
    BY <2>1, <2>2
<1>2. QED
  BY <1>1, ClustersGrow, PTL

(***************************************************************************)
(* The seeds come in order and lead their clusters, and when the search    *)
(* was not cut off no hit fit to be a seed is left out.  Cut off it is at  *)
(* the last cluster allowed, in the calorimeter by more hits than its      *)
(* arrays hold, and what SAC lists by a row that is too short.             *)
(***************************************************************************)
THEOREM SeedsFirst == ClSpec => []SeedsLead
<1>1. Inv => SeedsLead
  <2> SUFFICES ASSUME Inv, Done
               PROVE  /\ \A j, k \in DOMAIN cls : j < k => Energy(cls[j].seed) >= Energy(cls[k].seed)
                      /\ \A k \in DOMAIN cls : Fits(cls[k]) => Leads(cls[k])
                      /\ ~Limited /\ ~Refused /\ (\A k \in DOMAIN cls : Fits(cls[k])) =>
                           \A i \in Eligible : Energy(i) > SeedThr => \E k \in DOMAIN cls : i \in Members(cls[k])
    BY DEF SeedsLead
  <2>1. CASE Refused
    BY <2>1, NoneRefused
  <2>2. CASE ~Refused
    <3>1. PICK c \in Seq(ClusterType) :
            /\ SoundClusters(c, used) /\ Len(c) = Len(cls) /\ Len(cls) \in Nat /\ DOMAIN cls = 1..Len(cls)
            /\ \A k \in 1..Len(cls) : cls[k].seed = c[k].seed /\ (Fits(cls[k]) => cls[k] = c[k])
            /\ ~Limited => \A i \in Eligible \ used : Energy(i) <= SeedThr
      BY <2>2, AtTheEnd
    <3>2. \A k \in 1..Len(cls) : Leads(c[k])
      BY <3>1 DEF SoundClusters, Meant
    <3>3. ASSUME ~Limited, \A k \in DOMAIN cls : Fits(cls[k]), NEW i \in Eligible, Energy(i) > SeedThr
          PROVE  \E k \in DOMAIN cls : i \in Members(cls[k])
      <4>1. Typed /\ algo \in AlgoKinds
        BY DEF Inv, ClTypes, Typed
      <4>2. Energy(i) \in Int /\ SeedThr \in Int /\ i \notin Out
        BY <4>1, EligibleIs, HitsAre, Constants DEF Out
      <4>3. i \in used
        BY <3>1, <3>3, <4>2
      <4>4. i \in Before(c, Len(c) + 1)
        BY <3>1, <4>2, <4>3 DEF SoundClusters
      <4>5. PICK j \in 1..((Len(c) + 1) - 1) : i \in Members(c[j])
        BY <4>4, BeforeIs
      <4>6. j \in 1..Len(cls)
        BY <3>1
      <4>7. QED
        BY <3>1, <3>3, <4>5, <4>6
    <3>4. QED
      BY <2>2, <3>1, <3>2, <3>3 DEF SoundClusters, InOrder
  <2>3. QED
    BY <2>1, <2>2
<1>2. QED
  BY <1>1, ClustersGrow, PTL

(***************************************************************************)
(* Every algorithm's clusters are what is meant, of what the clusters      *)
(* before have left: the loops over hits, boxes and fingers, the sorting   *)
(* by distance and the recursion over crystals leave nothing out and bring *)
(* nothing in; in SAC, up to the first that is longer than a row.          *)
(***************************************************************************)
THEOREM ShapesRight == ClSpec => []ShapesAsMeant
<1>1. Inv => ShapesAsMeant
  <2> SUFFICES ASSUME Inv, Done, NEW k \in DOMAIN cls, \A j \in 1..k : Fits(cls[j])
               PROVE  Shape(cls[k], LeftBefore(cls, k))
    BY DEF ShapesAsMeant
  <2>1. ~Refused
    BY NoneRefused
  <2>2. PICK c \in Seq(ClusterType) :
          /\ SoundClusters(c, used) /\ Len(c) = Len(cls) /\ Len(cls) \in Nat /\ DOMAIN cls = 1..Len(cls)
          /\ \A j \in 1..Len(cls) : Fits(cls[j]) => cls[j] = c[j]
    BY <2>1, AtTheEnd
  <2>3. k \in 1..Len(cls) /\ \A j \in 1..k : j \in 1..Len(cls)
    BY <2>2
  <2>4. \A j \in 1..k : cls[j] = c[j]
    BY <2>2, <2>3
  <2>5. Shape(c[k], LeftBefore(c, k)) /\ cls[k] = c[k]
    BY <2>2, <2>3, <2>4 DEF SoundClusters
  <2>6. Before(cls, k) = Before(c, k)
    <3>1. ASSUME NEW i PROVE i \in Before(cls, k) <=> i \in Before(c, k)
      <4>1. \A j \in 1..(k - 1) : j \in 1..k
        BY <2>3
      <4>2. QED
        BY <2>4, <4>1, BeforeIs
    <3>2. QED
      BY <3>1
  <2>7. LeftBefore(cls, k) = LeftBefore(c, k)
    BY <2>6 DEF LeftBefore
  <2>8. QED
    BY <2>5, <2>7
<1>2. QED
  BY <1>1, ClustersGrow, PTL

(***************************************************************************)
(* The loop over the seeds ends: each pass takes a hit that was free, or   *)
(* is the last.  That is so because the seed's own cluster always marks    *)
(* one, also when the row of clusMatrix is full before the seed is met.    *)
(* The arrays of SAC are left only by an event with more hits, more seeds  *)
(* or more hits around a seed than they hold.                              *)
(***************************************************************************)
THEOREM SearchComesToEnd == ClSpec => SearchEnds
<1>1. Inv /\ [ClNext]_clVars => [Progress]_clVars
  BY StepKeeps
<1>2. QED
  BY <1>1, ClustersGrow, PTL DEF ClSpec, SearchEnds, Progress
=============================================================================

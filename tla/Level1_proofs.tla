-------------------------- MODULE Level1_proofs --------------------------
(***************************************************************************)
(* Proofs about ZeroSuppression and Level1, for any numbers of boards,     *)
(* groups, channels, samples and events, any setups and any data.          *)
(*                                                                         *)
(* The first part is about the data of one board.  An event that Holds     *)
(* some channels of a board's acquisition has each at the place where a    *)
(* reader looks for it (Reads), and is unpacked to them (BoardIsHeld).     *)
(* create_pevent makes such an event (CreatedIsHeld), zero suppression     *)
(* makes another of it (SuppressHolds) or, if it has lost its way among    *)
(* the groups, one that does not fit (SuppressMissed).  RoundTrip joins    *)
(* them.                                                                   *)
(*                                                                         *)
(* The second part is about Level1.  RunInv says how what was read, what   *)
(* is in the stream and what was not saved yet belong together.            *)
(***************************************************************************)
EXTENDS Level1, SequenceTheorems, FiniteSetTheorems, WellFoundedInduction, TLAPS

-----------------------------------------------------------------------------
(* Numbers and recursive functions. *)

(* Induction, over the elements of a set.                                  *)
LEMMA Induction ==
  ASSUME NEW N, 0 \in N, \A n \in Nat : n \in N => n + 1 \in N
  PROVE  Nat \subseteq N
<1> SUFFICES ASSUME Nat \ N # {} PROVE FALSE
  OBVIOUS
<1>1. PICK n \in Nat \ N : \A m \in Nat \ N : ~ (<<m, n>> \in OpToRel(<, Nat))
  BY WFMin, NatLessThanWellFounded
<1>2. \A m \in Nat \ N : ~ (m < n)
  BY <1>1 DEF OpToRel
<1>3. n # 0 /\ n - 1 \in Nat /\ n - 1 < n
  OBVIOUS
<1>4. n - 1 \in N
  BY <1>2, <1>3
<1>5. QED
  BY <1>3, <1>4

(* The recursive functions on 0..m with step F.  There is one.             *)
Walks(V, m, base, F) ==
  {f \in [0..m -> V] : f[0] = base /\ \A i \in 1..m : f[i] = F[i][f[i - 1]]}

LEMMA Recursion ==
  ASSUME NEW V, NEW m \in Nat, NEW base \in V, NEW F \in [1..m -> [V -> V]]
  PROVE  Walks(V, m, base, F) # {}
<1> DEFINE Good(n, f) == f[0] = base /\ \A i \in 1..n : f[i] = F[i][f[i - 1]]
<1> DEFINE N == {n \in Nat : n <= m => \E f \in [0..n -> V] : Good(n, f)}
<1>1. 0 \in N
  <2> DEFINE f == [i \in 0..0 |-> base]
  <2>1. f \in [0..0 -> V] /\ Good(0, f)
    OBVIOUS
  <2>2. QED
    BY <2>1
<1>2. ASSUME NEW n \in Nat, n \in N PROVE n + 1 \in N
  <2> SUFFICES ASSUME n + 1 <= m PROVE \E f \in [0..(n + 1) -> V] : Good(n + 1, f)
    OBVIOUS
  <2>1. PICK f \in [0..n -> V] : Good(n, f)
    BY <1>2
  <2>2. F[n + 1][f[n]] \in V
    <3>1. n + 1 \in 1..m /\ f[n] \in V
      BY <2>1
    <3>2. F[n + 1] \in [V -> V]
      BY <3>1
    <3>3. QED
      BY <3>1, <3>2
  <2> DEFINE g == [i \in 0..(n + 1) |-> IF i <= n THEN f[i] ELSE F[n + 1][f[n]]]
  <2>3. g \in [0..(n + 1) -> V]
    BY <2>1, <2>2
  <2>4. g[0] = base
    BY <2>1
  <2>5. ASSUME NEW i \in 1..(n + 1) PROVE g[i] = F[i][g[i - 1]]
    <3>1. g[i - 1] = f[i - 1]
      OBVIOUS
    <3>2. CASE i <= n
      BY <2>1, <3>1, <3>2
    <3>3. CASE i = n + 1
      BY <3>1, <3>3
    <3>4. QED
      BY <3>2, <3>3
  <2> HIDE DEF g
  <2>6. QED
    BY <2>3, <2>4, <2>5
<1>3. Nat \subseteq N
  <2> HIDE DEF N
  <2>1. QED
    BY <1>1, <1>2, Induction
<1>4. \E f \in [0..m -> V] : Good(m, f)
  BY <1>3
<1>5. QED
  BY <1>4 DEF Walks

(* What a function on 0..m keeps from step to step it has everywhere.      *)
LEMMA StepByStep ==
  ASSUME NEW m \in Nat, NEW N, 0 \in N,
         \A i \in 1..m : i - 1 \in N => i \in N
  PROVE  \A i \in 0..m : i \in N
<1> DEFINE K == {n \in Nat : n <= m => n \in N}
<1>1. 0 \in K
  OBVIOUS
<1>2. ASSUME NEW n \in Nat, n \in K PROVE n + 1 \in K
  <2> SUFFICES ASSUME n + 1 <= m PROVE n + 1 \in N
    OBVIOUS
  <2>1. n + 1 \in 1..m /\ (n + 1) - 1 \in N
    BY <1>2
  <2>2. QED
    BY <2>1
<1>3. Nat \subseteq K
  <2> HIDE DEF K
  <2>1. QED
    BY <1>1, <1>2, Induction
<1>4. QED
  BY <1>3

-----------------------------------------------------------------------------
(* Sequences of sequences, one after the other. *)

LEMMA FlattenEmpty == FlattenSeq(<<>>) = <<>>
  BY DEF FlattenSeq

\* What FlattenSeq has after each of n sequences.
PartsOf(T, n, s) ==
  {f \in [1..n -> Seq(T)] : /\ f[1] = s[1] /\ \A i \in 2..n : f[i] = f[i - 1] \o s[i]
                            /\ FlattenSeq(s) = f[n]}

LEMMA FlattenIs ==
  ASSUME NEW T, NEW n \in Nat, n > 0, NEW s \in [1..n -> Seq(T)]
  PROVE  PartsOf(T, n, s) # {}
<1> DEFINE P(f) == f = [i \in 1..n |-> IF i = 1 THEN s[i] ELSE f[i - 1] \o s[i]]
<1>0. s \in Seq(Seq(T)) /\ Len(s) = n
  OBVIOUS
<1>1. FlattenSeq(s) = (CHOOSE f : P(f))[n]
  BY <1>0 DEF FlattenSeq
<1>2. \E f : P(f)
  <2> DEFINE F == [i \in 1..n |-> [x \in Seq(T) |-> IF i = 1 THEN s[1] ELSE x \o s[i]]]
  <2>1. F \in [1..n -> [Seq(T) -> Seq(T)]]
    <3>1. ASSUME NEW i \in 1..n, NEW x \in Seq(T)
          PROVE  (IF i = 1 THEN s[1] ELSE x \o s[i]) \in Seq(T)
      <4>1. s[i] \in Seq(T) /\ s[1] \in Seq(T)
        OBVIOUS
      <4>2. x \o s[i] \in Seq(T)
        BY <4>1
      <4>3. QED
        BY <4>1, <4>2
    <3>2. QED
      BY <3>1
  <2>2. PICK g \in [0..n -> Seq(T)] : g[0] = <<>> /\ \A i \in 1..n : g[i] = F[i][g[i - 1]]
    <3>1. <<>> \in Seq(T)
      OBVIOUS
    <3> HIDE DEF F
    <3>2. Walks(Seq(T), n, <<>>, F) # {}
      BY ONLY <2>1, <3>1, Recursion
    <3>3. QED
      BY <3>2 DEF Walks
  <2> DEFINE f == [i \in 1..n |-> g[i]]
  <2>3. ASSUME NEW i \in 1..n PROVE f[i] = IF i = 1 THEN s[i] ELSE f[i - 1] \o s[i]
    <3>0. i - 1 \in 0..n
      OBVIOUS
    <3>1. g[i - 1] \in Seq(T)
      BY <2>2, <3>0
    <3>2. g[i] = IF i = 1 THEN s[1] ELSE g[i - 1] \o s[i]
      BY <2>2, <3>1
    <3>3. i # 1 => i - 1 \in 1..n
      OBVIOUS
    <3>4. QED
      BY <3>2, <3>3
  <2>4. P(f)
    BY <2>3
  <2>5. QED
    BY <2>4
<1>3. PICK f : P(f) /\ FlattenSeq(s) = f[n]
  BY <1>1, <1>2
<1>4. f[1] = s[1] /\ \A i \in 2..n : f[i] = f[i - 1] \o s[i]
  <2>1. \A i \in 1..n : f[i] = IF i = 1 THEN s[i] ELSE f[i - 1] \o s[i]
    BY <1>3
  <2>2. ASSUME NEW i \in 2..n PROVE f[i] = f[i - 1] \o s[i]
    <3>1. i \in 1..n /\ i # 1
      OBVIOUS
    <3>2. QED
      BY <2>1, <3>1
  <2>3. 1 \in 1..n
    OBVIOUS
  <2>4. f[1] = s[1]
    BY <2>1, <2>3
  <2>5. QED
    BY <2>2, <2>4
<1>5. \A i \in 1..n : f[i] \in Seq(T)
  <2> DEFINE N == {i \in 0..n : i > 0 => f[i] \in Seq(T)}
  <2>1. 0 \in N
    OBVIOUS
  <2>2. ASSUME NEW i \in 1..n, i - 1 \in N PROVE i \in N
    <3>1. CASE i = 1
      BY <1>4, <3>1
    <3>2. CASE i # 1
      <4>1. i \in 2..n /\ f[i - 1] \in Seq(T) /\ s[i] \in Seq(T)
        BY <2>2, <3>2
      <4>2. f[i - 1] \o s[i] \in Seq(T)
        BY <4>1
      <4>3. f[i] = f[i - 1] \o s[i]
        BY <1>4, <4>1
      <4>4. f[i] \in Seq(T)
        BY <4>2, <4>3
      <4>5. QED
        BY <4>4
    <3>3. QED
      BY <3>1, <3>2
  <2>3. \A i \in 0..n : i \in N
    <3> HIDE DEF N
    <3>1. QED
      BY <2>1, <2>2, StepByStep
  <2>4. QED
    BY <2>3
<1>6. f \in [1..n -> Seq(T)]
  BY <1>3, <1>5
<1>7. QED
  BY <1>3, <1>4, <1>6 DEF PartsOf


IsJoin(T, s, t, u) ==
  /\ u \in Seq(T) /\ Len(u) = Len(s) + Len(t)
  /\ \A i \in 1..Len(s) : u[i] = s[i]
  /\ \A i \in 1..Len(t) : u[Len(s) + i] = t[i]

LEMMA Joined ==
  ASSUME NEW T, NEW s \in Seq(T), NEW t \in Seq(T)
  PROVE  IsJoin(T, s, t, s \o t)
  BY DEF IsJoin

LEMMA Products ==
  ASSUME NEW j \in Nat, NEW k \in Nat, NEW m \in Nat
  PROVE  /\ j * m \in Nat /\ (j + 1) * m = j * m + m /\ 0 * m = 0
         /\ j <= k => j * m <= k * m
         /\ j < k => j * m + m <= k * m
<1> DEFINE N == {i \in Nat : j * m <= (j + i) * m}
<1>1. 0 \in N
  OBVIOUS
<1>2. \A i \in Nat : i \in N => i + 1 \in N
  OBVIOUS
<1>3. Nat \subseteq N
  <2> HIDE DEF N
  <2>1. QED
    BY <1>1, <1>2, Induction
<1>4. ASSUME NEW l \in Nat, NEW d \in Nat PROVE l * m <= (l + d) * m
  OBVIOUS
<1>5. QED
  OBVIOUS

(* Blocks of one length m: the k-th begins behind (k-1)*m elements.        *)
IsFlat(T, n, m, s, u) ==
  /\ u \in Seq(T) /\ Len(u) = n * m
  /\ \A k \in 1..n : \A i \in 1..m : u[(k - 1) * m + i] = s[k][i]

LEMMA FlattenBlocks ==
  ASSUME NEW T, NEW n \in Nat, NEW m \in Nat, NEW s \in [1..n -> Seq(T)],
         \A k \in 1..n : Len(s[k]) = m
  PROVE  IsFlat(T, n, m, s, FlattenSeq(s))
<1>1. CASE n = 0
  <2>1. s = <<>>
    BY <1>1
  <2>2. FlattenSeq(s) = <<>>
    BY <2>1, FlattenEmpty
  <2>3. n * m = 0
    BY <1>1
  <2>4. QED
    BY <1>1, <2>2, <2>3 DEF IsFlat
<1>2. CASE n > 0
  <2>1. PICK f \in [1..n -> Seq(T)] :
          /\ f[1] = s[1] /\ \A i \in 2..n : f[i] = f[i - 1] \o s[i]
          /\ FlattenSeq(s) = f[n]
    <3>1. PartsOf(T, n, s) # {}
      BY <1>2, FlattenIs
    <3>2. QED
      BY <3>1 DEF PartsOf
  <2> DEFINE Good(k) == /\ Len(f[k]) = k * m
                        /\ \A j \in 1..k : \A i \in 1..m : f[k][(j - 1) * m + i] = s[j][i]
  <2> DEFINE N == {k \in 0..n : k > 0 => Good(k)}
  <2>2. 0 \in N
    OBVIOUS
  <2>3. ASSUME NEW k \in 1..n, k - 1 \in N PROVE k \in N
    <3>1. CASE k = 1
      <4>1. 1 * m = m /\ (1 - 1) * m = 0 /\ Len(s[1]) = m
        BY <1>2
      <4>2. ASSUME NEW j \in 1..1, NEW i \in 1..m PROVE f[1][(j - 1) * m + i] = s[j][i]
        <5>1. j = 1
          OBVIOUS
        <5>2. (j - 1) * m + i = i
          BY <4>1, <5>1
        <5>3. QED
          BY <2>1, <5>1, <5>2
      <4>3. Good(1)
        BY <2>1, <4>1, <4>2
      <4>4. QED
        BY <3>1, <4>3
    <3>2. CASE k > 1
      <4>0. k \in 2..n /\ k - 1 \in 1..n /\ k - 1 \in Nat
        BY <3>2
      <4> DEFINE p == f[k - 1]
      <4>1. Good(k - 1)
        BY <2>3, <3>2
      <4>2. p \in Seq(T) /\ s[k] \in Seq(T) /\ Len(s[k]) = m /\ f[k] = p \o s[k]
        BY <2>1, <4>0
      <4>3. Len(p) = (k - 1) * m
        BY <4>1
      <4>4. (k - 1) * m \in Nat /\ ((k - 1) + 1) * m = (k - 1) * m + m
        BY <4>0, Products
      <4>5. k * m = (k - 1) * m + m
        <5>1. (k - 1) + 1 = k
          OBVIOUS
        <5>2. QED
          BY <4>4, <5>1
      <4> HIDE DEF p
      <4>6. /\ Len(f[k]) = Len(p) + Len(s[k])
            /\ \A i \in 1..Len(p) : f[k][i] = p[i]
            /\ \A i \in 1..Len(s[k]) : f[k][Len(p) + i] = s[k][i]
        <5>1. IsJoin(T, p, s[k], f[k])
          BY <4>2, Joined
        <5>2. QED
          BY <5>1 DEF IsJoin
      <4>7. Len(f[k]) = k * m
        BY <4>2, <4>3, <4>5, <4>6
      <4>8. ASSUME NEW j \in 1..k, NEW i \in 1..m PROVE f[k][(j - 1) * m + i] = s[j][i]
        <5>1. CASE j = k
          BY <4>2, <4>3, <4>6, <5>1
        <5>2. CASE j < k
          <6>1. j - 1 \in Nat /\ j - 1 < k - 1 /\ j \in 1..(k - 1)
            BY <5>2
          <6>2. (j - 1) * m \in Nat /\ (j - 1) * m + m <= (k - 1) * m
            BY <4>0, <6>1, Products
          <6>3. (j - 1) * m + i \in 1..Len(p)
            <7> DEFINE x == (j - 1) * m
            <7> DEFINE y == (k - 1) * m
            <7>1. x \in Nat /\ y \in Nat /\ x + m <= y /\ Len(p) = y
              BY <4>3, <4>4, <6>2
            <7> HIDE DEF x, y
            <7>2. x + i \in 1..y
              BY <7>1
            <7>3. QED
              BY <7>1, <7>2 DEF x
          <6>4. p[(j - 1) * m + i] = s[j][i]
            BY <4>1, <6>1 DEF p
          <6>5. QED
            BY <4>6, <6>3, <6>4
        <5>3. QED
          BY <5>1, <5>2
      <4>9. Good(k)
        BY <4>7, <4>8
      <4> HIDE DEF Good
      <4>10. QED
        BY <4>0, <4>9
    <3>3. QED
      BY <3>1, <3>2
  <2>4. \A k \in 0..n : k \in N
    <3> HIDE DEF N
    <3>1. QED
      BY <2>2, <2>3, StepByStep
  <2>5. Good(n)
    <3> HIDE DEF Good
    <3>1. n \in N
      <4> HIDE DEF N
      <4>1. n \in 0..n
        BY <1>2
      <4>2. QED
        BY <2>4, <4>1
    <3>2. QED
      BY <1>2, <3>1
  <2>6. QED
    BY <1>2, <2>1, <2>5 DEF IsFlat
<1>3. QED
  BY <1>1, <1>2

(* The last of the sequences comes last.                                   *)
LEMMA FlattenLast ==
  ASSUME NEW T, NEW n \in Nat, n > 1, NEW s \in [1..n -> Seq(T)],
         NEW p \in [1..(n - 1) -> Seq(T)], \A i \in 1..(n - 1) : p[i] = s[i]
  PROVE  FlattenSeq(s) = FlattenSeq(p) \o s[n]
<1>1. p \in [1..(n - 1) -> Seq(T)] /\ n - 1 \in Nat /\ n - 1 > 0
  OBVIOUS
<1>2. PICK f \in [1..n -> Seq(T)] :
        /\ f[1] = s[1] /\ \A i \in 2..n : f[i] = f[i - 1] \o s[i]
        /\ FlattenSeq(s) = f[n]
  <2>1. PartsOf(T, n, s) # {}
    BY FlattenIs
  <2>2. QED
    BY <2>1 DEF PartsOf
<1>3. PICK g \in [1..(n - 1) -> Seq(T)] :
        /\ g[1] = p[1] /\ \A i \in 2..(n - 1) : g[i] = g[i - 1] \o p[i]
        /\ FlattenSeq(p) = g[n - 1]
  <2>1. PartsOf(T, n - 1, p) # {}
    BY <1>1, FlattenIs
  <2>2. QED
    BY <2>1 DEF PartsOf
<1> DEFINE N == {i \in 0..(n - 1) : i > 0 => g[i] = f[i]}
<1>4. 0 \in N
  OBVIOUS
<1>5. ASSUME NEW i \in 1..(n - 1), i - 1 \in N PROVE i \in N
  <2>1. CASE i = 1
    <3>1. g[1] = f[1]
      BY <1>2, <1>3
    <3>2. QED
      BY <2>1, <3>1
  <2>2. CASE i > 1
    <3>1. i \in 2..(n - 1) /\ i \in 2..n /\ g[i - 1] = f[i - 1] /\ p[i] = s[i]
      BY <1>5, <2>2
    <3>2. g[i] = g[i - 1] \o p[i] /\ f[i] = f[i - 1] \o s[i]
      BY <1>2, <1>3, <3>1
    <3>3. g[i] = f[i]
      BY <3>1, <3>2
    <3>4. QED
      BY <3>3
  <2>3. QED
    BY <2>1, <2>2
<1>6. \A i \in 0..(n - 1) : i \in N
  <2> HIDE DEF N
  <2>1. QED
    BY <1>1, <1>4, <1>5, StepByStep
<1>7. n - 1 \in 0..(n - 1) /\ n \in 2..n
  OBVIOUS
<1>8. g[n - 1] = f[n - 1]
  BY <1>6, <1>7
<1>9. f[n] = f[n - 1] \o s[n]
  BY <1>2, <1>7
<1>10. QED
  BY <1>2, <1>3, <1>8, <1>9


-----------------------------------------------------------------------------
(* The members of a mask, from the lowest. *)

LEMMA LargestElement ==
  ASSUME NEW m \in Nat, NEW S, S \subseteq 0..m, S # {}
  PROVE  \E x \in S : \A y \in S : y <= x
<1> DEFINE N == {k \in Nat : \A T \in SUBSET S : T # {} /\ (\A y \in T : y <= k)
                                => \E x \in T : \A y \in T : y <= x}
<1>1. 0 \in N
  <2> SUFFICES ASSUME NEW T \in SUBSET S, T # {}, \A y \in T : y <= 0
               PROVE  \E x \in T : \A y \in T : y <= x
    OBVIOUS
  <2>1. \A y \in T : y = 0
    OBVIOUS
  <2>2. QED
    BY <2>1
<1>2. ASSUME NEW k \in Nat, k \in N PROVE k + 1 \in N
  <2> SUFFICES ASSUME NEW T \in SUBSET S, T # {}, \A y \in T : y <= k + 1
               PROVE  \E x \in T : \A y \in T : y <= x
    OBVIOUS
  <2>1. CASE k + 1 \in T
    BY <2>1
  <2>2. CASE k + 1 \notin T
    <3>1. \A y \in T : y <= k
      BY <2>2
    <3>2. QED
      BY <1>2, <3>1
  <2>3. QED
    BY <2>1, <2>2
<1>3. Nat \subseteq N
  <2> HIDE DEF N
  <2>1. QED
    BY <1>1, <1>2, Induction
<1>4. \A y \in S : y <= m
  OBVIOUS
<1>5. m \in N
  <2> HIDE DEF N
  <2>1. QED
    BY <1>3
<1>6. QED
  BY <1>4, <1>5

Increasing(n, S) == {s \in [1..n -> S] : \A i, j \in 1..n : i < j => s[i] < s[j]}

LEMMA BoundedFinite ==
  ASSUME NEW m \in Nat, NEW S, S \subseteq 0..m
  PROVE  IsFiniteSet(S) /\ Cardinality(S) \in Nat
<1>1. IsFiniteSet(0..m)
  BY FS_Interval
<1>2. IsFiniteSet(S)
  BY <1>1, FS_Subset
<1>3. QED
  BY <1>2, FS_CardinalityType

LEMMA IncreasingExists ==
  ASSUME NEW m \in Nat, NEW S, S \subseteq 0..m
  PROVE  Increasing(Cardinality(S), S) # {}
<1> DEFINE N == {n \in Nat : \A T \in SUBSET S : Cardinality(T) = n => Increasing(n, T) # {}}
<1>1. 0 \in N
  <2> SUFFICES ASSUME NEW T \in SUBSET S PROVE Increasing(0, T) # {}
    OBVIOUS
  <2>1. <<>> \in Increasing(0, T)
    BY DEF Increasing
  <2>2. QED
    BY <2>1
<1>2. ASSUME NEW n \in Nat, n \in N PROVE n + 1 \in N
  <2> SUFFICES ASSUME NEW T \in SUBSET S, Cardinality(T) = n + 1
               PROVE  Increasing(n + 1, T) # {}
    OBVIOUS
  <2>1. IsFiniteSet(T) /\ T \subseteq 0..m
    BY BoundedFinite
  <2>2. T # {}
    BY <2>1, FS_EmptySet
  <2>3. PICK x \in T : \A y \in T : y <= x
    BY <2>1, <2>2, LargestElement
  <2> DEFINE U == T \ {x}
  <2>4. Cardinality(U) = n
    <3>1. Cardinality(U) = Cardinality(T) - 1
      BY <2>1, FS_RemoveElement
    <3>2. QED
      BY <3>1
  <2>5. Increasing(n, U) # {}
    BY <1>2, <2>4
  <2>6. PICK s : s \in Increasing(n, U)
    BY <2>5
  <2>7. s \in [1..n -> U] /\ \A i, j \in 1..n : i < j => s[i] < s[j]
    BY <2>6 DEF Increasing
  <2> DEFINE t == [i \in 1..(n + 1) |-> IF i <= n THEN s[i] ELSE x]
  <2>8. t \in [1..(n + 1) -> T]
    BY <2>7
  <2>9. ASSUME NEW i \in 1..(n + 1), NEW j \in 1..(n + 1), i < j PROVE t[i] < t[j]
    <3>1. i \in 1..n /\ s[i] \in U /\ t[i] = s[i]
      BY <2>7, <2>9
    <3>2. CASE j <= n
      BY <2>7, <2>9, <3>1, <3>2
    <3>3. CASE j = n + 1
      <4>1. s[i] <= x /\ s[i] # x /\ s[i] \in 0..m /\ x \in 0..m
        BY <2>1, <2>3, <3>1
      <4>2. t[j] = x
        BY <3>3
      <4>3. QED
        BY <3>1, <4>1, <4>2
    <3>4. QED
      BY <3>2, <3>3
  <2>10. t \in Increasing(n + 1, T)
    BY <2>8, <2>9 DEF Increasing
  <2>11. QED
    BY <2>10
<1>3. Nat \subseteq N
  <2> HIDE DEF N
  <2>1. QED
    BY <1>1, <1>2, Induction
<1>4. Cardinality(S) \in N
  BY <1>3, BoundedFinite
<1>5. QED
  BY <1>4

LEMMA AscendingIs ==
  ASSUME NEW m \in Nat, NEW S, S \subseteq 0..m
  PROVE  /\ Cardinality(S) \in Nat
         /\ Ascending(S) \in [1..Cardinality(S) -> S]
         /\ \A i, j \in 1..Cardinality(S) : i < j => Ascending(S)[i] < Ascending(S)[j]
         /\ \A i, j \in 1..Cardinality(S) : Ascending(S)[i] = Ascending(S)[j] => i = j
         /\ \A x \in S : \E i \in 1..Cardinality(S) : Ascending(S)[i] = x
<1> DEFINE n == Cardinality(S)
<1> DEFINE s == Ascending(S)
<1>1. n \in Nat /\ IsFiniteSet(S)
  BY BoundedFinite
<1>2. s = CHOOSE t \in Increasing(n, S) : TRUE
  <2>1. \A t \in [1..n -> S] : DOMAIN t = 1..n
    OBVIOUS
  <2>2. s = CHOOSE t \in [1..n -> S] : \A i, j \in DOMAIN t : i < j => t[i] < t[j]
    BY DEF Ascending
  <2>3. \A t : t \in [1..n -> S] /\ (\A i, j \in DOMAIN t : i < j => t[i] < t[j]) <=> t \in Increasing(n, S)
    BY <2>1 DEF Increasing
  <2>4. QED
    BY <2>2, <2>3
<1>3. s \in Increasing(n, S)
  BY <1>2, IncreasingExists
<1>4. s \in [1..n -> S] /\ \A i, j \in 1..n : i < j => s[i] < s[j]
  BY <1>3 DEF Increasing
<1> HIDE DEF n, s
<1>5. ASSUME NEW i \in 1..n, NEW j \in 1..n, s[i] = s[j] PROVE i = j
  <2>1. s[i] \in 0..m /\ s[j] \in 0..m
    BY <1>4
  <2>2. ~(s[i] < s[j]) /\ ~(s[j] < s[i])
    BY <1>5, <2>1
  <2>3. ~(i < j) /\ ~(j < i)
    BY <1>4, <2>2
  <2>4. QED
    BY <1>1, <2>3
<1>6. s \in Injection(1..n, S)
  BY <1>4, <1>5 DEF Injection, IsInjective
<1>7. Cardinality(1..n) = n
  BY <1>1, FS_Interval
<1>8. s \in Surjection(1..n, S)
  BY <1>1, <1>6, <1>7, FS_Injection DEF n
<1>9. \A x \in S : \E i \in 1..n : s[i] = x
  BY <1>8 DEF Surjection
<1>10. QED
  BY <1>1, <1>4, <1>5, <1>9 DEF n, s


(* There is only one way to list them so.                                  *)
LEMMA AscendingIsOnly ==
  ASSUME NEW m \in Nat, NEW S, S \subseteq 0..m, NEW n \in Nat, NEW t \in Increasing(n, S),
         \A x \in S : \E i \in 1..n : t[i] = x
  PROVE  Cardinality(S) = n /\ Ascending(S) = t
<1> DEFINE s == Ascending(S)
<1> DEFINE c == Cardinality(S)
<1>1. t \in [1..n -> S] /\ \A i, j \in 1..n : i < j => t[i] < t[j]
  BY DEF Increasing
<1>2. c = n
  <2>1. \A i, j \in 1..n : t[i] = t[j] => i = j
    <3> SUFFICES ASSUME NEW i \in 1..n, NEW j \in 1..n, t[i] = t[j], i # j PROVE FALSE
      OBVIOUS
    <3>1. t[i] \in 0..m /\ t[j] \in 0..m
      BY <1>1
    <3>2. t[i] < t[j] \/ t[j] < t[i]
      BY <1>1
    <3>3. QED
      BY <3>1, <3>2
  <2>2. t \in Bijection(1..n, S)
    BY <1>1, <2>1 DEF Bijection, Injection, Surjection, IsInjective
  <2>3. QED
    BY <2>2, FS_CountingElements DEF ExistsBijection
<1>3. /\ s \in [1..n -> S] /\ \A i, j \in 1..n : i < j => s[i] < s[j]
      /\ \A x \in S : \E i \in 1..n : s[i] = x
  BY <1>2, AscendingIs
<1> HIDE DEF s
<1> DEFINE N == {k \in 0..n : \A j \in 1..k : s[j] = t[j]}
<1>4. 0 \in N
  OBVIOUS
<1>5. ASSUME NEW k \in 1..n, k - 1 \in N PROVE k \in N
  <2>0. s[k] \in 0..m /\ t[k] \in 0..m
    BY <1>1, <1>3
  <2>1. \A j \in 1..n : j < k => s[j] = t[j]
    BY <1>5
  <2>2. ~(s[k] < t[k])
    <3> SUFFICES ASSUME s[k] < t[k] PROVE FALSE
      OBVIOUS
    <3>1. PICK j \in 1..n : t[j] = s[k]
      BY <1>3
    <3>2. t[j] < t[k]
      BY <3>1
    <3>3. j < k
      <4> SUFFICES ASSUME ~(j < k) PROVE FALSE
        OBVIOUS
      <4>1. j = k \/ t[k] < t[j]
        BY <1>1
      <4>2. QED
        BY <2>0, <3>1, <4>1
    <3>4. s[j] = t[j] /\ s[j] < s[k]
      BY <1>3, <2>1, <3>3
    <3>5. QED
      BY <2>0, <3>1, <3>4
  <2>3. ~(t[k] < s[k])
    <3> SUFFICES ASSUME t[k] < s[k] PROVE FALSE
      OBVIOUS
    <3>1. PICK j \in 1..n : s[j] = t[k]
      BY <1>1, <1>3
    <3>2. s[j] < s[k]
      BY <3>1
    <3>3. j < k
      <4> SUFFICES ASSUME ~(j < k) PROVE FALSE
        OBVIOUS
      <4>1. j = k \/ s[k] < s[j]
        BY <1>3
      <4>2. QED
        BY <2>0, <3>1, <4>1
    <3>4. s[j] = t[j] /\ t[j] < t[k]
      BY <1>1, <2>1, <3>3
    <3>5. QED
      BY <2>0, <3>1, <3>4
  <2>4. s[k] = t[k]
    BY <2>0, <2>2, <2>3
  <2>5. QED
    BY <2>1, <2>4
<1>6. \A k \in 0..n : k \in N
  <2> HIDE DEF N
  <2>1. QED
    BY <1>4, <1>5, StepByStep
<1>7. \A j \in 1..n : s[j] = t[j]
  BY <1>6
<1>8. s = t
  BY <1>1, <1>3, <1>7
<1>9. QED
  BY <1>2, <1>8 DEF s

-----------------------------------------------------------------------------
(* An event of board a as the DAQ packs it. *)

SampleType == UNION {[S -> [1..NSamples -> BOOLEAN]] : S \in SUBSET Channels}

Acquisitions ==
  [n : Nat, b : Nat, groups : SUBSET Groups, enabled : SUBSET Channels, tr : BOOLEAN, low : Nat,
   long : BOOLEAN, samples : SampleType]

LEMMA ActiveAre ==
  ASSUME NEW a \in Acquisitions
  PROVE  /\ Active(a) \in SUBSET Channels
         /\ \A c \in Active(a) : /\ GroupOf(c) \in a.groups /\ c \in Channels
                               /\ a.samples[c] \in [1..NSamples -> BOOLEAN]
<1>1. a.enabled \in SUBSET Channels /\ a.samples \in SampleType
  BY DEF Acquisitions
<1>2. PICK S \in SUBSET Channels : a.samples \in [S -> [1..NSamples -> BOOLEAN]]
  BY <1>1 DEF SampleType
<1>3. \A c \in Active(a) : /\ GroupOf(c) \in a.groups /\ c \in a.enabled
                         /\ c \in DOMAIN a.samples
  BY DEF Active
<1>4. \A c \in DOMAIN a.samples : a.samples[c] \in [1..NSamples -> BOOLEAN]
  BY <1>2
<1>5. QED
  BY <1>1, <1>3, <1>4

LEMMA Constants ==
  /\ NGroups \in Nat /\ NGroups > 0 /\ ChPerGroup \in Nat /\ ChPerGroup > 0
  /\ NSamples \in Nat /\ NSamples > 0 /\ TrLen \in Nat
  /\ Zs1Head \in Nat /\ Zs1Tail \in Nat /\ Zs1NAbove \in Nat /\ Zs2Tail \in Nat /\ Zs2MinRms \in Nat
  BY ZsAssumption

LEMMA Bounds ==
  /\ NGroups - 1 \in Nat /\ Groups = 0..(NGroups - 1)
  /\ NGroups * ChPerGroup - 1 \in Nat /\ Channels = 0..(NGroups * ChPerGroup - 1)
<1>1. NGroups * ChPerGroup \in Nat /\ NGroups * ChPerGroup > 0
  BY Constants
<1>2. QED
  BY <1>1, Constants DEF Groups, Channels

GroupLen(a) == IF a.tr THEN 2 + TrLen ELSE 2

TriggerWord(a, g) == Word(1, <<a.n, a.b, "trig", g>>, a.long)
TimeTag(a, g) == Word(1, TriggerTag(a, g), FALSE)

WordsOf(a) ==
  {GroupHead(g, a.tr) : g \in Groups} \cup {TriggerWord(a, g) : g \in Groups}
    \cup {TimeTag(a, g) : g \in Groups}
    \cup {ChannelWords(a, c)[i] : c \in Channels, i \in 1..NSamples}

LEMMA GroupWordsAre ==
  ASSUME NEW a \in Acquisitions, NEW g \in Groups
  PROVE  /\ GroupWords(a, g) \in Seq(WordsOf(a)) /\ Len(GroupWords(a, g)) = GroupLen(a)
         /\ GroupWords(a, g)[1] = GroupHead(g, a.tr)
         /\ GroupWords(a, g)[GroupLen(a)] = TimeTag(a, g)
         /\ GroupLen(a) \in Nat /\ GroupLen(a) > 1
<1> DEFINE T == WordsOf(a)
<1> DEFINE h == GroupHead(g, a.tr)
<1> DEFINE w == TriggerWord(a, g)
<1> DEFINE e == TimeTag(a, g)
<1> DEFINE n == IF a.tr THEN TrLen ELSE 0
<1>1. h \in T /\ w \in T /\ e \in T
  BY DEF WordsOf
<1>2. n \in Nat /\ GroupLen(a) = 2 + n
  BY Constants DEF GroupLen
<1>3. GroupWords(a, g) = <<h>> \o [i \in 1..n |-> w] \o <<e>>
  BY DEF GroupWords, TriggerWord, TimeTag
<1> HIDE DEF T, h, w, e, n
<1> DEFINE p == <<h>>
<1> DEFINE q == [i \in 1..n |-> w]
<1> DEFINE r == <<e>>
<1>4. p \in Seq(T) /\ q \in Seq(T) /\ r \in Seq(T) /\ Len(p) = 1 /\ Len(q) = n /\ Len(r) = 1
      /\ p[1] = h /\ r[1] = e
  BY <1>1, <1>2
<1>5. GroupWords(a, g) = (p \o q) \o r
  BY <1>3
<1> HIDE DEF p, q, r
<1>6. p \o q \in Seq(T) /\ Len(p \o q) = 1 + n /\ (p \o q)[1] = h
  <2>1. IsJoin(T, p, q, p \o q)
    BY <1>4, Joined
  <2>2. QED
    BY <1>4, <2>1 DEF IsJoin
<1>7. /\ (p \o q) \o r \in Seq(T) /\ Len((p \o q) \o r) = (1 + n) + 1
      /\ ((p \o q) \o r)[1] = h /\ ((p \o q) \o r)[(1 + n) + 1] = e
  <2> DEFINE x == p \o q
  <2>1. x \in Seq(T) /\ Len(x) = 1 + n /\ x[1] = h
    BY <1>6
  <2> HIDE DEF x
  <2>2. IsJoin(T, x, r, x \o r)
    BY <1>4, <2>1, Joined
  <2>5. x \o r \in Seq(T) /\ Len(x \o r) = (1 + n) + 1 /\ (x \o r)[1] = h /\ (x \o r)[(1 + n) + 1] = e
    BY <1>2, <1>4, <2>1, <2>2 DEF IsJoin
  <2>6. QED
    BY <2>5 DEF x
<1>8. (1 + n) + 1 = GroupLen(a)
  BY <1>2
<1>9. QED
  BY <1>2, <1>5, <1>7, <1>8 DEF T, h, e

LEMMA ChannelWordsAre ==
  ASSUME NEW a \in Acquisitions, NEW c \in Channels
  PROVE  /\ ChannelWords(a, c) \in Seq(WordsOf(a)) /\ Len(ChannelWords(a, c)) = NSamples
         /\ DOMAIN ChannelWords(a, c) = 1..NSamples
<1>1. \A i \in 1..NSamples : ChannelWords(a, c)[i] \in WordsOf(a)
  BY DEF WordsOf
<1>2. DOMAIN ChannelWords(a, c) = 1..NSamples
  BY DEF ChannelWords
<1>3. ChannelWords(a, c) = [i \in 1..NSamples |-> ChannelWords(a, c)[i]]
  BY DEF ChannelWords
<1>4. QED
  BY <1>1, <1>2, <1>3, Constants

LEMMA WordsLow ==
  ASSUME NEW a \in Acquisitions, NEW w \in WordsOf(a)
  PROVE  w.low \in Nat
<1>1. \A g \in Groups : GroupHead(g, a.tr).low \in Nat /\ TriggerWord(a, g).low \in Nat /\ TimeTag(a, g).low \in Nat
  BY Constants DEF GroupHead, TriggerWord, TimeTag, Word
<1>2. \A c \in Channels : \A i \in 1..NSamples : ChannelWords(a, c)[i].low \in Nat
  BY DEF ChannelWords, Word, Acquisitions
<1>3. QED
  BY <1>1, <1>2 DEF WordsOf


(* Where everything is in an event that holds the channels cs of a.        *)
Laid(a, cs, C, body) ==
  LET W == GroupLen(a)
      G == Cardinality(a.groups)
      gs == Ascending(a.groups)
  IN  /\ body \in Seq(WordsOf(a)) /\ Len(body) = G * W + C * NSamples
      /\ \A k \in 1..G : /\ body[(k - 1) * W + 1] = GroupHead(gs[k], a.tr)
                         /\ body[(k - 1) * W + W] = TimeTag(a, gs[k])
      /\ \A k \in 1..C : \A i \in 1..NSamples :
           body[G * W + ((k - 1) * NSamples + i)] = ChannelWords(a, cs[k])[i]

LEMMA GroupsAscend ==
  ASSUME NEW a \in Acquisitions
  PROVE  /\ Cardinality(a.groups) \in Nat /\ a.groups \subseteq Groups
         /\ DOMAIN Ascending(a.groups) = 1..Cardinality(a.groups)
         /\ \A k \in 1..Cardinality(a.groups) : Ascending(a.groups)[k] \in a.groups
         /\ \A i, j \in 1..Cardinality(a.groups) : Ascending(a.groups)[i] = Ascending(a.groups)[j] => i = j
         /\ \A g \in a.groups : \E k \in 1..Cardinality(a.groups) : Ascending(a.groups)[k] = g
<1>1. a.groups \subseteq 0..(NGroups - 1) /\ NGroups - 1 \in Nat
  BY Bounds DEF Acquisitions
<1>2. /\ Cardinality(a.groups) \in Nat
      /\ Ascending(a.groups) \in [1..Cardinality(a.groups) -> a.groups]
      /\ \A i, j \in 1..Cardinality(a.groups) : Ascending(a.groups)[i] = Ascending(a.groups)[j] => i = j
      /\ \A g \in a.groups : \E k \in 1..Cardinality(a.groups) : Ascending(a.groups)[k] = g
  BY <1>1, AscendingIs
<1>3. QED
  BY <1>1, <1>2, Bounds

LEMMA ChannelsAscend ==
  ASSUME NEW S \in SUBSET Channels
  PROVE  /\ Cardinality(S) \in Nat
         /\ DOMAIN Ascending(S) = 1..Cardinality(S)
         /\ Ascending(S) \in [1..Cardinality(S) -> S]
         /\ \A i, j \in 1..Cardinality(S) : i < j => Ascending(S)[i] < Ascending(S)[j]
         /\ \A i, j \in 1..Cardinality(S) : Ascending(S)[i] = Ascending(S)[j] => i = j
         /\ \A g \in S : \E k \in 1..Cardinality(S) : Ascending(S)[k] = g
<1>1. S \subseteq 0..(NGroups * ChPerGroup - 1) /\ NGroups * ChPerGroup - 1 \in Nat
  BY Bounds
<1>2. /\ Cardinality(S) \in Nat
      /\ Ascending(S) \in [1..Cardinality(S) -> S]
      /\ \A i, j \in 1..Cardinality(S) : i < j => Ascending(S)[i] < Ascending(S)[j]
      /\ \A i, j \in 1..Cardinality(S) : Ascending(S)[i] = Ascending(S)[j] => i = j
      /\ \A g \in S : \E k \in 1..Cardinality(S) : Ascending(S)[k] = g
  BY <1>1, AscendingIs
<1>3. QED
  BY <1>2

(* Groups, and then channels, one behind the other.                        *)
LEMMA BodyIsLaid ==
  ASSUME NEW a \in Acquisitions, NEW C \in Nat, NEW cs \in [1..C -> Channels],
         NEW front \in Seq(WordsOf(a)),
         Len(front) = Cardinality(a.groups) * GroupLen(a),
         \A k \in 1..Cardinality(a.groups) :
           /\ front[(k - 1) * GroupLen(a) + 1] = GroupHead(Ascending(a.groups)[k], a.tr)
           /\ front[(k - 1) * GroupLen(a) + GroupLen(a)] = TimeTag(a, Ascending(a.groups)[k]),
         NEW blocks \in [1..C -> Seq(WordsOf(a))],
         \A k \in 1..C : blocks[k] = ChannelWords(a, cs[k])
  PROVE  Laid(a, cs, C, front \o FlattenSeq(blocks))
<1> DEFINE T == WordsOf(a)
<1> DEFINE W == GroupLen(a)
<1> DEFINE G == Cardinality(a.groups)
<1> DEFINE gs == Ascending(a.groups)
<1> DEFINE rest == FlattenSeq(blocks)
<1> DEFINE body == front \o rest
<1>1. \A k \in 1..C : Len(blocks[k]) = NSamples
  BY ChannelWordsAre
<1>2. /\ rest \in Seq(T) /\ Len(rest) = C * NSamples
      /\ \A k \in 1..C : \A i \in 1..NSamples : rest[(k - 1) * NSamples + i] = blocks[k][i]
  <2>1. IsFlat(T, C, NSamples, blocks, rest)
    BY <1>1, Constants, FlattenBlocks
  <2>2. QED
    BY <2>1 DEF IsFlat
<1> HIDE DEF rest
<1>3. IsJoin(T, front, rest, body)
  BY <1>2, Joined
<1> HIDE DEF body, T
<1>4. G \in Nat /\ W \in Nat /\ W > 1
  <2>1. G \in Nat
    BY GroupsAscend
  <2>2. QED
    BY <2>1, Constants DEF GroupLen
<1>5. body \in Seq(T) /\ Len(body) = G * W + C * NSamples
  BY <1>2, <1>3 DEF IsJoin
<1>6. ASSUME NEW k \in 1..G
      PROVE  /\ body[(k - 1) * W + 1] = GroupHead(gs[k], a.tr)
             /\ body[(k - 1) * W + W] = TimeTag(a, gs[k])
  <2> DEFINE x == (k - 1) * W
  <2> DEFINE y == G * W
  <2>1. x \in Nat /\ y \in Nat /\ x + W <= y
    <3>1. k - 1 \in Nat /\ k - 1 < G
      BY <1>4
    <3> HIDE DEF G, W
    <3>2. QED
      BY <1>4, <3>1, Products
  <2>2. front[x + 1] = GroupHead(gs[k], a.tr) /\ front[x + W] = TimeTag(a, gs[k]) /\ Len(front) = y
    OBVIOUS
  <2> HIDE DEF x, y, W, G, gs
  <2>3. x + 1 \in 1..Len(front) /\ x + W \in 1..Len(front)
    BY <1>4, <2>1, <2>2
  <2>4. body[x + 1] = front[x + 1] /\ body[x + W] = front[x + W]
    BY <1>3, <2>3 DEF IsJoin
  <2>5. QED
    BY <2>2, <2>4 DEF x
<1>7. ASSUME NEW k \in 1..C, NEW i \in 1..NSamples
      PROVE  body[G * W + ((k - 1) * NSamples + i)] = ChannelWords(a, cs[k])[i]
  <2> DEFINE x == (k - 1) * NSamples
  <2> DEFINE y == C * NSamples
  <2>1. x \in Nat /\ y \in Nat /\ x + NSamples <= y
    <3>1. k - 1 \in Nat /\ k - 1 < C
      OBVIOUS
    <3>2. QED
      BY <3>1, Constants, Products
  <2>2. rest[x + i] = ChannelWords(a, cs[k])[i]
    BY <1>2
  <2> HIDE DEF x, y
  <2>3. x + i \in 1..Len(rest)
    BY <1>2, <2>1, Constants DEF y
  <2>4. body[Len(front) + (x + i)] = rest[x + i]
    BY <1>3, <2>3 DEF IsJoin
  <2>5. QED
    BY <2>2, <2>4 DEF x
<1>8. QED
  BY <1>5, <1>6, <1>7 DEF Laid, T, body, rest

LEMMA CreatedIsLaid ==
  ASSUME NEW a \in Acquisitions
  PROVE  LET C == Cardinality(Active(a)) IN
         /\ C \in Nat
         /\ Laid(a, Ascending(Active(a)), C, CreatePEvent(a).body)
         /\ CreatePEvent(a).size = HeadLen + Len(CreatePEvent(a).body)
<1> DEFINE T == WordsOf(a)
<1> DEFINE W == GroupLen(a)
<1> DEFINE G == Cardinality(a.groups)
<1> DEFINE C == Cardinality(Active(a))
<1> DEFINE gs == Ascending(a.groups)
<1> DEFINE cs == Ascending(Active(a))
<1> DEFINE heads == [i \in DOMAIN gs |-> GroupWords(a, gs[i])]
<1> DEFINE blocks == [i \in DOMAIN cs |-> ChannelWords(a, cs[i])]
<1>1. /\ G \in Nat /\ DOMAIN gs = 1..G /\ \A k \in 1..G : gs[k] \in Groups
      /\ Active(a) \in SUBSET Channels
  BY GroupsAscend, ActiveAre
<1>2. /\ C \in Nat /\ DOMAIN cs = 1..C /\ cs \in [1..C -> Channels]
  BY <1>1, ChannelsAscend
<1> HIDE DEF gs, cs, G, C
<1>3. /\ W \in Nat /\ heads \in [1..G -> Seq(T)] /\ \A k \in 1..G : Len(heads[k]) = W
      /\ \A k \in 1..G : heads[k][1] = GroupHead(gs[k], a.tr) /\ heads[k][W] = TimeTag(a, gs[k])
      /\ W > 1
  <2>0. W \in Nat /\ W > 1
    BY Constants DEF GroupLen
  <2>1. ASSUME NEW k \in 1..G
        PROVE  /\ heads[k] = GroupWords(a, gs[k])
               /\ heads[k] \in Seq(T) /\ Len(heads[k]) = W
               /\ heads[k][1] = GroupHead(gs[k], a.tr) /\ heads[k][W] = TimeTag(a, gs[k])
    <3>1. heads[k] = GroupWords(a, gs[k]) /\ gs[k] \in Groups
      BY <1>1
    <3>2. QED
      BY <3>1, GroupWordsAre
  <2>2. heads = [k \in 1..G |-> heads[k]]
    BY <1>1
  <2> HIDE DEF heads
  <2>3. heads \in [1..G -> Seq(T)]
    BY <2>1, <2>2
  <2>4. QED
    BY <2>0, <2>1, <2>3
<1>4. /\ blocks \in [1..C -> Seq(T)] /\ \A k \in 1..C : blocks[k] = ChannelWords(a, cs[k])
  <2>1. ASSUME NEW k \in 1..C PROVE blocks[k] \in Seq(T) /\ blocks[k] = ChannelWords(a, cs[k])
    <3>1. blocks[k] = ChannelWords(a, cs[k]) /\ cs[k] \in Channels
      BY <1>2
    <3>2. QED
      BY <3>1, ChannelWordsAre
  <2>2. blocks = [k \in 1..C |-> blocks[k]]
    BY <1>2
  <2> HIDE DEF blocks
  <2>3. QED
    BY <2>1, <2>2
<1>5. /\ CreatePEvent(a).body = FlattenSeq(heads) \o FlattenSeq(blocks)
      /\ CreatePEvent(a).size = HeadLen + Len(CreatePEvent(a).body)
  BY DEF CreatePEvent, gs, cs
<1> HIDE DEF heads, blocks, W
<1>6. /\ FlattenSeq(heads) \in Seq(T) /\ Len(FlattenSeq(heads)) = G * W
      /\ \A k \in 1..G : \A i \in 1..W : FlattenSeq(heads)[(k - 1) * W + i] = heads[k][i]
  <2>1. IsFlat(T, G, W, heads, FlattenSeq(heads))
    BY <1>1, <1>3, FlattenBlocks
  <2>2. QED
    BY <2>1 DEF IsFlat
<1>7. \A k \in 1..G : /\ FlattenSeq(heads)[(k - 1) * W + 1] = GroupHead(gs[k], a.tr)
                      /\ FlattenSeq(heads)[(k - 1) * W + W] = TimeTag(a, gs[k])
  <2>1. 1 \in 1..W /\ W \in 1..W
    BY <1>3
  <2> DEFINE h == FlattenSeq(heads)
  <2>2. ASSUME NEW k \in 1..G
        PROVE  h[(k - 1) * W + 1] = GroupHead(gs[k], a.tr) /\ h[(k - 1) * W + W] = TimeTag(a, gs[k])
    <3>1. h[(k - 1) * W + 1] = heads[k][1] /\ h[(k - 1) * W + W] = heads[k][W]
      BY <1>6, <2>1
    <3> HIDE DEF h
    <3>2. QED
      BY <1>3, <3>1
  <2>3. QED
    BY <2>2
<1> DEFINE h == FlattenSeq(heads)
<1> DEFINE r == FlattenSeq(blocks)
<1>8. Laid(a, cs, C, h \o r)
  <2>1. /\ h \in Seq(T) /\ Len(h) = G * W
        /\ \A k \in 1..G : /\ h[(k - 1) * W + 1] = GroupHead(gs[k], a.tr)
                           /\ h[(k - 1) * W + W] = TimeTag(a, gs[k])
    BY <1>6, <1>7
  <2> HIDE DEF h
  <2>2. QED
    BY <1>2, <1>4, <2>1, BodyIsLaid DEF gs, G, W, T
<1>9. QED
  BY <1>2, <1>5, <1>8 DEF cs, C


-----------------------------------------------------------------------------
(* Where the groups end. *)

Lows(ev) == \A i \in Nat : At(ev, i).low \in Nat

LEMMA EndsExist ==
  ASSUME NEW ev, NEW k \in Nat, Lows(ev)
  PROVE  /\ GroupEnds(ev, k) \in [0..k -> Nat] /\ GroupEnds(ev, k)[0] = 0
         /\ \A i \in 1..k : GroupEnds(ev, k)[i]
                              = GroupEnds(ev, k)[i - 1] + At(ev, GroupEnds(ev, k)[i - 1] + 1).low
<1> DEFINE low == [i \in Nat |-> At(ev, i).low]
<1> DEFINE P(e) == e = [i \in 0..k |-> IF i = 0 THEN 0 ELSE e[i - 1] + At(ev, e[i - 1] + 1).low]
<1> DEFINE e == GroupEnds(ev, k)
<1>1. e = CHOOSE x : P(x)
  BY DEF GroupEnds
<1>2. \E x : P(x)
  <2> DEFINE F == [i \in 1..k |-> [x \in Nat |-> x + At(ev, x + 1).low]]
  <2>1. \A x \in Nat : x + At(ev, x + 1).low \in Nat
    BY DEF Lows
  <2>2. F \in [1..k -> [Nat -> Nat]]
    BY <2>1
  <2>3. PICK g \in [0..k -> Nat] : g[0] = 0 /\ \A i \in 1..k : g[i] = F[i][g[i - 1]]
    <3> HIDE DEF F
    <3>1. 0 \in Nat
      OBVIOUS
    <3>2. Walks(Nat, k, 0, F) # {}
      BY ONLY <2>2, <3>1, Recursion
    <3>3. QED
      BY <3>2 DEF Walks
  <2>4. ASSUME NEW i \in 1..k PROVE g[i] = g[i - 1] + At(ev, g[i - 1] + 1).low
    <3>1. g[i - 1] \in Nat
      OBVIOUS
    <3>2. QED
      BY <2>3, <3>1
  <2>5. \A i \in 0..k : g[i] = IF i = 0 THEN 0 ELSE g[i - 1] + At(ev, g[i - 1] + 1).low
    BY <2>3, <2>4
  <2>6. P(g)
    BY <2>5
  <2>7. QED
    BY <2>6
<1>3. P(e)
  BY <1>1, <1>2
<1> HIDE DEF e
<1>4. DOMAIN e = 0..k /\ \A i \in 0..k : e[i] = IF i = 0 THEN 0 ELSE e[i - 1] + At(ev, e[i - 1] + 1).low
  BY <1>3
<1>5. e[0] = 0 /\ \A i \in 1..k : e[i] = e[i - 1] + At(ev, e[i - 1] + 1).low
  <2>1. ASSUME NEW i \in 1..k PROVE e[i] = e[i - 1] + At(ev, e[i - 1] + 1).low
    <3>1. i \in 0..k /\ i # 0
      OBVIOUS
    <3>2. QED
      BY <1>4, <3>1
  <2>2. 0 \in 0..k
    OBVIOUS
  <2>3. QED
    BY <1>4, <2>1, <2>2
<1>6. \A i \in 0..k : e[i] \in Nat
  <2> DEFINE N == {i \in 0..k : e[i] \in Nat}
  <2>1. 0 \in N
    BY <1>5
  <2>2. ASSUME NEW i \in 1..k, i - 1 \in N PROVE i \in N
    <3>1. e[i - 1] \in Nat /\ e[i] = e[i - 1] + At(ev, e[i - 1] + 1).low
      BY <1>5, <2>2
    <3>2. At(ev, e[i - 1] + 1).low \in Nat
      BY <3>1 DEF Lows
    <3>3. QED
      BY <3>1, <3>2
  <2>3. \A i \in 0..k : i \in N
    <3> HIDE DEF N
    <3>1. QED
      BY <2>1, <2>2, StepByStep
  <2>4. QED
    BY <2>3
<1>7. e \in [0..k -> Nat]
  <2>1. e = [i \in 0..k |-> e[i]]
    BY <1>3, <1>4
  <2>2. QED
    BY <1>6, <2>1
<1>8. QED
  BY <1>5, <1>7 DEF e

(* Each group is found where it begins.                                    *)
Heads(ev, G, W) == \A j \in 1..G : At(ev, (j - 1) * W + 1).low = W

LEMMA EndsAt ==
  ASSUME NEW ev, NEW k \in Nat, Lows(ev), NEW G \in Nat, NEW W \in Nat, Heads(ev, G, W),
         NEW l \in 0..k, l <= G
  PROVE  GroupEnds(ev, k)[l] = l * W
<1> DEFINE e == GroupEnds(ev, k)
<1> DEFINE N == {j \in 0..k : j <= G => e[j] = j * W}
<1>1. e[0] = 0 /\ \A i \in 1..k : e[i] = e[i - 1] + At(ev, e[i - 1] + 1).low
  BY EndsExist
<1> HIDE DEF e
<1>2. 0 \in N
  <2>1. 0 * W = 0
    OBVIOUS
  <2>2. QED
    BY <1>1, <2>1
<1>3. ASSUME NEW j \in 1..k, j - 1 \in N PROVE j \in N
  <2> SUFFICES ASSUME j <= G PROVE e[j] = j * W
    OBVIOUS
  <2>1. e[j - 1] = (j - 1) * W /\ j \in 1..G
    BY <1>3
  <2>2. e[j] = (j - 1) * W + W
    BY <1>1, <2>1 DEF Heads
  <2>3. j - 1 \in Nat /\ (j - 1) + 1 = j
    OBVIOUS
  <2>4. j * W = (j - 1) * W + W
    BY <2>3, Products
  <2>5. QED
    BY <2>2, <2>4
<1>4. \A j \in 0..k : j \in N
  <2> HIDE DEF N
  <2>1. QED
    BY <1>2, <1>3, StepByStep
<1>5. QED
  BY <1>4 DEF e

LEMMA EndsGoOn ==
  ASSUME NEW ev, NEW k \in Nat, Lows(ev), NEW j \in 0..k
  PROVE  /\ GroupEnds(ev, k)[k] >= GroupEnds(ev, k)[j]
         /\ At(ev, GroupEnds(ev, k)[j] + 1).low = 0 => GroupEnds(ev, k)[k] = GroupEnds(ev, k)[j]
<1> DEFINE e == GroupEnds(ev, k)
<1> DEFINE Good(i) == e[i] >= e[j] /\ (At(ev, e[j] + 1).low = 0 => e[i] = e[j])
<1> DEFINE N == {i \in 0..k : i >= j => Good(i)}
<1>1. e \in [0..k -> Nat] /\ \A i \in 1..k : e[i] = e[i - 1] + At(ev, e[i - 1] + 1).low
  BY EndsExist
<1> HIDE DEF e
<1>2. 0 \in N
  <2>1. e[0] \in Nat
    BY <1>1
  <2>2. QED
    BY <2>1
<1>3. ASSUME NEW i \in 1..k, i - 1 \in N PROVE i \in N
  <2>0. e[i] \in Nat /\ e[i - 1] \in Nat /\ e[j] \in Nat
    BY <1>1
  <2>1. CASE i <= j
    BY <2>0, <2>1
  <2>2. CASE i > j
    <3>1. /\ e[i - 1] >= e[j]
          /\ At(ev, e[j] + 1).low = 0 => e[i - 1] = e[j]
      <4>1. i - 1 >= j
        BY <2>2
      <4> HIDE DEF Good
      <4>2. Good(i - 1)
        BY <1>3, <4>1
      <4>3. QED
        BY <4>2 DEF Good
    <3>2. e[i] = e[i - 1] + At(ev, e[i - 1] + 1).low /\ At(ev, e[i - 1] + 1).low \in Nat
      BY <1>1, <2>0 DEF Lows
    <3>3. e[i] >= e[j]
      BY <2>0, <3>1, <3>2
    <3>4. At(ev, e[j] + 1).low = 0 => e[i] = e[j]
      BY <2>0, <3>1, <3>2
    <3>5. QED
      BY <3>3, <3>4
  <2>3. QED
    BY <2>1, <2>2
<1>4. \A i \in 0..k : i \in N
  <2> HIDE DEF N
  <2>1. QED
    BY <1>2, <1>3, StepByStep
<1>5. k \in N
  <2> HIDE DEF N
  <2>1. QED
    BY <1>4
<1>6. Good(k)
  <2> HIDE DEF Good
  <2>1. QED
    BY <1>5
<1>7. QED
  BY <1>6 DEF e


-----------------------------------------------------------------------------
(* What is read in an event. *)

\* What is behind the end of an event.
Beyond(a) == Word(a.low, <<"beyond">>, FALSE)

WordsAround(a) == WordsOf(a) \cup {Beyond(a)}

LEMMA AtWord ==
  ASSUME NEW a \in Acquisitions, NEW ev, ev.body \in Seq(WordsAround(a)), ev.low = a.low
  PROVE  \A i \in Nat : At(ev, i) \in WordsAround(a) /\ At(ev, i).low \in Nat
<1> SUFFICES ASSUME NEW i \in Nat PROVE At(ev, i) \in WordsAround(a) /\ At(ev, i).low \in Nat
  OBVIOUS
<1>1. At(ev, i) \in WordsAround(a)
  <2>1. Beyond(a) \in WordsAround(a)
    BY DEF WordsAround
  <2>2. CASE i \in DOMAIN ev.body
    BY <2>2 DEF At
  <2>3. CASE i \notin DOMAIN ev.body
    <3>1. At(ev, i) = Beyond(a)
      BY <2>3 DEF At, Beyond
    <3>2. QED
      BY <2>1, <3>1
  <2>4. QED
    BY <2>2, <2>3
<1>2. Beyond(a).low \in Nat
  BY DEF Beyond, Word, Acquisitions
<1>3. QED
  BY <1>1, <1>2, WordsLow DEF WordsAround

LEMMA LenGroup ==
  ASSUME NEW a \in Acquisitions
  PROVE  /\ GroupLen(a) \in Nat /\ GroupLen(a) > 1
         /\ \A g : GroupHead(g, a.tr).low = GroupLen(a) /\ GroupHead(g, a.tr).tr = a.tr
         /\ \A g : TimeTag(a, g).id = TriggerTag(a, g)
  BY Constants DEF GroupLen, GroupHead, TimeTag, Word

\* What is read in an event that is laid out like this.
Reads(a, cs, C, ev) ==
  LET W == GroupLen(a)
      G == Cardinality(a.groups)
      gs == Ascending(a.groups)
  IN  /\ \A k \in 1..G : /\ At(ev, (k - 1) * W + 1) = GroupHead(gs[k], a.tr)
                         /\ At(ev, (k - 1) * W + W) = TimeTag(a, gs[k])
      /\ \A k \in 1..C : KthChannel(ev, G * W, k) = ChannelWords(a, cs[k])

LEMMA LaidReads ==
  ASSUME NEW a \in Acquisitions, NEW C \in Nat, NEW cs, NEW ev, Laid(a, cs, C, ev.body)
  PROVE  ev.body \in Seq(WordsAround(a)) /\ Reads(a, cs, C, ev)
<1> DEFINE body == ev.body
<1> DEFINE W == GroupLen(a)
<1> DEFINE G == Cardinality(a.groups)
<1> DEFINE gs == Ascending(a.groups)
<1>1. W \in Nat /\ W > 1 /\ G \in Nat
  BY LenGroup, GroupsAscend
<1>2. body \in Seq(WordsOf(a)) /\ Len(body) = G * W + C * NSamples
  BY DEF Laid
<1>3. \A k \in 1..G : body[(k - 1) * W + 1] = GroupHead(gs[k], a.tr) /\ body[(k - 1) * W + W] = TimeTag(a, gs[k])
  BY DEF Laid
<1>4. \A k \in 1..C : \A i \in 1..NSamples : body[G * W + ((k - 1) * NSamples + i)] = ChannelWords(a, cs[k])[i]
  BY DEF Laid
<1>5. DOMAIN body = 1..(G * W + C * NSamples)
  BY <1>2
<1>6. G * W \in Nat /\ C * NSamples \in Nat
  BY <1>1, Constants, Products
<1>7. \A i \in 1..(G * W + C * NSamples) : At(ev, i) = body[i]
  BY <1>5 DEF At
<1> HIDE DEF body, W, G, gs
<1>8. ASSUME NEW k \in 1..G
      PROVE  At(ev, (k - 1) * W + 1) = GroupHead(gs[k], a.tr) /\ At(ev, (k - 1) * W + W) = TimeTag(a, gs[k])
  <2> DEFINE x == (k - 1) * W
  <2> DEFINE y == G * W
  <2> DEFINE z == C * NSamples
  <2>1. k - 1 \in Nat /\ k - 1 < G
    BY <1>1
  <2>2. x \in Nat /\ x + W <= y
    BY <1>1, <2>1, Products
  <2>3. body[x + 1] = GroupHead(gs[k], a.tr) /\ body[x + W] = TimeTag(a, gs[k])
    BY <1>3
  <2>4. y \in Nat /\ z \in Nat /\ \A i \in 1..(y + z) : At(ev, i) = body[i]
    BY <1>6, <1>7
  <2> HIDE DEF x, y, z
  <2>5. x + 1 \in 1..(y + z) /\ x + W \in 1..(y + z)
    BY <1>1, <2>2, <2>4
  <2>6. At(ev, x + 1) = body[x + 1] /\ At(ev, x + W) = body[x + W]
    BY <2>4, <2>5
  <2>7. QED
    BY <2>3, <2>6 DEF x
<1>9. ASSUME NEW k \in 1..C
      PROVE  KthChannel(ev, G * W, k) = ChannelWords(a, cs[k])
  <2> DEFINE x == (k - 1) * NSamples
  <2> DEFINE y == G * W
  <2> DEFINE z == C * NSamples
  <2>1. k - 1 \in Nat /\ k - 1 < C
    OBVIOUS
  <2>2. x \in Nat /\ x + NSamples <= z
    BY <2>1, Constants, Products
  <2>3. y \in Nat /\ z \in Nat /\ \A i \in 1..(y + z) : At(ev, i) = body[i]
    BY <1>6, <1>7
  <2>4. KthChannel(ev, y, k) = [i \in 1..NSamples |-> At(ev, (y + x) + i)]
    BY DEF KthChannel, ChannelAt
  <2>5. \A i \in 1..NSamples : body[y + (x + i)] = ChannelWords(a, cs[k])[i]
    BY <1>4
  <2> HIDE DEF x, y, z
  <2>6. ASSUME NEW i \in 1..NSamples PROVE At(ev, (y + x) + i) = ChannelWords(a, cs[k])[i]
    <3>1. (y + x) + i = y + (x + i) /\ y + (x + i) \in 1..(y + z)
      BY <2>2, <2>3, Constants
    <3>2. QED
      BY <2>3, <2>5, <3>1
  <2> DEFINE s == ChannelWords(a, cs[k])
  <2>7. s = [i \in 1..NSamples |-> s[i]]
    BY DEF ChannelWords
  <2> HIDE DEF s
  <2>8. [i \in 1..NSamples |-> At(ev, (y + x) + i)] = [i \in 1..NSamples |-> s[i]]
    BY <2>6 DEF s
  <2>9. QED
    BY <2>4, <2>7, <2>8 DEF s, y
<1>10. body \in Seq(WordsAround(a))
  BY <1>2 DEF WordsAround
<1>11. QED
  BY <1>8, <1>9, <1>10 DEF Reads, W, G, gs, body

(* Where UnpackEvent and apply_zero_suppression get to in the groups.      *)
LEMMA GroupsFound ==
  ASSUME NEW a \in Acquisitions, NEW ev, ev.body \in Seq(WordsAround(a)), ev.low = a.low,
         \A k \in 1..Cardinality(a.groups) :
           At(ev, (k - 1) * GroupLen(a) + 1) = GroupHead(Ascending(a.groups)[k], a.tr),
         NEW n \in Nat, NEW j \in 0..n, j <= Cardinality(a.groups)
  PROVE  GroupEnds(ev, n)[j] = j * GroupLen(a)
<1> DEFINE W == GroupLen(a)
<1> DEFINE G == Cardinality(a.groups)
<1>1. W \in Nat /\ G \in Nat
  BY LenGroup, GroupsAscend
<1>2. Heads(ev, G, W)
  BY LenGroup DEF Heads
<1>3. Lows(ev)
  BY AtWord DEF Lows
<1> HIDE DEF W
<1>4. GroupEnds(ev, n)[j] = j * W
  BY <1>1, <1>2, <1>3, EndsAt
<1>5. QED
  BY <1>4 DEF W


(* Behind the groups, and behind each channel, is the next one: what       *)
(* UnpackEvent and FillRawEvent make of an event with the channels S.      *)
Holds(a, S, ev) ==
  /\ ev.groups = a.groups /\ Stored(ev) = S
  /\ Laid(a, Ascending(S), Cardinality(S), ev.body)
  /\ ev.size = HeadLen + Len(ev.body) /\ ev.low = a.low

SamplesOf(a, c) == [i \in 1..NSamples |-> <<a.n, a.b, "sample", c, i>>]

Board(a, S, ev, sn) ==
  [board |-> ev.board, sn |-> sn, algr |-> ev.algr, active |-> ev.active, accepted |-> ev.accepted,
   ttt |-> [g \in {GroupOf(c) : c \in S} |-> TriggerTag(a, g)],
   samples |-> [c \in S |-> SamplesOf(a, c)]]

LEMMA IdsOfChannel ==
  ASSUME NEW a \in Acquisitions, NEW c \in Channels
  PROVE  Ids(ChannelWords(a, c)) = SamplesOf(a, c)
<1>1. DOMAIN ChannelWords(a, c) = 1..NSamples
  BY DEF ChannelWords
<1>2. \A i \in 1..NSamples : ChannelWords(a, c)[i].id = <<a.n, a.b, "sample", c, i>>
  BY DEF ChannelWords, Word
<1>3. QED
  BY <1>1, <1>2 DEF Ids, SamplesOf

LEMMA GroupsLen ==
  ASSUME NEW a \in Acquisitions
  PROVE  Len(Ascending(a.groups)) = Cardinality(a.groups)
<1>1. a.groups \subseteq 0..(NGroups - 1) /\ NGroups - 1 \in Nat
  BY Bounds DEF Acquisitions
<1>2. /\ Cardinality(a.groups) \in Nat
      /\ Ascending(a.groups) \in [1..Cardinality(a.groups) -> a.groups]
  BY <1>1, AscendingIs
<1>3. QED
  BY <1>2

LEMMA UnpackedTags ==
  ASSUME NEW a \in Acquisitions, NEW S \in SUBSET Active(a), NEW ev, Holds(a, S, ev), NEW old,
         NEW g \in a.groups
  PROVE  Unpack(ev, old).ttt[g] = TriggerTag(a, g)
<1> DEFINE W == GroupLen(a)
<1> DEFINE G == Cardinality(a.groups)
<1> DEFINE gs == Ascending(a.groups)
<1> DEFINE e == GroupEnds(ev, G)
<1>1. PICK i \in 1..G : gs[i] = g
  BY GroupsAscend
<1>2. (CHOOSE k \in DOMAIN gs : gs[k] = g) = i
  BY <1>1, GroupsAscend
<1>3. Len(gs) = G /\ g \in Groups
  BY GroupsLen, GroupsAscend
<1>4. Unpack(ev, old).ttt[g]
        = At(ev, e[i - 1] + 2 + (IF At(ev, e[i - 1] + 1).tr THEN TrLen ELSE 0)).id
  <2> HIDE DEF G
  <2>1. ev.groups = a.groups
    BY DEF Holds
  <2>2. QED
    BY <1>2, <1>3, <2>1 DEF Unpack
<1>5. /\ ev.body \in Seq(WordsAround(a)) /\ Reads(a, Ascending(S), Cardinality(S), ev)
      /\ ev.low = a.low
  <2>1. Cardinality(S) \in Nat
    BY ChannelsAscend, ActiveAre
  <2>2. QED
    BY <2>1, LaidReads DEF Holds
<1>6. \A k \in 1..G : At(ev, (k - 1) * W + 1) = GroupHead(gs[k], a.tr) /\ At(ev, (k - 1) * W + W) = TimeTag(a, gs[k])
  BY <1>5 DEF Reads
<1>7. G \in Nat /\ i - 1 \in 0..G /\ i - 1 <= G
  BY GroupsAscend
<1>8. e[i - 1] = (i - 1) * W
  BY <1>5, <1>6, <1>7, GroupsFound
<1>9. W = 2 + (IF a.tr THEN TrLen ELSE 0)
  BY Constants DEF GroupLen
<1>10. At(ev, e[i - 1] + 1).tr = a.tr
  <2>1. At(ev, (i - 1) * W + 1) = GroupHead(gs[i], a.tr)
    BY <1>6
  <2>2. GroupHead(gs[i], a.tr).tr = a.tr
    BY LenGroup
  <2> HIDE DEF e, W
  <2>3. QED
    BY <1>8, <2>1, <2>2
<1>11. e[i - 1] + 2 + (IF a.tr THEN TrLen ELSE 0) = (i - 1) * W + W
  <2> DEFINE x == (i - 1) * W
  <2> DEFINE t == IF a.tr THEN TrLen ELSE 0
  <2>1. i - 1 \in Nat /\ W \in Nat
    BY LenGroup
  <2>2. x \in Nat /\ W \in Nat /\ t \in Nat /\ W = 2 + t /\ e[i - 1] = x
    BY <1>8, <1>9, <2>1, Products, Constants
  <2> HIDE DEF x, t, W, e
  <2>3. e[i - 1] + 2 + t = x + W
    BY <2>2
  <2>4. QED
    BY <2>3 DEF x, t
<1>12. QED
  BY <1>1, <1>4, <1>6, <1>10, <1>11, LenGroup

LEMMA UnpackedChannels ==
  ASSUME NEW a \in Acquisitions, NEW S \in SUBSET Active(a), NEW ev, Holds(a, S, ev), NEW old
  PROVE  /\ Unpack(ev, old).fits
         /\ \A c \in S : Unpack(ev, old).samples[c] = SamplesOf(a, c)
<1> DEFINE W == GroupLen(a)
<1> DEFINE G == Cardinality(a.groups)
<1> DEFINE C == Cardinality(S)
<1> DEFINE gs == Ascending(a.groups)
<1> DEFINE cs == Ascending(S)
<1> DEFINE start == GroupEnds(ev, G)[G]
<1>1. /\ C \in Nat /\ cs \in [1..C -> S] /\ S \subseteq Channels
      /\ \A i, j \in 1..C : cs[i] = cs[j] => i = j
      /\ \A c \in S : \E k \in 1..C : cs[k] = c
  BY ChannelsAscend, ActiveAre
<1>2. G \in Nat /\ Len(gs) = G
  BY GroupsLen, GroupsAscend
<1>3. ev.body \in Seq(WordsAround(a)) /\ Reads(a, cs, C, ev) /\ ev.low = a.low
  BY <1>1, LaidReads DEF Holds
<1>4. start = G * W
  <2>1. \A k \in 1..G : At(ev, (k - 1) * W + 1) = GroupHead(gs[k], a.tr)
    BY <1>3 DEF Reads
  <2>2. G \in 0..G /\ G <= G
    BY <1>2
  <2>3. QED
    BY <1>2, <1>3, <2>1, <2>2, GroupsFound
<1>5. Unpack(ev, old).fits
  <2>1. ev.groups = a.groups /\ Stored(ev) = S /\ ev.size = HeadLen + Len(ev.body)
        /\ Len(ev.body) = G * W + C * NSamples
    BY DEF Holds, Laid
  <2>2. Len(cs) = C
    BY <1>1
  <2> HIDE DEF G, C, W
  <2>3. Unpack(ev, old).fits = (HeadLen + start + C * NSamples = ev.size)
    BY <1>2, <2>1, <2>2 DEF Unpack
  <2>4. G * W \in Nat /\ C * NSamples \in Nat
    BY <1>1, <1>2, LenGroup, Constants, Products DEF W
  <2> DEFINE x == G * W
  <2> DEFINE y == C * NSamples
  <2>5. /\ x \in Nat /\ y \in Nat /\ start = x /\ ev.size = HeadLen + (x + y)
        /\ Unpack(ev, old).fits = (HeadLen + start + y = ev.size)
    BY <1>4, <2>1, <2>3, <2>4
  <2> HIDE DEF x, y, start
  <2>6. HeadLen + x + y = HeadLen + (x + y)
    BY <2>5 DEF HeadLen
  <2>7. QED
    BY <2>5, <2>6
<1>6. ASSUME NEW c \in S
      PROVE  Unpack(ev, old).samples[c] = SamplesOf(a, c)
  <2>1. PICK k \in 1..C : cs[k] = c
    BY <1>1
  <2>2. (CHOOSE j \in DOMAIN cs : cs[j] = c) = k
    BY <1>1, <2>1
  <2>3. Unpack(ev, old).samples[c] = Ids(KthChannel(ev, start, k))
    <3>1. ev.groups = a.groups /\ Stored(ev) = S /\ c \in Channels
      BY <1>1 DEF Holds
    <3> HIDE DEF G
    <3>2. QED
      BY <1>2, <2>2, <3>1 DEF Unpack
  <2>4. KthChannel(ev, G * W, k) = ChannelWords(a, c)
    BY <1>3, <2>1 DEF Reads
  <2>5. KthChannel(ev, start, k) = ChannelWords(a, c)
    BY <1>4, <2>4
  <2>6. Unpack(ev, old).samples[c] = Ids(ChannelWords(a, c))
    BY <2>3, <2>5
  <2>7. QED
    BY <1>1, <2>6, IdsOfChannel
<1>7. QED
  BY <1>5, <1>6

LEMMA BoardIsHeld ==
  ASSUME NEW a \in Acquisitions, NEW S \in SUBSET Active(a), NEW ev, Holds(a, S, ev), NEW old, NEW sn
  PROVE  Unpack(ev, old).fits /\ FillBoard(Unpack(ev, old), sn) = Board(a, S, ev, sn)
<1> DEFINE u == Unpack(ev, old)
<1>1. /\ u.board = ev.board /\ u.mode = ev.mode /\ u.algr = ev.algr
      /\ u.active = ev.active /\ u.accepted = ev.accepted
  BY DEF Unpack
<1>2. u.fits /\ \A c \in S : u.samples[c] = SamplesOf(a, c)
  BY UnpackedChannels
<1>3. \A g \in a.groups : u.ttt[g] = TriggerTag(a, g)
  BY UnpackedTags
<1> HIDE DEF u
<1>4. Stored(u) = S
  BY <1>1 DEF Holds, Stored
<1>5. \A g \in {GroupOf(c) : c \in S} : g \in a.groups
  BY ActiveAre
<1>6. [g \in {GroupOf(c) : c \in S} |-> u.ttt[g]] = [g \in {GroupOf(c) : c \in S} |-> TriggerTag(a, g)]
  BY <1>3, <1>5
<1>7. [c \in S |-> u.samples[c]] = [c \in S |-> SamplesOf(a, c)]
  BY <1>2
<1>8. FillBoard(u, sn) = Board(a, S, ev, sn)
  BY <1>1, <1>4, <1>6, <1>7 DEF FillBoard, Board
<1>9. QED
  BY <1>2, <1>8 DEF u


-----------------------------------------------------------------------------
(* Which channels have signal. *)

Scanned == NSamples - Zs1Head - Zs1Tail

LEMMA ScannedType == Scanned \in Nat
  BY ZsAssumption DEF Scanned

\* n samples in a row are off, behind the first p that are scanned.
InRow(off, p, n) == \A j \in 1..n : off[Zs1Head + p + j]

\* The loop's counters after i samples.
ScanState == [run : Nat, longest : Nat]
ScanStep(was, isOff) ==
  LET run == IF isOff THEN was.run + 1 ELSE 0
  IN  [run |-> run, longest |-> IF run > was.longest THEN run ELSE was.longest]

Scans(s) ==
  {f \in [0..Scanned -> ScanState] :
     /\ f[0] = [run |-> 0, longest |-> 0]
     /\ \A i \in 1..Scanned : f[i] = ScanStep(f[i - 1], s[Zs1Head + i].off)
     /\ Scan(s) = f[Scanned]}

LEMMA ScanExists ==
  ASSUME NEW s
  PROVE  Scans(s) # {}
<1> DEFINE m == Scanned
<1> DEFINE base == [run |-> 0, longest |-> 0]
<1> DEFINE P(f) == f = [i \in 0..m |-> IF i = 0 THEN base ELSE ScanStep(f[i - 1], s[Zs1Head + i].off)]
<1>0. m \in Nat
  BY ScannedType
<1>1. Scan(s) = (CHOOSE f : P(f))[m]
  BY DEF Scan, ScanStep, Scanned
<1> HIDE DEF m
<1>2. base \in ScanState /\ \A was \in ScanState : \A o : ScanStep(was, o) \in ScanState
  BY DEF ScanState, ScanStep
<1> HIDE DEF base
<1> DEFINE F == [i \in 1..m |-> [was \in ScanState |-> ScanStep(was, s[Zs1Head + i].off)]]
<1>3. F \in [1..m -> [ScanState -> ScanState]]
  BY <1>2
<1>4. PICK g \in [0..m -> ScanState] : g[0] = base /\ \A i \in 1..m : g[i] = F[i][g[i - 1]]
  <2> HIDE DEF F
  <2>1. Walks(ScanState, m, base, F) # {}
    BY ONLY <1>0, <1>2, <1>3, Recursion
  <2>2. QED
    BY <2>1 DEF Walks
<1>5. ASSUME NEW i \in 1..m PROVE g[i] = ScanStep(g[i - 1], s[Zs1Head + i].off)
  <2>1. g[i - 1] \in ScanState
    BY <1>0
  <2>2. QED
    BY <1>4, <2>1
<1>6. \A i \in 0..m : g[i] = IF i = 0 THEN base ELSE ScanStep(g[i - 1], s[Zs1Head + i].off)
  BY <1>0, <1>4, <1>5
<1>7. P(g)
  BY <1>4, <1>6
<1>8. PICK f : P(f) /\ Scan(s) = f[m]
  BY <1>1, <1>7
<1>9. DOMAIN f = 0..m /\ \A i \in 0..m : f[i] = IF i = 0 THEN base ELSE ScanStep(f[i - 1], s[Zs1Head + i].off)
  BY <1>8
<1>10. f[0] = base /\ \A i \in 1..m : f[i] = ScanStep(f[i - 1], s[Zs1Head + i].off)
  <2>1. 0 \in 0..m
    BY <1>0
  <2>2. ASSUME NEW i \in 1..m PROVE f[i] = ScanStep(f[i - 1], s[Zs1Head + i].off)
    <3>1. i \in 0..m /\ i # 0
      BY <1>0
    <3>2. QED
      BY <1>9, <3>1
  <2>3. QED
    BY <1>9, <2>1, <2>2
<1>11. \A i \in 0..m : f[i] \in ScanState
  <2> DEFINE N == {i \in 0..m : f[i] \in ScanState}
  <2>1. 0 \in N
    BY <1>0, <1>2, <1>10
  <2>2. ASSUME NEW i \in 1..m, i - 1 \in N PROVE i \in N
    BY <1>2, <1>10, <2>2
  <2> HIDE DEF N
  <2>3. \A i \in 0..m : i \in N
    BY <1>0, <2>1, <2>2, StepByStep
  <2>4. QED
    BY <2>3 DEF N
<1>12. f \in [0..m -> ScanState]
  <2>1. f = [i \in 0..m |-> f[i]]
    BY <1>8, <1>9
  <2>2. QED
    BY <1>11, <2>1
<1>13. QED
  BY <1>8, <1>10, <1>12 DEF Scans, m, base

(* The counters say how long the row at the end is, and the longest.       *)
RowsAre(off, i, run, longest) ==
  /\ run \in 0..i /\ InRow(off, i - run, run)
  /\ run = i \/ ~off[Zs1Head + (i - run)]
  /\ longest \in run..i
  /\ \E p \in 0..(i - longest) : InRow(off, p, longest)
  /\ \A n \in 0..i : \A p \in 0..(i - n) : InRow(off, p, n) => n <= longest

LEMMA RowsBegin ==
  ASSUME NEW off PROVE RowsAre(off, 0, 0, 0)
  BY DEF RowsAre, InRow

LEMMA RowsGrow ==
  ASSUME NEW off, NEW i \in Nat, NEW run \in Nat, NEW longest \in Nat, RowsAre(off, i, run, longest),
         off[Zs1Head + (i + 1)]
  PROVE  RowsAre(off, i + 1, run + 1, IF run + 1 > longest THEN run + 1 ELSE longest)
<1> DEFINE h == Zs1Head
<1> DEFINE l == IF run + 1 > longest THEN run + 1 ELSE longest
<1>0. h \in Nat /\ l \in Nat
  BY Constants
<1>1. /\ run \in 0..i /\ \A j \in 1..run : off[h + (i - run) + j]
      /\ run = i \/ ~off[h + (i - run)]
      /\ longest \in run..i
      /\ \E p \in 0..(i - longest) : InRow(off, p, longest)
      /\ \A n \in 0..i : \A p \in 0..(i - n) : InRow(off, p, n) => n <= longest
  BY DEF RowsAre, InRow
<1>2. run + 1 \in 0..(i + 1) /\ (i + 1) - (run + 1) = i - run
  BY <1>1
<1>3. \A j \in 1..(run + 1) : off[h + (i - run) + j]
  <2> SUFFICES ASSUME NEW j \in 1..(run + 1) PROVE off[h + (i - run) + j]
    OBVIOUS
  <2>1. CASE j <= run
    BY <1>1, <2>1
  <2>2. CASE j = run + 1
    <3>1. h + (i - run) + j = h + (i + 1)
      BY <1>0, <1>1, <2>2
    <3>2. QED
      BY <3>1
  <2>3. QED
    BY <2>1, <2>2
<1>4. InRow(off, (i + 1) - (run + 1), run + 1)
  BY <1>2, <1>3 DEF InRow
<1>5. run + 1 = i + 1 \/ ~off[h + ((i + 1) - (run + 1))]
  BY <1>1, <1>2
<1>6. l \in (run + 1)..(i + 1)
  BY <1>1
<1>7. \E p \in 0..((i + 1) - l) : InRow(off, p, l)
  <2>1. CASE run + 1 > longest
    <3>1. l = run + 1 /\ (i + 1) - (run + 1) \in 0..((i + 1) - l)
      BY <1>1, <2>1
    <3>2. QED
      BY <1>4, <3>1
  <2>2. CASE ~(run + 1 > longest)
    <3>1. PICK p \in 0..(i - longest) : InRow(off, p, longest)
      BY <1>1
    <3>2. l = longest /\ p \in 0..((i + 1) - l)
      BY <1>1, <2>2
    <3>3. QED
      BY <3>1, <3>2
  <2>3. QED
    BY <2>1, <2>2
<1>8. ASSUME NEW n \in 0..(i + 1), NEW p \in 0..((i + 1) - n), InRow(off, p, n) PROVE n <= l
  <2>1. CASE p + n <= i
    <3>1. n \in 0..i /\ p \in 0..(i - n)
      BY <2>1
    <3>2. n <= longest
      BY <1>1, <1>8, <3>1
    <3>3. QED
      BY <1>1, <3>2
  <2>2. CASE p + n = i + 1
    <3> SUFFICES ASSUME n > run + 1 PROVE FALSE
      BY <1>1
    <3>1. run # i /\ i - run > p /\ (i - run) - p \in 1..n
      BY <1>1, <2>2
    <3>2. off[h + p + ((i - run) - p)]
      BY <1>8, <3>1 DEF InRow
    <3>3. h + p + ((i - run) - p) = h + (i - run)
      BY <1>0, <1>1
    <3>4. QED
      BY <1>1, <3>1, <3>2, <3>3
  <2>3. QED
    BY <2>1, <2>2
<1> HIDE DEF l
<1>9. RowsAre(off, i + 1, run + 1, l)
  BY <1>2, <1>4, <1>5, <1>6, <1>7, <1>8 DEF RowsAre
<1>10. QED
  BY <1>9 DEF l

LEMMA RowsBreak ==
  ASSUME NEW off, NEW i \in Nat, NEW run \in Nat, NEW longest \in Nat, RowsAre(off, i, run, longest),
         ~off[Zs1Head + (i + 1)]
  PROVE  RowsAre(off, i + 1, 0, longest)
<1> DEFINE h == Zs1Head
<1>0. h \in Nat
  BY Constants
<1>1. /\ longest \in 0..i
      /\ \E p \in 0..(i - longest) : InRow(off, p, longest)
      /\ \A n \in 0..i : \A p \in 0..(i - n) : InRow(off, p, n) => n <= longest
  BY DEF RowsAre
<1>2. InRow(off, (i + 1) - 0, 0) /\ ~off[h + ((i + 1) - 0)]
  BY DEF InRow
<1>3. \E p \in 0..((i + 1) - longest) : InRow(off, p, longest)
  <2>1. PICK p \in 0..(i - longest) : InRow(off, p, longest)
    BY <1>1
  <2>2. p \in 0..((i + 1) - longest)
    BY <1>1
  <2>3. QED
    BY <2>1, <2>2
<1>4. ASSUME NEW n \in 0..(i + 1), NEW p \in 0..((i + 1) - n), InRow(off, p, n) PROVE n <= longest
  <2>1. CASE p + n <= i
    <3>1. n \in 0..i /\ p \in 0..(i - n)
      BY <2>1
    <3>2. QED
      BY <1>1, <1>4, <3>1
  <2>2. CASE p + n = i + 1
    <3> SUFFICES ASSUME n > 0 PROVE FALSE
      BY <1>1
    <3>1. n \in 1..n /\ h + p + n = h + (i + 1)
      BY <1>0, <2>2
    <3>2. off[h + p + n]
      BY <1>4, <3>1 DEF InRow
    <3>3. QED
      BY <3>1, <3>2
  <2>3. QED
    BY <2>1, <2>2
<1>5. 0 \in 0..(i + 1) /\ longest \in 0..(i + 1)
  BY <1>1
<1>6. QED
  BY <1>2, <1>3, <1>4, <1>5 DEF RowsAre

\* The words s have the samples off.
Samples(s, off) == \A i \in 1..NSamples : off[i] \in BOOLEAN /\ s[i].off = off[i]

(* Algorithm 1's loop finds a row of samples if there is one.              *)
LEMMA ScanFinds ==
  ASSUME NEW s, NEW off, Samples(s, off)
  PROVE  RowsAre(off, Scanned, Scan(s).run, Scan(s).longest) /\ Scan(s) \in ScanState
<1> DEFINE m == Scanned
<1>1. PICK f \in [0..m -> ScanState] :
        /\ f[0] = [run |-> 0, longest |-> 0]
        /\ \A i \in 1..m : f[i] = ScanStep(f[i - 1], s[Zs1Head + i].off)
        /\ Scan(s) = f[m]
  BY ScanExists DEF Scans
<1>2. m \in Nat /\ \A i \in 1..m : Zs1Head + i \in 1..NSamples
  BY ZsAssumption DEF Scanned
<1> HIDE DEF m
<1> DEFINE N == {i \in 0..m : RowsAre(off, i, f[i].run, f[i].longest)}
<1>3. 0 \in N
  <2>1. f[0].run = 0 /\ f[0].longest = 0
    BY <1>1
  <2>2. QED
    BY <1>2, <2>1, RowsBegin
<1>4. ASSUME NEW i \in 1..m, i - 1 \in N PROVE i \in N
  <2> DEFINE run == f[i - 1].run
  <2> DEFINE longest == f[i - 1].longest
  <2>0. f[i - 1] \in ScanState
    BY <1>2
  <2>1. run \in Nat /\ longest \in Nat /\ i - 1 \in Nat /\ (i - 1) + 1 = i
    BY <2>0 DEF ScanState
  <2>2. RowsAre(off, i - 1, run, longest)
    BY <1>4
  <2>3. f[i] = ScanStep(f[i - 1], off[Zs1Head + i])
    BY <1>1, <1>2 DEF Samples
  <2>4. CASE off[Zs1Head + i]
    <3>1. f[i].run = run + 1 /\ f[i].longest = IF run + 1 > longest THEN run + 1 ELSE longest
      BY <2>3, <2>4 DEF ScanStep
    <3> HIDE DEF run, longest
    <3>2. RowsAre(off, (i - 1) + 1, run + 1, IF run + 1 > longest THEN run + 1 ELSE longest)
      BY <2>1, <2>2, <2>4, RowsGrow
    <3>3. QED
      BY <2>1, <3>1, <3>2
  <2>5. CASE ~off[Zs1Head + i]
    <3>1. f[i].run = 0 /\ f[i].longest = longest
      BY <2>1, <2>3, <2>5 DEF ScanStep
    <3> HIDE DEF run, longest
    <3>2. RowsAre(off, (i - 1) + 1, 0, longest)
      BY <2>1, <2>2, <2>5, RowsBreak
    <3>3. QED
      BY <2>1, <3>1, <3>2
  <2>6. QED
    BY <2>4, <2>5
<1>5. \A i \in 0..m : i \in N
  <2> HIDE DEF N
  <2>1. QED
    BY <1>2, <1>3, <1>4, StepByStep
<1>6. RowsAre(off, m, f[m].run, f[m].longest) /\ f[m] \in ScanState
  BY <1>2, <1>5
<1>7. QED
  BY <1>1, <1>6 DEF m

LEMMA ScanTells ==
  ASSUME NEW s, NEW off, Samples(s, off)
  PROVE  Scan(s).longest >= Zs1NAbove
           <=> \E i \in Zs1Head..(NSamples - Zs1Tail - Zs1NAbove) : \A j \in 1..Zs1NAbove : off[i + j]
<1> DEFINE l == Scan(s).longest
<1> DEFINE r == Scan(s).run
<1> DEFINE m == Scanned
<1> DEFINE k == Zs1NAbove
<1> DEFINE h == Zs1Head
<1>0. h \in Nat /\ k \in Nat /\ m \in Nat /\ NSamples - Zs1Tail - k = h + m - k
      /\ NSamples \in Nat /\ Zs1Tail \in Nat
  BY Constants, ScannedType DEF Scanned
<1>1. l \in Nat /\ RowsAre(off, m, r, l)
  BY ScanFinds DEF ScanState
<1>2. /\ l \in 0..m
      /\ \E p \in 0..(m - l) : InRow(off, p, l)
      /\ \A n \in 0..m : \A p \in 0..(m - n) : InRow(off, p, n) => n <= l
  BY <1>0, <1>1 DEF RowsAre
<1> HIDE DEF l, m, r
<1>3. ASSUME l >= k PROVE \E i \in h..(h + m - k) : \A j \in 1..k : off[i + j]
  <2>1. PICK p \in 0..(m - l) : InRow(off, p, l)
    BY <1>2
  <2>2. h + p \in h..(h + m - k) /\ \A j \in 1..k : j \in 1..l
    BY <1>0, <1>2, <1>3
  <2>3. \A j \in 1..k : off[(h + p) + j]
    BY <2>1, <2>2 DEF InRow
  <2>4. QED
    BY <2>2, <2>3
<1>4. ASSUME NEW i \in h..(h + m - k), \A j \in 1..k : off[i + j] PROVE l >= k
  <2>1. i - h \in 0..(m - k) /\ k \in 0..m /\ h + (i - h) = i
    BY <1>0
  <2>2. InRow(off, i - h, k)
    BY <1>4, <2>1 DEF InRow
  <2>3. QED
    BY <1>0, <1>2, <2>1, <2>2
<1>5. l >= k <=> \E i \in h..(h + m - k) : \A j \in 1..k : off[i + j]
  BY <1>3, <1>4
<1>6. QED
  BY <1>0, <1>5 DEF l

LEMMA SignalFound ==
  ASSUME NEW a \in Acquisitions, NEW c \in Active(a), NEW algr
  PROVE  Accepts(algr, ChannelWords(a, c)) <=> HasSignal(algr, a.samples[c])
<1> DEFINE s == ChannelWords(a, c)
<1> DEFINE off == a.samples[c]
<1>1. Samples(s, off)
  <2>1. a.samples[c] \in [1..NSamples -> BOOLEAN]
    BY ActiveAre
  <2>2. \A i \in 1..NSamples : s[i].off = off[i]
    BY DEF ChannelWords, Word
  <2>3. QED
    BY <2>1, <2>2 DEF Samples
<1> HIDE DEF s, off
<1>2. (\E i \in 1..Zs1Head : s[i].off) <=> (\E i \in 1..Zs1Head : off[i])
  <2>1. \A i \in 1..Zs1Head : i \in 1..NSamples
    BY ZsAssumption
  <2>2. \A i \in 1..Zs1Head : s[i].off = off[i]
    BY <1>1, <2>1 DEF Samples
  <2>3. QED
    BY <2>2
<1>3. {i \in 1..NSamples - Zs2Tail : s[i].off} = {i \in 1..NSamples - Zs2Tail : off[i]}
  <2>1. \A i \in 1..NSamples - Zs2Tail : i \in 1..NSamples
    BY ZsAssumption
  <2>2. \A i \in 1..NSamples - Zs2Tail : s[i].off = off[i]
    BY <1>1, <2>1 DEF Samples
  <2>3. QED
    BY <2>2
<1>4. CASE algr = 1
  <2>1. Accepts(algr, s) <=> Algorithm1(s)
    BY <1>4 DEF Accepts
  <2>2. Algorithm1(s) <=> HasSignal(1, off)
    BY <1>1, <1>2, ScanTells DEF Algorithm1, HasSignal
  <2>3. QED
    BY <1>4, <2>1, <2>2 DEF s, off
<1>5. CASE algr = 2
  <2>1. Accepts(algr, s) <=> Algorithm2(s)
    BY <1>5 DEF Accepts
  <2> DEFINE X == {i \in 1..NSamples - Zs2Tail : s[i].off}
  <2> DEFINE Y == {i \in 1..NSamples - Zs2Tail : off[i]}
  <2>2. Algorithm2(s) <=> HasSignal(2, off)
    <3>1. Algorithm2(s) <=> Cardinality(X) >= Zs2MinRms
      BY DEF Algorithm2
    <3>2. HasSignal(2, off) <=> Cardinality(Y) >= Zs2MinRms
      BY DEF HasSignal
    <3>3. X = Y
      BY <1>3
    <3> HIDE DEF X, Y
    <3>4. QED
      BY <3>1, <3>2, <3>3
  <2>3. QED
    BY <1>5, <2>1, <2>2 DEF s, off
<1>6. CASE algr # 1 /\ algr # 2
  BY <1>6 DEF Accepts, HasSignal
<1>7. QED
  BY <1>4, <1>5, <1>6


-----------------------------------------------------------------------------
(* Zero suppression. *)

(* ZSUP counts no group too few, and none too many if there is no gap.     *)
LEMMA GroupsCounted ==
  ASSUME NEW a \in Acquisitions
  PROVE  /\ GroupCount(a.groups) \in Nat /\ Cardinality(a.groups) \in 0..GroupCount(a.groups)
         /\ ~HasGap(a.groups) => GroupCount(a.groups) = Cardinality(a.groups)
<1> DEFINE S == {i \in Groups : \E g \in a.groups : g >= i}
<1>1. S \subseteq 0..(NGroups - 1) /\ NGroups - 1 \in Nat
  BY Bounds
<1>2. a.groups \subseteq S
  <2>1. \A g \in a.groups : g \in Groups /\ g \in Int
    BY Bounds DEF Acquisitions
  <2>2. QED
    BY <2>1
<1>3. ASSUME ~HasGap(a.groups) PROVE S = a.groups
  <2>1. ASSUME NEW i \in S, i \notin a.groups PROVE FALSE
    <3>1. PICK g \in a.groups : g >= i
      OBVIOUS
    <3>2. i \in Groups \ a.groups /\ g \in Groups /\ g # i /\ i \in Int /\ g \in Int
      BY <1>2, <2>1, Bounds
    <3>3. i < g
      BY <3>1, <3>2
    <3>4. QED
      BY <1>3, <3>2, <3>3 DEF HasGap
  <2>2. QED
    BY <1>2, <2>1
<1>4. GroupCount(a.groups) = Cardinality(S)
  BY DEF GroupCount
<1> HIDE DEF S
<1>5. IsFiniteSet(S) /\ Cardinality(S) \in Nat
  BY <1>1, BoundedFinite
<1>6. Cardinality(a.groups) \in Nat /\ Cardinality(a.groups) <= Cardinality(S)
  BY <1>2, <1>5, GroupsAscend, FS_Subset
<1>7. QED
  BY <1>3, <1>4, <1>5, <1>6

Begin(ev) == GroupEnds(ev, GroupCount(ev.groups))[GroupCount(ev.groups)]

(* What create_pevent makes, as ZSUP reads it.                             *)
LEMMA CreatedReads ==
  ASSUME NEW a \in Acquisitions
  PROVE  LET ev == CreatePEvent(a)
             C == Cardinality(Active(a))
             G == Cardinality(a.groups)
         IN  /\ C \in Nat /\ G \in Nat
             /\ ev.body \in Seq(WordsAround(a)) /\ Reads(a, Ascending(Active(a)), C, ev)
             /\ ev.low = a.low
             /\ ev.groups = a.groups /\ ev.active = Active(a) /\ ev.accepted = Active(a)
             /\ Begin(ev) \in Nat /\ Begin(ev) >= G * GroupLen(a)
             /\ a.low = 0 \/ ~HasGap(a.groups) => Begin(ev) = G * GroupLen(a)
<1> DEFINE ev == CreatePEvent(a)
<1> DEFINE C == Cardinality(Active(a))
<1> DEFINE G == Cardinality(a.groups)
<1> DEFINE W == GroupLen(a)
<1> DEFINE K == GroupCount(a.groups)
<1> DEFINE gs == Ascending(a.groups)
<1> DEFINE cs == Ascending(Active(a))
<1>1. C \in Nat /\ G \in Nat /\ Laid(a, cs, C, ev.body)
  BY CreatedIsLaid, GroupsAscend
<1>2. ev.body \in Seq(WordsAround(a)) /\ Reads(a, cs, C, ev)
  <2> HIDE DEF ev, C, cs
  <2>1. QED
    BY <1>1, LaidReads
<1>3. ev.groups = a.groups /\ ev.active = Active(a) /\ ev.accepted = Active(a) /\ ev.low = a.low
  BY DEF CreatePEvent
<1>4. K \in Nat /\ G \in 0..K /\ (~HasGap(a.groups) => K = G)
  BY GroupsCounted
<1>5. Begin(ev) = GroupEnds(ev, K)[K]
  BY <1>3 DEF Begin
<1> HIDE DEF ev, K
<1>6. Lows(ev)
  BY <1>2, <1>3, AtWord DEF Lows
<1>7. GroupEnds(ev, K)[G] = G * W
  <2>1. \A k \in 1..G : At(ev, (k - 1) * W + 1) = GroupHead(gs[k], a.tr)
    BY <1>2 DEF Reads
  <2>2. QED
    BY <1>2, <1>3, <1>4, <2>1, GroupsFound
<1>8. /\ GroupEnds(ev, K)[K] >= GroupEnds(ev, K)[G]
      /\ At(ev, GroupEnds(ev, K)[G] + 1).low = 0 => GroupEnds(ev, K)[K] = GroupEnds(ev, K)[G]
  BY <1>4, <1>6, EndsGoOn
<1>9. Begin(ev) \in Nat
  <2>1. GroupEnds(ev, K) \in [0..K -> Nat]
    BY <1>4, <1>6, EndsExist
  <2>2. QED
    BY <1>4, <1>5, <2>1
<1>10. ASSUME a.low = 0 PROVE At(ev, G * W + 1).low = 0
  <2>1. CASE C > 0
    <3>1. 1 \in 1..C
      BY <1>1, <2>1
    <3>2. KthChannel(ev, G * W, 1) = ChannelWords(a, cs[1])
      BY <1>2, <3>1 DEF Reads
    <3>3. 1 \in 1..NSamples
      BY Constants
    <3>4. KthChannel(ev, G * W, 1)[1] = At(ev, G * W + 0 + 1)
      <4>1. (1 - 1) * NSamples = 0
        BY Constants
      <4>2. QED
        BY <3>3, <4>1 DEF KthChannel, ChannelAt
    <3>5. ChannelWords(a, cs[1])[1].low = 0
      BY <1>10, <3>3 DEF ChannelWords, Word
    <3>6. G * W + 0 + 1 = G * W + 1
      BY <1>1, LenGroup, Products
    <3>7. QED
      BY <3>2, <3>4, <3>5, <3>6
  <2>2. CASE C = 0
    <3> DEFINE x == G * W
    <3>1. x \in Nat /\ Len(ev.body) = x + 0 * NSamples /\ ev.body \in Seq(WordsOf(a))
      BY <1>1, <2>2, LenGroup, Products DEF Laid
    <3>2. 0 * NSamples = 0
      BY Constants
    <3> HIDE DEF x
    <3>3. x + 1 \notin DOMAIN ev.body
      BY <3>1, <3>2
    <3>4. At(ev, x + 1) = Word(ev.low, <<"beyond">>, FALSE)
      BY <3>3 DEF At
    <3>5. At(ev, x + 1).low = 0
      BY <1>3, <1>10, <3>4 DEF Word
    <3>6. QED
      BY <3>5 DEF x
  <2>3. QED
    BY <1>1, <2>1, <2>2
<1>11. ASSUME a.low = 0 \/ ~HasGap(a.groups) PROVE Begin(ev) = G * W
  <2>1. CASE ~HasGap(a.groups)
    BY <1>4, <1>5, <1>7, <2>1
  <2>2. CASE a.low = 0
    BY <1>5, <1>7, <1>8, <1>10, <2>2
  <2>3. QED
    BY <1>11, <2>1, <2>2
<1>12. QED
  BY <1>1, <1>2, <1>3, <1>5, <1>7, <1>8, <1>9, <1>11 DEF ev, C, G, W


(* The channels that apply_zero_suppression finds signal in, and those it  *)
(* writes, by their places in the input.                                   *)
Good(algr, ev) == {k \in DOMAIN Ascending(ev.active) : Accepts(algr, KthChannel(ev, Begin(ev), k))}
Written(mode, algr, ev) == IF mode = 1 THEN DOMAIN Ascending(ev.active) ELSE Good(algr, ev)
AcceptedIn(algr, ev) == {Ascending(ev.active)[k] : k \in Good(algr, ev)}
HeadOf(ev) == [i \in 1..Begin(ev) |-> At(ev, i)]
BlocksOf(mode, algr, ev) ==
  [j \in DOMAIN Ascending(Written(mode, algr, ev)) |->
     KthChannel(ev, Begin(ev), Ascending(Written(mode, algr, ev))[j])]

LEMMA SuppressIs ==
  ASSUME NEW a \in Acquisitions, NEW mode, NEW algr
  PROVE  LET ev == CreatePEvent(a)
             z == Suppress(mode, algr, ev)
         IN  /\ z.board = a.b /\ z.groups = a.groups /\ z.mode = mode /\ z.algr = algr
             /\ z.active = Active(a) /\ z.accepted = AcceptedIn(algr, ev)
             /\ z.body = HeadOf(ev) \o FlattenSeq(BlocksOf(mode, algr, ev))
             /\ z.size = HeadLen + Len(z.body) /\ z.low = a.low
<1> DEFINE ev == CreatePEvent(a)
<1> DEFINE z == Suppress(mode, algr, ev)
<1> DEFINE body == HeadOf(ev) \o FlattenSeq(BlocksOf(mode, algr, ev))
<1> DEFINE acc == AcceptedIn(algr, ev)
<1>1. z = [ev EXCEPT !.mode = mode, !.algr = algr, !.accepted = acc,
                     !.size = HeadLen + Len(body), !.body = body]
  BY DEF Suppress, Begin, Good, AcceptedIn, Written, HeadOf, BlocksOf
<1> HIDE DEF body, acc
<1>2. ev.board = a.b /\ ev.groups = a.groups /\ ev.active = Active(a)
      /\ DOMAIN ev = {"board", "groups", "mode", "algr", "auto", "active", "accepted", "size", "body", "low"}
      /\ ev.low = a.low
  BY DEF CreatePEvent
<1> HIDE DEF ev
<1>3. z.board = a.b /\ z.groups = a.groups /\ z.active = Active(a) /\ z.low = a.low
  BY <1>1, <1>2
<1>4. z.mode = mode /\ z.algr = algr /\ z.accepted = acc /\ z.size = HeadLen + Len(body) /\ z.body = body
  BY <1>1, <1>2
<1>5. z.size = HeadLen + Len(z.body)
  BY <1>4
<1>6. QED
  BY <1>3, <1>4, <1>5 DEF body, acc, ev

Signals(a, algr) == {c \in Active(a) : HasSignal(algr, a.samples[c])}
WrittenOf(a, mode, algr) == IF mode = 1 THEN Active(a) ELSE Signals(a, algr)

(* If ZSUP found the first channel, the channels with signal are accepted, *)
(* and those that should be kept are where Level1 looks for them.          *)
LEMMA GoodAre ==
  ASSUME NEW a \in Acquisitions, NEW algr,
         Begin(CreatePEvent(a)) = Cardinality(a.groups) * GroupLen(a)
  PROVE  LET C == Cardinality(Active(a))
             cs == Ascending(Active(a))
         IN  /\ Good(algr, CreatePEvent(a)) = {k \in 1..C : HasSignal(algr, a.samples[cs[k]])}
             /\ \A k \in 1..C : KthChannel(CreatePEvent(a), Begin(CreatePEvent(a)), k) = ChannelWords(a, cs[k])
<1> DEFINE ev == CreatePEvent(a)
<1> DEFINE C == Cardinality(Active(a))
<1> DEFINE cs == Ascending(Active(a))
<1>1. Reads(a, cs, C, ev) /\ ev.active = Active(a)
  BY CreatedReads
<1>2. \A k \in 1..C : KthChannel(ev, Begin(ev), k) = ChannelWords(a, cs[k])
  BY <1>1 DEF Reads
<1>3. DOMAIN cs = 1..C /\ cs \in [1..C -> Active(a)] /\ Active(a) \subseteq Channels
  BY ChannelsAscend, ActiveAre
<1> HIDE DEF ev, C, cs
<1>4. ASSUME NEW k \in 1..C
      PROVE  Accepts(algr, KthChannel(ev, Begin(ev), k)) <=> HasSignal(algr, a.samples[cs[k]])
  <2>1. cs[k] \in Active(a)
    BY <1>3
  <2>2. Accepts(algr, ChannelWords(a, cs[k])) <=> HasSignal(algr, a.samples[cs[k]])
    BY <2>1, SignalFound
  <2>3. QED
    BY <1>2, <2>2
<1>5. Good(algr, ev) = {k \in 1..C : Accepts(algr, KthChannel(ev, Begin(ev), k))}
  BY <1>1, <1>3 DEF Good, cs
<1>6. Good(algr, ev) = {k \in 1..C : HasSignal(algr, a.samples[cs[k]])}
  BY <1>4, <1>5
<1>7. QED
  BY <1>2, <1>6 DEF ev, C, cs

ChannelBlocks(a, S) == [j \in 1..Cardinality(S) |-> ChannelWords(a, Ascending(S)[j])]

LEMMA PlacesAscend ==
  ASSUME NEW C \in Nat, NEW K, K \subseteq 1..C
  PROVE  /\ Cardinality(K) \in Nat
         /\ Ascending(K) \in [1..Cardinality(K) -> K]
         /\ \A i, j \in 1..Cardinality(K) : i < j => Ascending(K)[i] < Ascending(K)[j]
         /\ \A k \in K : \E j \in 1..Cardinality(K) : Ascending(K)[j] = k
<1>1. K \subseteq 0..C
  OBVIOUS
<1>2. QED
  BY <1>1, AscendingIs

(* Some of the channels are in the order they were in.                     *)
Picks(R, K) == {Ascending(R)[k] : k \in K}

LEMMA Picked ==
  ASSUME NEW R \in SUBSET Channels, NEW C \in Nat, C = Cardinality(R), NEW K, K \subseteq 1..C, NEW S, S = Picks(R, K)
  PROVE  LET n == Cardinality(S) IN
         /\ n \in Nat /\ n = Cardinality(K) /\ Ascending(K) \in [1..n -> K]
         /\ Ascending(S) = [j \in 1..n |-> Ascending(R)[Ascending(K)[j]]]
<1> DEFINE cs == Ascending(R)
<1> DEFINE n == Cardinality(K)
<1> DEFINE kept == Ascending(K)
<1> DEFINE t == [j \in 1..n |-> cs[kept[j]]]
<1>1. /\ C \in Nat /\ cs \in [1..C -> R] /\ \A i, j \in 1..C : i < j => cs[i] < cs[j]
  BY ChannelsAscend
<1>2. S = {cs[k] : k \in K}
  BY DEF Picks
<1> HIDE DEF cs
<1>4. /\ n \in Nat /\ kept \in [1..n -> K]
      /\ \A i, j \in 1..n : i < j => kept[i] < kept[j]
      /\ \A k \in K : \E j \in 1..n : kept[j] = k
  <2>2. /\ Cardinality(K) \in Nat
        /\ Ascending(K) \in [1..Cardinality(K) -> K]
        /\ \A i, j \in 1..Cardinality(K) : i < j => Ascending(K)[i] < Ascending(K)[j]
        /\ \A k \in K : \E j \in 1..Cardinality(K) : Ascending(K)[j] = k
    BY PlacesAscend
  <2>3. QED
    BY <2>2
<1> HIDE DEF n, kept
<1>5. \A j \in 1..n : kept[j] \in K /\ kept[j] \in 1..C /\ t[j] = cs[kept[j]] /\ t[j] \in S
  BY <1>2, <1>4
<1>6. t \in [1..n -> S]
  BY <1>5
<1> HIDE DEF t
<1>7. t \in Increasing(n, S)
  <2>1. ASSUME NEW i \in 1..n, NEW j \in 1..n, i < j PROVE t[i] < t[j]
    BY <1>1, <1>4, <1>5, <2>1
  <2>2. QED
    BY <1>6, <2>1 DEF Increasing
<1>8. \A x \in S : \E j \in 1..n : t[j] = x
  <2> SUFFICES ASSUME NEW x \in S PROVE \E j \in 1..n : t[j] = x
    OBVIOUS
  <2>1. PICK k \in K : cs[k] = x
    BY <1>2
  <2>2. PICK j \in 1..n : kept[j] = k
    BY <1>4
  <2>3. QED
    BY <1>5, <2>1, <2>2
<1>9. S \subseteq 0..(NGroups * ChPerGroup - 1) /\ NGroups * ChPerGroup - 1 \in Nat
  BY <1>1, <1>2, Bounds
<1>10. Cardinality(S) = n /\ Ascending(S) = t
  BY <1>4, <1>7, <1>8, <1>9, AscendingIsOnly
<1>11. QED
  BY <1>4, <1>10 DEF n, kept, cs, t

LEMMA WrittenAre ==
  ASSUME NEW a \in Acquisitions, NEW mode, NEW algr,
         Begin(CreatePEvent(a)) = Cardinality(a.groups) * GroupLen(a)
  PROVE  LET ev == CreatePEvent(a)
             S == WrittenOf(a, mode, algr)
             n == Cardinality(S)
         IN  /\ AcceptedIn(algr, ev) = Signals(a, algr)
             /\ n \in Nat /\ S \subseteq Active(a) /\ Ascending(S) \in [1..n -> Channels]
             /\ BlocksOf(mode, algr, ev) = ChannelBlocks(a, S)
<1> DEFINE ev == CreatePEvent(a)
<1> DEFINE S == WrittenOf(a, mode, algr)
<1> DEFINE C == Cardinality(Active(a))
<1> DEFINE cs == Ascending(Active(a))
<1> DEFINE good == Good(algr, ev)
<1> DEFINE K == Written(mode, algr, ev)
<1> DEFINE n == Cardinality(S)
<1> DEFINE kept == Ascending(K)
<1>1. /\ C \in Nat /\ DOMAIN cs = 1..C /\ cs \in [1..C -> Active(a)] /\ Active(a) \subseteq Channels
      /\ \A c \in Active(a) : \E k \in 1..C : cs[k] = c
  BY ChannelsAscend, ActiveAre
<1>2. /\ good = {k \in 1..C : HasSignal(algr, a.samples[cs[k]])}
      /\ \A k \in 1..C : KthChannel(ev, Begin(ev), k) = ChannelWords(a, cs[k])
  BY GoodAre
<1>3. ev.active = Active(a)
  BY DEF CreatePEvent
<1>4. K = IF mode = 1 THEN 1..C ELSE good
  BY <1>1, <1>3 DEF Written
<1>5. BlocksOf(mode, algr, ev) = [j \in DOMAIN kept |-> KthChannel(ev, Begin(ev), kept[j])]
  BY DEF BlocksOf
<1> HIDE DEF ev, C, cs, good, K
<1>6. {cs[k] : k \in good} = Signals(a, algr)
  BY <1>1, <1>2 DEF Signals
<1>7. {cs[k] : k \in K} = S
  <2>1. CASE mode = 1
    <3>1. {cs[k] : k \in 1..C} = Active(a)
      BY <1>1
    <3>2. QED
      BY <1>4, <2>1, <3>1 DEF WrittenOf
  <2>2. CASE mode # 1
    BY <1>4, <1>6, <2>2 DEF WrittenOf
  <2>3. QED
    BY <2>1, <2>2
<1>8. K \subseteq 1..C
  BY <1>2, <1>4
<1>9. /\ n \in Nat /\ kept \in [1..n -> K]
      /\ Ascending(S) = [j \in 1..n |-> cs[kept[j]]]
  <2> HIDE DEF S, n, kept
  <2>1. Active(a) \in SUBSET Channels /\ C = Cardinality(Active(a)) /\ S = Picks(Active(a), K)
    BY <1>1, <1>7 DEF cs, C, Picks
  <2>2. /\ Cardinality(S) \in Nat /\ Ascending(K) \in [1..Cardinality(S) -> K]
        /\ Ascending(S) = [j \in 1..Cardinality(S) |-> Ascending(Active(a))[Ascending(K)[j]]]
    BY <1>1, <1>8, <2>1, Picked
  <2>3. QED
    BY <2>2 DEF n, kept, cs
<1>10. S \subseteq Active(a)
  BY DEF WrittenOf, Signals
<1> HIDE DEF n, kept, S
<1>11. \A j \in 1..n : kept[j] \in 1..C /\ Ascending(S)[j] = cs[kept[j]]
  BY <1>8, <1>9
<1>12. Ascending(S) \in [1..n -> Channels]
  <2>1. \A j \in 1..n : cs[kept[j]] \in Channels
    BY <1>1, <1>11
  <2>2. QED
    BY <1>9, <2>1
<1>13. BlocksOf(mode, algr, ev) = ChannelBlocks(a, S)
  <2>1. \A j \in 1..n : KthChannel(ev, Begin(ev), kept[j]) = ChannelWords(a, Ascending(S)[j])
    BY <1>2, <1>11
  <2>2. DOMAIN kept = 1..n
    BY <1>9
  <2>3. QED
    BY <1>5, <2>1, <2>2 DEF ChannelBlocks, n
<1>14. QED
  BY <1>3, <1>6, <1>9, <1>10, <1>12, <1>13 DEF ev, S, n, cs, good, AcceptedIn

LEMMA SuppressHolds ==
  ASSUME NEW a \in Acquisitions, NEW mode \in 0..1, NEW algr,
         Begin(CreatePEvent(a)) = Cardinality(a.groups) * GroupLen(a)
  PROVE  /\ Holds(a, WrittenOf(a, mode, algr), Suppress(mode, algr, CreatePEvent(a)))
         /\ Suppress(mode, algr, CreatePEvent(a)).accepted = Signals(a, algr)
<1> DEFINE ev == CreatePEvent(a)
<1> DEFINE z == Suppress(mode, algr, ev)
<1> DEFINE T == WordsOf(a)
<1> DEFINE W == GroupLen(a)
<1> DEFINE G == Cardinality(a.groups)
<1> DEFINE S == WrittenOf(a, mode, algr)
<1> DEFINE n == Cardinality(S)
<1> DEFINE gs == Ascending(a.groups)
<1> DEFINE h == HeadOf(ev)
<1> DEFINE blocks == BlocksOf(mode, algr, ev)
<1>1. /\ z.groups = a.groups /\ z.mode = mode /\ z.active = Active(a)
      /\ z.accepted = AcceptedIn(algr, ev)
      /\ z.body = h \o FlattenSeq(blocks) /\ z.size = HeadLen + Len(z.body) /\ z.low = a.low
  BY SuppressIs
<1>2. /\ AcceptedIn(algr, ev) = Signals(a, algr)
      /\ n \in Nat /\ S \subseteq Active(a) /\ Ascending(S) \in [1..n -> Channels]
      /\ blocks = [j \in 1..n |-> ChannelWords(a, Ascending(S)[j])]
  <2>1. /\ AcceptedIn(algr, ev) = Signals(a, algr)
        /\ n \in Nat /\ S \subseteq Active(a) /\ Ascending(S) \in [1..n -> Channels]
        /\ blocks = ChannelBlocks(a, S)
    BY WrittenAre
  <2>2. QED
    BY <2>1 DEF ChannelBlocks
<1>3. Stored(z) = S
  BY <1>1, <1>2 DEF Stored, WrittenOf
<1>4. G \in Nat /\ W \in Nat /\ W > 1 /\ Begin(ev) = G * W /\ G * W \in Nat
  BY GroupsAscend, LenGroup, Products
<1>5. h \in Seq(T) /\ Len(h) = G * W /\ \A i \in 1..(G * W) : h[i] = At(ev, i)
  <2> DEFINE x == G * W
  <2> DEFINE y == Cardinality(Active(a)) * NSamples
  <2>1. x \in Nat /\ y \in Nat /\ ev.body \in Seq(T) /\ Len(ev.body) = x + y
    <3>1. Cardinality(Active(a)) \in Nat /\ Laid(a, Ascending(Active(a)), Cardinality(Active(a)), ev.body)
      BY CreatedIsLaid
    <3>2. QED
      BY <1>4, <3>1, Constants, Products DEF Laid
  <2>2. h = [i \in 1..x |-> At(ev, i)]
    BY <1>4 DEF HeadOf
  <2> HIDE DEF x, y, ev, T, h
  <2>3. ASSUME NEW i \in 1..x PROVE At(ev, i) \in T
    <3>1. i \in DOMAIN ev.body /\ ev.body[i] \in T
      BY <2>1
    <3>2. QED
      BY <3>1 DEF At
  <2>4. h \in Seq(T) /\ Len(h) = x /\ \A i \in 1..x : h[i] = At(ev, i)
    BY <2>1, <2>2, <2>3
  <2>5. QED
    BY <2>4 DEF x
<1>6. ASSUME NEW k \in 1..G
      PROVE  h[(k - 1) * W + 1] = GroupHead(gs[k], a.tr) /\ h[(k - 1) * W + W] = TimeTag(a, gs[k])
  <2> DEFINE x == (k - 1) * W
  <2> DEFINE y == G * W
  <2>1. k - 1 \in Nat /\ k - 1 < G
    BY <1>4
  <2> HIDE DEF h, W, G
  <2>2. x \in Nat /\ x + W <= y
    BY <1>4, <2>1, Products
  <2>3. At(ev, x + 1) = GroupHead(gs[k], a.tr) /\ At(ev, x + W) = TimeTag(a, gs[k])
    BY CreatedReads DEF Reads, W, G
  <2>4. y \in Nat /\ \A i \in 1..y : h[i] = At(ev, i)
    BY <1>4, <1>5
  <2> HIDE DEF x, y
  <2>5. x + 1 \in 1..y /\ x + W \in 1..y
    BY <1>4, <2>2, <2>4
  <2>6. QED
    BY <2>3, <2>4, <2>5 DEF x
<1>7. blocks \in [1..n -> Seq(T)] /\ \A k \in 1..n : blocks[k] = ChannelWords(a, Ascending(S)[k])
  <2>1. ASSUME NEW k \in 1..n PROVE ChannelWords(a, Ascending(S)[k]) \in Seq(T)
    <3>1. Ascending(S)[k] \in Channels
      BY <1>2
    <3>2. QED
      BY <3>1, ChannelWordsAre
  <2> HIDE DEF blocks, S, n
  <2>2. QED
    BY <1>2, <2>1
<1>8. Laid(a, Ascending(S), n, h \o FlattenSeq(blocks))
  <2> HIDE DEF h, blocks, S, n
  <2>1. QED
    BY <1>2, <1>5, <1>6, <1>7, BodyIsLaid
<1>9. QED
  BY <1>1, <1>2, <1>3, <1>8 DEF Holds


(* If ZSUP took the channels for groups, the event is longer than what     *)
(* UnpackEvent finds in it.                                                *)
LEMMA SuppressMissed ==
  ASSUME NEW a \in Acquisitions, NEW mode \in 0..1, NEW algr, NEW old,
         Begin(CreatePEvent(a)) # Cardinality(a.groups) * GroupLen(a)
  PROVE  ~Unpack(Suppress(mode, algr, CreatePEvent(a)), old).fits
<1> DEFINE ev == CreatePEvent(a)
<1> DEFINE z == Suppress(mode, algr, ev)
<1> DEFINE T == WordsAround(a)
<1> DEFINE W == GroupLen(a)
<1> DEFINE G == Cardinality(a.groups)
<1> DEFINE C == Cardinality(Active(a))
<1> DEFINE cs == Ascending(Active(a))
<1> DEFINE gs == Ascending(a.groups)
<1> DEFINE K == Written(mode, algr, ev)
<1> DEFINE n == Cardinality(K)
<1> DEFINE h == HeadOf(ev)
<1> DEFINE blocks == BlocksOf(mode, algr, ev)
<1> DEFINE x == G * W
<1> DEFINE y == n * NSamples
<1>1. /\ z.groups = a.groups /\ z.mode = mode /\ z.active = Active(a)
      /\ z.accepted = AcceptedIn(algr, ev)
      /\ z.body = h \o FlattenSeq(blocks) /\ z.size = HeadLen + Len(z.body) /\ z.low = a.low
  <2>1. /\ z.groups = a.groups /\ z.mode = mode /\ z.active = Active(a)
        /\ z.accepted = AcceptedIn(algr, ev) /\ z.low = a.low
    BY SuppressIs
  <2>2. z.body = h \o FlattenSeq(blocks) /\ z.size = HeadLen + Len(z.body)
    BY SuppressIs
  <2>3. QED
    BY <2>1, <2>2
<1>2. /\ C \in Nat /\ G \in Nat /\ ev.body \in Seq(T) /\ ev.active = Active(a) /\ ev.low = a.low
      /\ Begin(ev) \in Nat /\ Begin(ev) >= x
      /\ \A k \in 1..G : At(ev, (k - 1) * W + 1) = GroupHead(gs[k], a.tr)
  BY CreatedReads DEF Reads
<1>3. W \in Nat /\ W > 1 /\ x \in Nat /\ Begin(ev) > x
  <2>1. W \in Nat /\ W > 1
    BY LenGroup
  <2>2. x \in Nat
    <3> HIDE DEF W, G
    <3>1. QED
      BY <1>2, <2>1, Products
  <2>3. Begin(ev) # x
    OBVIOUS
  <2> HIDE DEF x
  <2>4. QED
    BY <1>2, <2>1, <2>2, <2>3
<1>4. /\ DOMAIN cs = 1..C /\ cs \in [1..C -> Active(a)] /\ Active(a) \in SUBSET Channels
      /\ \A c \in Active(a) : \E k \in 1..C : cs[k] = c
  BY ChannelsAscend, ActiveAre
<1>5. K = (IF mode = 1 THEN 1..C ELSE Good(algr, ev)) /\ Good(algr, ev) \subseteq 1..C
  BY <1>2, <1>4 DEF Written, Good
<1>6. Stored(z) = {cs[k] : k \in K}
  <2>1. CASE mode = 1
    <3>1. {cs[k] : k \in 1..C} = Active(a)
      BY <1>4
    <3>2. QED
      BY <1>1, <1>5, <2>1, <3>1 DEF Stored
  <2>2. CASE mode # 1
    BY <1>1, <1>2, <1>5, <2>2 DEF Stored, AcceptedIn
  <2>3. QED
    BY <2>1, <2>2
<1> HIDE DEF z
<1>7. n \in Nat /\ Ascending(K) \in [1..n -> K] /\ Len(Ascending(Stored(z))) = n
  <2> DEFINE S == Stored(z)
  <2>0. K \subseteq 1..C /\ C = Cardinality(Active(a)) /\ S = Picks(Active(a), K)
    BY <1>5, <1>6 DEF Picks
  <2> HIDE DEF S, K, C
  <2>1. /\ Cardinality(S) \in Nat /\ Cardinality(S) = Cardinality(K)
        /\ Ascending(K) \in [1..Cardinality(S) -> K]
        /\ Ascending(S) = [j \in 1..Cardinality(S) |-> Ascending(Active(a))[Ascending(K)[j]]]
    BY <1>2, <1>4, <2>0, Picked
  <2>2. Len(Ascending(S)) = Cardinality(S)
    BY <2>1
  <2>3. QED
    BY <2>1, <2>2 DEF S
<1>8. \A i \in Nat : At(ev, i) \in T
  BY <1>2, AtWord
<1>9. h \in Seq(T) /\ Len(h) = Begin(ev) /\ \A i \in 1..Begin(ev) : h[i] = At(ev, i)
  <2>1. h = [i \in 1..Begin(ev) |-> At(ev, i)]
    BY DEF HeadOf
  <2> HIDE DEF ev, T, h
  <2>2. QED
    BY <1>2, <1>8, <2>1
<1>10. blocks \in [1..n -> Seq(T)] /\ \A j \in 1..n : Len(blocks[j]) = NSamples
  <2>1. blocks = [j \in 1..n |-> KthChannel(ev, Begin(ev), Ascending(K)[j])]
    BY <1>7 DEF BlocksOf
  <2> HIDE DEF ev, T, K, n, blocks
  <2>2. ASSUME NEW j \in 1..n
        PROVE  /\ KthChannel(ev, Begin(ev), Ascending(K)[j]) \in Seq(T)
               /\ Len(KthChannel(ev, Begin(ev), Ascending(K)[j])) = NSamples
    <3> DEFINE k == Ascending(K)[j]
    <3> DEFINE s == Begin(ev) + (k - 1) * NSamples
    <3>0. k \in K
      BY <1>7 DEF n
    <3>1. k \in 1..C /\ k - 1 \in Nat
      <4> HIDE DEF k
      <4>1. QED
        BY <1>2, <1>5, <3>0
    <3>2. s \in Nat
      <4> HIDE DEF k
      <4>1. (k - 1) * NSamples \in Nat
        BY <3>1, Constants, Products
      <4>2. QED
        BY <1>2, <4>1 DEF ev
    <3>3. KthChannel(ev, Begin(ev), k) = [i \in 1..NSamples |-> At(ev, s + i)]
      BY DEF KthChannel, ChannelAt
    <3> HIDE DEF s
    <3>4. \A i \in 1..NSamples : s + i \in Nat /\ At(ev, s + i) \in T
      BY <1>8, <3>2, Constants
    <3>5. QED
      BY <3>3, <3>4, Constants
  <2>3. QED
    BY <2>1, <2>2
<1>11. /\ FlattenSeq(blocks) \in Seq(T) /\ Len(FlattenSeq(blocks)) = y /\ y \in Nat
  <2> HIDE DEF blocks, n, T
  <2>1. IsFlat(T, n, NSamples, blocks, FlattenSeq(blocks))
    BY <1>7, <1>10, Constants, FlattenBlocks
  <2>2. QED
    BY <1>7, <2>1, Constants, Products DEF IsFlat
<1> DEFINE f == FlattenSeq(blocks)
<1>12. IsJoin(T, h, f, z.body)
  <2>1. f \in Seq(T) /\ z.body = h \o f
    BY <1>1, <1>11
  <2> HIDE DEF f, h, T
  <2>2. QED
    BY <1>9, <2>1, Joined
<1> HIDE DEF h, f, T, ev, blocks, n, K
<1>13. /\ z.body \in Seq(T) /\ Len(z.body) = Begin(ev) + y
       /\ \A i \in 1..Begin(ev) : z.body[i] = At(ev, i)
  BY <1>9, <1>11, <1>12 DEF IsJoin, f
<1>14. ASSUME NEW k \in 1..G
       PROVE  At(z, (k - 1) * W + 1) = GroupHead(gs[k], a.tr)
  <2> DEFINE v == (k - 1) * W
  <2>1. k - 1 \in Nat /\ k - 1 < G
    BY <1>2
  <2>2. v \in Nat /\ v + W <= x
    BY <1>2, <1>3, <2>1, Products
  <2>3. At(ev, v + 1) = GroupHead(gs[k], a.tr)
    BY <1>2
  <2> HIDE DEF v, x, y
  <2>4. v + 1 \in 1..Begin(ev) /\ v + 1 \in DOMAIN z.body
    <3>1. v + 1 \in 1..Begin(ev)
      BY <1>2, <1>3, <2>2
    <3>2. DOMAIN z.body = 1..(Begin(ev) + y)
      BY <1>13
    <3>3. QED
      BY ONLY <1>2, <1>11, <3>1, <3>2
  <2>5. At(z, v + 1) = At(ev, v + 1)
    BY <1>13, <2>4 DEF At
  <2>6. QED
    BY <2>3, <2>5 DEF v
<1>15. GroupEnds(z, G)[G] = x
  <2>1. G \in 0..G /\ G <= G
    BY <1>2
  <2>2. QED
    BY <1>1, <1>2, <1>13, <1>14, <2>1, GroupsFound DEF T
<1>16. Unpack(z, old).fits = (HeadLen + x + y = HeadLen + (Begin(ev) + y))
  <2>1. Len(Ascending(z.groups)) = G /\ z.size = HeadLen + (Begin(ev) + y)
    BY <1>1, <1>13, GroupsLen
  <2>2. Unpack(z, old).fits
          = (HeadLen + GroupEnds(z, Len(Ascending(z.groups)))[Len(Ascending(z.groups))]
               + Len(Ascending(Stored(z))) * NSamples = z.size)
    BY DEF Unpack
  <2> HIDE DEF x, G
  <2>3. QED
    BY <1>7, <1>15, <2>1, <2>2
<1> HIDE DEF x, y
<1>17. HeadLen + x + y # HeadLen + (Begin(ev) + y)
  BY <1>2, <1>3, <1>11 DEF HeadLen
<1>18. QED
  BY <1>16, <1>17 DEF z, ev

-----------------------------------------------------------------------------
(* From the digitizer to the file. *)

Sent(zs, a) == Zsup(zs, CreatePEvent(a))
ZsSettings == [mode : 0..1, algr : 0..15]

LEMMA CreatedIsHeld ==
  ASSUME NEW a \in Acquisitions
  PROVE  Holds(a, Active(a), CreatePEvent(a))
<1>1. /\ CreatePEvent(a).groups = a.groups /\ CreatePEvent(a).mode = 1 /\ CreatePEvent(a).active = Active(a)
      /\ CreatePEvent(a).low = a.low
  BY DEF CreatePEvent
<1>2. Laid(a, Ascending(Active(a)), Cardinality(Active(a)), CreatePEvent(a).body)
      /\ CreatePEvent(a).size = HeadLen + Len(CreatePEvent(a).body)
  BY CreatedIsLaid
<1>3. QED
  BY <1>1, <1>2 DEF Holds, Stored

(* create_pevent, apply_zero_suppression, UnpackEvent and FillRawEvent:    *)
(* for any groups, channels, samples and settings, what is saved of an     *)
(* event that fits is what was acquired and should be kept, each channel   *)
(* under its own number; and an event fits unless zero suppression is on,  *)
(* there is a gap in the enabled groups and the sample taken for a group's *)
(* head does not say that the group is empty.                              *)
THEOREM RoundTrip ==
  ASSUME NEW a \in Acquisitions, NEW zs \in ZsSettings, NEW old, NEW sn
  PROVE  /\ Unpack(Sent(zs, a), old).fits => FillBoard(Unpack(Sent(zs, a), old), sn) = Expected(zs, a, sn)
         /\ zs.algr = 0 \/ a.low = 0 \/ ~HasGap(a.groups) => Unpack(Sent(zs, a), old).fits
<1> DEFINE ev == CreatePEvent(a)
<1> DEFINE auto == a.tr /\ a.long
<1> DEFINE z == Sent(zs, a)
<1> DEFINE good == Signals(a, zs.algr)
<1> DEFINE kept == IF zs.mode = 1 \/ zs.algr = 0 \/ auto THEN Active(a) ELSE good
<1>1. Expected(zs, a, sn) =
        [board |-> a.b, sn |-> sn, algr |-> IF zs.algr = 0 THEN 2 ELSE zs.algr, active |-> Active(a), accepted |-> good,
         ttt |-> [g \in {GroupOf(c) : c \in kept} |-> TriggerTag(a, g)],
         samples |-> [c \in kept |-> SamplesOf(a, c)]]
  BY DEF Expected, Signals, SamplesOf
<1> HIDE DEF kept
<1>2. CASE zs.algr = 0
  <2>1. z = ev
    BY <1>2 DEF Sent, Zsup
  <2>2. Holds(a, Active(a), ev)
    BY CreatedIsHeld
  <2>3. Unpack(ev, old).fits /\ FillBoard(Unpack(ev, old), sn) = Board(a, Active(a), ev, sn)
    <3> HIDE DEF ev
    <3>1. QED
      BY <2>2, BoardIsHeld
  <2>4. ev.board = a.b /\ ev.algr = 2 /\ ev.active = Active(a) /\ ev.accepted = Active(a)
    BY DEF CreatePEvent
  <2>5. good = Active(a) /\ kept = Active(a)
    BY <1>2 DEF Signals, HasSignal, kept
  <2> HIDE DEF ev, good, z
  <2>6. Board(a, Active(a), ev, sn) = Expected(zs, a, sn)
    BY <1>1, <1>2, <2>4, <2>5 DEF Board
  <2>7. QED
    BY <2>1, <2>3, <2>6 DEF z
<1>3. CASE zs.algr # 0
  <2> DEFINE mode == IF ev.auto THEN 1 ELSE zs.mode
  <2>1. z = Suppress(mode, zs.algr, ev) /\ mode \in 0..1
    BY <1>3 DEF Sent, Zsup, ZsSettings
  <2>2. ev.auto = (auto /\ a.groups # {})
    BY DEF CreatePEvent
  <2>3. kept = WrittenOf(a, mode, zs.algr)
    <3>1. CASE a.groups = {}
      <4>1. Active(a) = {} /\ good = {}
        BY <3>1 DEF Active, Signals
      <4>2. QED
        BY <4>1 DEF kept, WrittenOf
    <3>2. CASE a.groups # {}
      <4>1. ev.auto = auto
        BY <2>2, <3>2 DEF Acquisitions
      <4>2. QED
        BY <1>3, <4>1 DEF kept, WrittenOf
    <3>3. QED
      BY <3>1, <3>2
  <2>4. z.board = a.b /\ z.algr = zs.algr /\ z.active = Active(a)
    BY <2>1, SuppressIs
  <2> HIDE DEF mode
  <2>5. CASE Begin(ev) = Cardinality(a.groups) * GroupLen(a)
    <3>1. Holds(a, kept, z) /\ z.accepted = good
      BY <2>1, <2>3, <2>5, SuppressHolds
    <3>2. kept \in SUBSET Active(a)
      BY DEF kept, Signals
    <3> HIDE DEF z, ev, good
    <3>3. Unpack(z, old).fits /\ FillBoard(Unpack(z, old), sn) = Board(a, kept, z, sn)
      BY <3>1, <3>2, BoardIsHeld
    <3>4. Board(a, kept, z, sn) = Expected(zs, a, sn)
      BY <1>1, <1>3, <2>4, <3>1 DEF Board
    <3>5. QED
      BY <3>3, <3>4 DEF z
  <2>6. CASE Begin(ev) # Cardinality(a.groups) * GroupLen(a)
    <3>1. ~Unpack(z, old).fits
      BY <2>1, <2>6, SuppressMissed
    <3>2. ~(a.low = 0 \/ ~HasGap(a.groups))
      BY <2>6, CreatedReads
    <3>3. QED
      BY <1>3, <3>1, <3>2
  <2>7. QED
    BY <2>5, <2>6
<1>4. QED
  BY <1>2, <1>3


-----------------------------------------------------------------------------
(* Level1.  What the merger sends, with the setup su. *)

Sendable == [n : Nat, missing : SUBSET Boards, long : BOOLEAN, samples : Contents]

Count(e) == Cardinality(Boards \ e.missing)

AcquiredBy(su, e, b) ==
  [n |-> e.n, b |-> b, groups |-> su.groups[b], enabled |-> su.enabled[b], tr |-> su.tr, low |-> su.low,
   long |-> e.long, samples |-> e.samples[b]]

\* The data of the i-th board that is present.
PacketOf(su, e, i) == Zsup(su.zs, CreatePEvent(AcquiredBy(su, e, Present(e)[i])))

HeaderItem(e) == [tag |-> "header", n |-> e.n, missing |-> e.missing]
TriggerItem(e) == [tag |-> "trigger", n |-> e.n]
BoardItem(ev) == [tag |-> "board", ev |-> ev]
TailItem(n) == [tag |-> "tail", n |-> n]

\* The k-th piece of an event.
EventItem(su, e, k) ==
  IF k = 1 THEN HeaderItem(e) ELSE IF k = 2 THEN TriggerItem(e) ELSE BoardItem(PacketOf(su, e, k - 2))

\* s is what follows the first r pieces.
Rest(su, e, r, s) ==
  /\ Len(s) = (2 + Count(e)) - r
  /\ \A i \in 1..Len(s) : s[i] = EventItem(su, e, r + i)

Inner == {"trigger", "board"}

\* The event e begins: with all its pieces, if the merger was not killed.
IsComing(su, o, s, e) ==
  /\ s # <<>> /\ s[1] = HeaderItem(e)
  /\ o = "no" => Rest(su, e, 0, s)
  /\ \A i \in 2..Len(s) : s[i].tag \in Inner

\* All that was read of e was read well.
IsRead(su, e, t, k, b) ==
  /\ t.found => t.n = e.n
  /\ k <= Count(e)
  /\ \A i \in 1..k : b[i] = PacketOf(su, e, i)

IsComplete(su, e, t, k, b) == IsRead(su, e, t, k, b) /\ t.found /\ k = Count(e)

(* Before the first event header.                                          *)
NotYet ==
  /\ ~found /\ nbrd = 0 /\ ~trig.found /\ word = setup.date /\ Len(Saved) = 0
  /\ \/ sent = 0 /\ pending = <<>> /\ stream = <<>> /\ over \in {"no", "cut"}
     \/ sent = 0 /\ pending = <<>> /\ stream = <<TailItem(0)>> /\ over = "tail"
     \/ /\ sent = 1 /\ Len(pending) = 1 /\ pending[1].n = 1 /\ over \in {"no", "cut"}
        /\ IsComing(setup, over, stream, pending[1])

(* A date has been taken for an event header.                              *)
Phantoms ==
  /\ PhantomEvents
  /\ found /\ nbrd = 0 /\ ~trig.found /\ word = "header"
  /\ stream = <<>> /\ pending = <<>>

\* The event being read is the oldest that is not saved.
Current ==
  /\ found /\ word \in {"other"} \cup Inner
  /\ pending # <<>> /\ head.n = pending[1].n /\ head.missing = pending[1].missing
  /\ head.n = Len(Saved) + 1

(* It is the last that was sent.  If it was cut, it will not be saved.     *)
Reading ==
  /\ Current /\ Len(pending) = 1 /\ sent = head.n
  /\ word = "trigger" => trig.found
  /\ \/ /\ over = "cut"
        /\ \A i \in 1..Len(stream) : stream[i].tag \in Inner
     \/ /\ over = "no" /\ IsRead(setup, pending[1], trig, nbrd, buf)
        /\ nbrd > 0 => trig.found
        /\ Rest(setup, pending[1], (IF trig.found THEN 2 ELSE 1) + nbrd, stream)
     \/ /\ over = "tail" /\ IsComplete(setup, pending[1], trig, nbrd, buf)
        /\ stream = <<TailItem(sent)>>

(* The next one follows.                                                   *)
NextComes ==
  /\ Current /\ Len(pending) = 2 /\ pending[2].n = sent /\ sent = head.n + 1
  /\ over \in {"no", "cut"}
  /\ IsComplete(setup, pending[1], trig, nbrd, buf)
  /\ IsComing(setup, over, stream, pending[2])

RunInv == pc = "run" => NotYet \/ Phantoms \/ Reading \/ NextComes

FilesInv ==
  /\ setup.perFile > 0 =>
       /\ \A i \in 1..Len(files) - 1 : Len(files[i]) = setup.perFile
       /\ Len(files[Len(files)]) <= setup.perFile
       /\ pc = "run" => Len(files[Len(files)]) < setup.perFile
  /\ \A i \in 2..Len(files) : i - 1 \notin setup.exists

Numbered == PhantomEvents \/ Saved = [i \in 1..Len(Saved) |-> i]

Ended == pc = "done" => over # "no"


\* Whatever may be in a stream.
Packets(zs) == {Sent(zs, a) : a \in Acquisitions}
Pieces(zs) == Packets(zs) \cup {[ev EXCEPT !.body = <<>>] : ev \in Packets(zs)}
Items(zs) ==
  [tag : {"header"}, n : Nat, missing : SUBSET Boards] \cup [tag : {"trigger"}, n : Nat]
    \cup {BoardItem(ev) : ev \in Pieces(zs)} \cup {TailItem(n) : n \in Nat}

LEMMA BoardsBound ==
  NBoards \in Nat /\ Boards = 1..NBoards /\ \A S \in SUBSET Boards : S \subseteq 0..NBoards
  BY Level1Assumption DEF Boards

LEMMA PresentIs ==
  ASSUME NEW e \in Sendable
  PROVE  /\ Count(e) \in 0..NBoards /\ Len(Present(e)) = Count(e) /\ DOMAIN Present(e) = 1..Count(e)
         /\ \A i \in 1..Count(e) : Present(e)[i] \in Boards \ e.missing
         /\ \A i, j \in 1..Count(e) : i < j => Present(e)[i] < Present(e)[j]
         /\ \A b \in Boards \ e.missing : \E i \in 1..Count(e) : Present(e)[i] = b
<1> DEFINE S == Boards \ e.missing
<1>1. NBoards \in Nat /\ S \subseteq 0..NBoards
  BY BoardsBound
<1> HIDE DEF S
<1>2. /\ Cardinality(S) \in Nat /\ Ascending(S) \in [1..Cardinality(S) -> S]
      /\ \A i, j \in 1..Cardinality(S) : i < j => Ascending(S)[i] < Ascending(S)[j]
      /\ \A b \in S : \E i \in 1..Cardinality(S) : Ascending(S)[i] = b
  BY <1>1, AscendingIs
<1>3. Cardinality(S) <= NBoards
  <2>1. S \subseteq 1..NBoards
    BY BoardsBound DEF S
  <2>2. IsFiniteSet(1..NBoards) /\ Cardinality(1..NBoards) = NBoards
    BY <1>1, FS_Interval
  <2>3. QED
    BY <2>1, <2>2, FS_Subset
<1>4. Len(Ascending(S)) = Cardinality(S)
  BY <1>2
<1>5. Count(e) = Cardinality(S) /\ Present(e) = Ascending(S)
  BY DEF Count, Present, S
<1>6. /\ Count(e) \in 0..NBoards /\ Len(Present(e)) = Count(e) /\ DOMAIN Present(e) = 1..Count(e)
      /\ \A i \in 1..Count(e) : Present(e)[i] \in S
  BY <1>1, <1>2, <1>3, <1>4, <1>5
<1>7. /\ \A i, j \in 1..Count(e) : i < j => Present(e)[i] < Present(e)[j]
      /\ \A b \in S : \E i \in 1..Count(e) : Present(e)[i] = b
  BY <1>2, <1>5
<1>8. QED
  BY <1>6, <1>7 DEF S

LEMMA AcquiredType ==
  ASSUME NEW su \in Setups, NEW e \in Sendable, NEW b \in Boards
  PROVE  AcquiredBy(su, e, b) \in Acquisitions /\ su.zs \in ZsSettings
<1>1. su \in SetupType
  BY Level1Assumption
<1>2. su.zs \in ZsSettings /\ su.groups[b] \in SUBSET Groups /\ su.tr \in BOOLEAN /\ su.low \in Nat
      /\ su.enabled[b] \in SUBSET Channels
  BY <1>1 DEF SetupType, ZsSettings
<1>3. e.n \in Nat /\ e.long \in BOOLEAN /\ e.samples \in Contents
  BY DEF Sendable
<1>4. e.samples[b] \in SampleType
  <2>1. /\ DOMAIN e.samples[b] \in SUBSET Channels
        /\ e.samples[b] \in [DOMAIN e.samples[b] -> [1..NSamples -> BOOLEAN]]
    BY <1>3, Level1Assumption
  <2>2. QED
    BY <2>1 DEF SampleType
<1>5. b \in Nat
  BY BoardsBound
<1>6. QED
  BY <1>2, <1>3, <1>4, <1>5 DEF AcquiredBy, Acquisitions

LEMMA PacketIs ==
  ASSUME NEW su \in Setups, NEW e \in Sendable, NEW i \in 1..Count(e)
  PROVE  /\ AcquiredBy(su, e, Present(e)[i]) \in Acquisitions
         /\ PacketOf(su, e, i) = Sent(su.zs, AcquiredBy(su, e, Present(e)[i]))
         /\ BoardItem(PacketOf(su, e, i)) \in Items(su.zs)
<1>1. Present(e)[i] \in Boards
  BY PresentIs
<1>2. AcquiredBy(su, e, Present(e)[i]) \in Acquisitions
  BY <1>1, AcquiredType
<1>3. PacketOf(su, e, i) = Sent(su.zs, AcquiredBy(su, e, Present(e)[i]))
  BY DEF PacketOf, Sent
<1>4. PacketOf(su, e, i) \in Pieces(su.zs)
  BY <1>2, <1>3 DEF Packets, Pieces
<1>5. QED
  BY <1>2, <1>3, <1>4 DEF Items

LEMMA EventItemType ==
  ASSUME NEW su \in Setups, NEW e \in Sendable, NEW k \in 1..(2 + Count(e))
  PROVE  EventItem(su, e, k) \in Items(su.zs)
<1>1. CASE k = 1
  <2>1. HeaderItem(e) \in [tag : {"header"}, n : Nat, missing : SUBSET Boards]
    BY DEF HeaderItem, Sendable
  <2>2. QED
    BY <1>1, <2>1 DEF EventItem, Items
<1>2. CASE k = 2
  <2>1. TriggerItem(e) \in [tag : {"trigger"}, n : Nat]
    BY DEF TriggerItem, Sendable
  <2>2. QED
    BY <1>2, <2>1 DEF EventItem, Items
<1>3. CASE k > 2
  <2>1. k - 2 \in 1..Count(e) /\ k # 1 /\ k # 2
    BY <1>3, PresentIs
  <2>2. BoardItem(PacketOf(su, e, k - 2)) \in Items(su.zs)
    BY <2>1, PacketIs
  <2>3. QED
    BY <2>1, <2>2 DEF EventItem
<1>4. QED
  BY <1>1, <1>2, <1>3

LEMMA ItemTags ==
  ASSUME NEW su, NEW e, NEW k \in Nat
  PROVE  /\ k = 1 => EventItem(su, e, k).tag = "header"
         /\ k = 2 => EventItem(su, e, k).tag = "trigger"
         /\ k > 2 => EventItem(su, e, k).tag = "board"
  BY DEF EventItem, HeaderItem, TriggerItem, BoardItem

(* What Send puts into the stream.                                         *)
LEMMA MergerEventIs ==
  ASSUME NEW e \in Sendable, setup \in Setups
  PROVE  /\ MergerEvent(e) \in Seq(Items(setup.zs))
         /\ IsComing(setup, "no", MergerEvent(e), e)
<1> DEFINE T == Items(setup.zs)
<1> DEFINE c == Count(e)
<1> DEFINE m == MergerEvent(e)
<1> DEFINE p == <<HeaderItem(e), TriggerItem(e)>>
<1> DEFINE q == [i \in 1..c |-> BoardItem(PacketOf(setup, e, i))]
<1>1. c \in Nat /\ DOMAIN Present(e) = 1..c
  BY PresentIs
<1>2. \A i \in 1..c : [tag |-> "board", ev |-> Zsup(setup.zs, CreatePEvent(Acquired(e, Present(e)[i])))]
                        = BoardItem(PacketOf(setup, e, i))
  BY DEF BoardItem, PacketOf, Acquired, AcquiredBy
<1>3. m = p \o q
  <2>1. [i \in DOMAIN Present(e) |->
           [tag |-> "board", ev |-> Zsup(setup.zs, CreatePEvent(Acquired(e, Present(e)[i])))]] = q
    BY <1>1, <1>2
  <2> HIDE DEF q
  <2>2. QED
    BY <2>1 DEF MergerEvent, HeaderItem, TriggerItem
<1>4. p \in Seq(T) /\ Len(p) = 2 /\ p[1] = HeaderItem(e) /\ p[2] = TriggerItem(e)
  <2> HIDE DEF T
  <2>1. HeaderItem(e) \in T /\ TriggerItem(e) \in T
    <3>1. EventItem(setup, e, 1) \in T /\ EventItem(setup, e, 2) \in T
      BY <1>1, EventItemType DEF T
    <3>2. QED
      BY <3>1 DEF EventItem
  <2>2. QED
    BY <2>1
<1>5. q \in Seq(T) /\ Len(q) = c /\ \A i \in 1..c : q[i] = BoardItem(PacketOf(setup, e, i))
  <2>1. \A i \in 1..c : BoardItem(PacketOf(setup, e, i)) \in T
    BY PacketIs
  <2> HIDE DEF T, c
  <2>2. QED
    BY <1>1, <2>1
<1> HIDE DEF T, m, p, q, c
<1>6. IsJoin(T, p, q, m)
  BY <1>3, <1>4, <1>5, Joined
<1>7. m \in Seq(T) /\ Len(m) = 2 + c
  BY <1>4, <1>5, <1>6 DEF IsJoin
<1>8. ASSUME NEW i \in 1..(2 + c) PROVE m[i] = EventItem(setup, e, i)
  <2>1. CASE i = 1
    BY <1>4, <1>6, <2>1 DEF IsJoin, EventItem
  <2>2. CASE i = 2
    BY <1>4, <1>6, <2>2 DEF IsJoin, EventItem
  <2>3. CASE i > 2
    <3>1. i - 2 \in 1..c /\ 2 + (i - 2) = i /\ i # 1 /\ i # 2
      BY <1>1, <2>3
    <3>2. m[2 + (i - 2)] = q[i - 2]
      BY <1>4, <1>5, <1>6, <3>1 DEF IsJoin
    <3>3. QED
      BY <1>5, <3>1, <3>2 DEF EventItem
  <2>4. QED
    BY <2>1, <2>2, <2>3
<1>9. Rest(setup, e, 0, m)
  <2>1. Len(m) = (2 + Count(e)) - 0
    BY <1>1, <1>7 DEF c
  <2>2. ASSUME NEW i \in 1..Len(m) PROVE m[i] = EventItem(setup, e, 0 + i)
    <3>1. i \in 1..(2 + c) /\ 0 + i = i
      BY <1>1, <1>7
    <3>2. QED
      BY <1>8, <3>1
  <2>3. QED
    BY <2>1, <2>2 DEF Rest
<1>10. m # <<>> /\ m[1] = HeaderItem(e)
  BY <1>1, <1>4, <1>6, <1>7 DEF IsJoin
<1>11. ASSUME NEW i \in 2..Len(m) PROVE m[i].tag \in Inner
  <2>1. i \in 1..(2 + c) /\ i \in Nat /\ (i = 2 \/ i > 2)
    BY <1>1, <1>7
  <2>2. QED
    BY <1>8, <2>1, ItemTags DEF Inner
<1>12. QED
  BY <1>7, <1>9, <1>10, <1>11 DEF IsComing, T, m

-----------------------------------------------------------------------------
(* The files. *)

LEMMA FlattenOne ==
  ASSUME NEW T, NEW s \in Seq(T)
  PROVE  FlattenSeq(<<s>>) = s
<1> DEFINE p == <<s>>
<1> DEFINE n == 1
<1>1. p \in [1..n -> Seq(T)] /\ n \in Nat /\ n > 0 /\ p[1] = s
  OBVIOUS
<1> HIDE DEF p, n
<1>2. PartsOf(T, n, p) # {}
  BY <1>1, FlattenIs
<1>3. PICK f : f[1] = p[1] /\ FlattenSeq(p) = f[n]
  BY <1>2 DEF PartsOf
<1>4. FlattenSeq(p) = s
  BY <1>1, <1>3 DEF n
<1>5. QED
  BY <1>4 DEF p

LEMMA FlattenType ==
  ASSUME NEW T, NEW n \in Nat, n > 0, NEW fs \in [1..n -> Seq(T)]
  PROVE  FlattenSeq(fs) \in Seq(T)
<1>1. PartsOf(T, n, fs) # {}
  BY FlattenIs
<1>2. PICK f \in [1..n -> Seq(T)] : FlattenSeq(fs) = f[n]
  BY <1>1 DEF PartsOf
<1>3. n \in 1..n
  OBVIOUS
<1>4. f[n] \in Seq(T)
  BY <1>3
<1>5. QED
  BY <1>2, <1>4

LEMMA FlattenAdded ==
  ASSUME NEW T, NEW fs \in Seq(Seq(T)), fs # <<>>, NEW t \in Seq(T)
  PROVE  FlattenSeq(Append(fs, t)) = FlattenSeq(fs) \o t
<1> DEFINE m == Len(fs)
<1> DEFINE gs == Append(fs, t)
<1>1. m \in Nat /\ m > 0 /\ fs \in [1..m -> Seq(T)]
  OBVIOUS
<1>2. Len(gs) = m + 1 /\ gs \in Seq(Seq(T)) /\ gs[m + 1] = t /\ \A i \in 1..m : gs[i] = fs[i]
  OBVIOUS
<1> HIDE DEF m, gs
<1> DEFINE n == m + 1
<1>3. n \in Nat /\ n > 1 /\ n - 1 = m /\ gs \in [1..n -> Seq(T)] /\ gs[n] = t
  BY <1>1, <1>2
<1> HIDE DEF n
<1>4. fs \in [1..(n - 1) -> Seq(T)] /\ \A i \in 1..(n - 1) : fs[i] = gs[i]
  BY <1>1, <1>2, <1>3
<1>5. FlattenSeq(gs) = FlattenSeq(fs) \o gs[n]
  BY <1>3, <1>4, FlattenLast
<1>6. QED
  BY <1>3, <1>5 DEF gs

Cat(s, t) == s \o t

LEMMA Regrouped ==
  ASSUME NEW T, NEW u \in Seq(T), NEW v \in Seq(T), NEW t \in Seq(T)
  PROVE  Cat(u, Cat(v, t)) = Cat(Cat(u, v), t) /\ Cat(u, v) \in Seq(T)
<1>1. u \o (v \o t) = (u \o v) \o t
  BY ConcatAssociative
<1>2. QED
  BY <1>1 DEF Cat

(* Appending to the last of the files appends to them all.                 *)
LEMMA FlattenFilled ==
  ASSUME NEW T, NEW n \in Nat, n > 0, NEW fs \in [1..n -> Seq(T)], NEW gs \in [1..n -> Seq(T)],
         \A i \in 1..(n - 1) : gs[i] = fs[i],
         NEW t \in Seq(T), gs[n] = Cat(fs[n], t)
  PROVE  FlattenSeq(gs) = Cat(FlattenSeq(fs), t)
<1> DEFINE v == fs[n]
<1>1. v \in Seq(T) /\ gs[n] = Cat(v, t)
  OBVIOUS
<1>2. CASE n = 1
  <2>1. fs = <<v>> /\ gs = <<gs[1]>> /\ gs[1] = Cat(v, t) /\ gs[1] \in Seq(T)
    BY <1>2
  <2>2. FlattenSeq(<<v>>) = v /\ FlattenSeq(<<gs[1]>>) = gs[1]
    BY <1>1, <2>1, FlattenOne
  <2>3. QED
    BY <2>1, <2>2
<1>3. CASE n > 1
  <2> DEFINE m == n - 1
  <2> DEFINE p == [i \in 1..m |-> fs[i]]
  <2>1. m \in Nat /\ m > 0 /\ p \in [1..m -> Seq(T)]
        /\ \A i \in 1..m : p[i] = fs[i] /\ p[i] = gs[i]
    BY <1>3
  <2>2. p \in [1..(n - 1) -> Seq(T)] /\ (\A i \in 1..(n - 1) : p[i] = fs[i])
        /\ (\A i \in 1..(n - 1) : p[i] = gs[i])
    BY <2>1
  <2> HIDE DEF p, m, v
  <2>3. FlattenSeq(fs) = Cat(FlattenSeq(p), fs[n])
    BY <1>3, <2>2, FlattenLast DEF Cat
  <2>4. FlattenSeq(gs) = Cat(FlattenSeq(p), gs[n])
    BY <1>3, <2>2, FlattenLast DEF Cat
  <2> DEFINE u == FlattenSeq(p)
  <2>5. u \in Seq(T)
    BY <2>1, FlattenType
  <2>6. FlattenSeq(gs) = Cat(u, Cat(v, t)) /\ FlattenSeq(fs) = Cat(u, v)
    BY <1>1, <2>3, <2>4 DEF v
  <2> HIDE DEF u
  <2>7. QED
    BY <1>1, <2>5, <2>6, Regrouped
<1>4. QED
  BY <1>2, <1>3


FileType == Seq(Nat)

\* gs are the files fs with x appended to the last.
IsFilled(fs, x, gs) ==
  /\ gs \in Seq(FileType) /\ Len(gs) = Len(fs) /\ gs # <<>>
  /\ \A i \in 1..(Len(fs) - 1) : gs[i] = fs[i]
  /\ gs[Len(fs)] = Append(fs[Len(fs)], x)
  /\ FlattenSeq(gs) = Append(FlattenSeq(fs), x) /\ FlattenSeq(gs) \in Seq(Nat)

LEMMA LastChanged ==
  ASSUME NEW S, NEW fs \in Seq(S), fs # <<>>, NEW w \in S, NEW n, n = Len(fs)
  PROVE  /\ n \in Nat /\ n > 0 /\ fs \in [1..n -> S]
         /\ [fs EXCEPT ![n] = w] \in Seq(S) /\ [fs EXCEPT ![n] = w] \in [1..n -> S]
         /\ Len([fs EXCEPT ![n] = w]) = n /\ [fs EXCEPT ![n] = w] # <<>>
         /\ [fs EXCEPT ![n] = w][n] = w /\ \A i \in 1..(n - 1) : [fs EXCEPT ![n] = w][i] = fs[i]
  OBVIOUS

LEMMA FilledFunction ==
  ASSUME NEW n \in Nat, n > 0, NEW fs \in [1..n -> FileType], NEW x \in Nat,
         NEW gs \in [1..n -> FileType], gs[n] = Append(fs[n], x), \A i \in 1..(n - 1) : gs[i] = fs[i]
  PROVE  /\ FlattenSeq(gs) = Append(FlattenSeq(fs), x)
         /\ FlattenSeq(fs) \in Seq(Nat) /\ FlattenSeq(gs) \in Seq(Nat)
<1> DEFINE v == fs[n]
<1> DEFINE t == <<x>>
<1> DEFINE f == FlattenSeq(fs)
<1>1. v \in Seq(Nat) /\ t \in Seq(Nat)
  BY DEF FileType
<1>2. f \in Seq(Nat) /\ FlattenSeq(gs) \in Seq(Nat)
  BY FlattenType DEF FileType
<1>3. Append(v, x) = Cat(v, t)
  BY <1>1, AppendIsConcat DEF Cat
<1>4. gs[n] = Cat(fs[n], t)
  BY <1>3
<1> HIDE DEF f, t
<1>5. FlattenSeq(gs) = Cat(f, t)
  <2> DEFINE N == Nat
  <2>1. fs \in [1..n -> Seq(N)] /\ gs \in [1..n -> Seq(N)] /\ t \in Seq(N)
    BY <1>1 DEF FileType
  <2> HIDE DEF N
  <2>2. n \in Nat /\ n > 0 /\ \A i \in 1..(n - 1) : gs[i] = fs[i]
    OBVIOUS
  <2>3. FlattenSeq(gs) = Cat(FlattenSeq(fs), t)
    BY ONLY <1>4, <2>1, <2>2, FlattenFilled
  <2>4. QED
    BY <2>3 DEF f
<1>6. Cat(f, t) = Append(f, x)
  BY <1>2, AppendIsConcat DEF Cat, t
<1>7. QED
  BY <1>2, <1>5, <1>6 DEF f

LEMMA FilledIs ==
  ASSUME NEW fs \in Seq(FileType), fs # <<>>, NEW x \in Nat
  PROVE  /\ IsFilled(fs, x, [fs EXCEPT ![Len(fs)] = Append(@, x)])
         /\ FlattenSeq(fs) \in Seq(Nat)
<1> DEFINE n == Len(fs)
<1> DEFINE w == Append(fs[Len(fs)], x)
<1> DEFINE gs == [fs EXCEPT ![Len(fs)] = Append(@, x)]
<1>1. n = Len(fs) /\ w = Append(fs[n], x) /\ gs = [fs EXCEPT ![n] = w]
  OBVIOUS
<1>2. w \in FileType
  <2>1. fs[Len(fs)] \in FileType
    OBVIOUS
  <2>2. QED
    BY <2>1 DEF FileType
<1> HIDE DEF n, w, gs
<1>3. /\ n \in Nat /\ n > 0 /\ fs \in [1..n -> FileType]
      /\ gs \in Seq(FileType) /\ gs \in [1..n -> FileType] /\ Len(gs) = n /\ gs # <<>>
      /\ gs[n] = w /\ \A i \in 1..(n - 1) : gs[i] = fs[i]
  BY <1>1, <1>2, LastChanged
<1>4. gs[n] = Append(fs[n], x)
  BY <1>1, <1>3
<1>5. /\ FlattenSeq(gs) = Append(FlattenSeq(fs), x)
      /\ FlattenSeq(fs) \in Seq(Nat) /\ FlattenSeq(gs) \in Seq(Nat)
  BY ONLY <1>3, <1>4, x \in Nat, FilledFunction
<1>6. IsFilled(fs, x, gs)
  BY <1>1, <1>3, <1>4, <1>5 DEF IsFilled
<1>7. QED
  BY <1>5, <1>6 DEF gs

LEMMA NewFile ==
  ASSUME NEW fs \in Seq(FileType), fs # <<>>
  PROVE  /\ Append(fs, <<>>) \in Seq(FileType) /\ Len(Append(fs, <<>>)) = Len(fs) + 1
         /\ Append(fs, <<>>) # <<>>
         /\ FlattenSeq(Append(fs, <<>>)) = FlattenSeq(fs)
<1>1. <<>> \in Seq(Nat) /\ <<>> \in FileType
  BY DEF FileType
<1>2. Append(fs, <<>>) \in Seq(FileType) /\ Len(Append(fs, <<>>)) = Len(fs) + 1 /\ Append(fs, <<>>) # <<>>
  BY <1>1, AppendProperties
<1>3. FlattenSeq(Append(fs, <<>>)) = FlattenSeq(fs) \o <<>>
  BY <1>1, FlattenAdded DEF FileType
<1>4. FlattenSeq(fs) \in Seq(Nat)
  BY FilledIs
<1> DEFINE f == FlattenSeq(fs)
<1> HIDE DEF f
<1>5. f \o <<>> = f
  BY <1>4 DEF f
<1>6. QED
  BY <1>2, <1>3, <1>5 DEF f

-----------------------------------------------------------------------------
(* The invariant.  The types: *)

TypeInv ==
  /\ setup \in Setups /\ sent \in Nat /\ over \in {"no", "tail", "cut"}
  /\ stream \in Seq(Items(setup.zs)) /\ pending \in Seq(Sendable)
  /\ found \in BOOLEAN /\ trig \in [found : BOOLEAN, n : Nat]
  /\ head \in [n : Nat, missing : SUBSET Boards]
  /\ nbrd \in 0..NBoards /\ DOMAIN buf = Boards
  /\ files \in Seq(FileType) /\ files # <<>>

LEMMA SaveFills ==
  ASSUME TypeInv, Save
  PROVE  /\ IsFilled(files, head.n, Filled)
         /\ files' = IF FileFull /\ ~NameTaken THEN Append(Filled, <<>>) ELSE Filled
         /\ files' \in Seq(FileType) /\ files' # <<>>
         /\ Saved \in Seq(Nat) /\ Saved' = Append(Saved, head.n) /\ Len(Saved') = Len(Saved) + 1
         /\ Saved = [i \in 1..Len(Saved) |-> i] /\ head.n = Len(Saved) + 1
              => Saved' = [i \in 1..Len(Saved') |-> i]
<1>1. files \in Seq(FileType) /\ files # <<>> /\ head.n \in Nat
  BY DEF TypeInv
<1>2. IsFilled(files, head.n, Filled) /\ Saved \in Seq(Nat)
  BY <1>1, FilledIs DEF Filled, Saved
<1>3. files' = IF FileFull /\ ~NameTaken THEN Append(Filled, <<>>) ELSE Filled
  BY DEF Save
<1> DEFINE g == Filled
<1> DEFINE s == Saved
<1> DEFINE x == head.n
<1>4. g \in Seq(FileType) /\ g # <<>> /\ FlattenSeq(g) = Append(s, x) /\ s \in Seq(Nat) /\ x \in Nat
  BY <1>1, <1>2 DEF IsFilled, Saved
<1> HIDE DEF g, s, x
<1>5. /\ Append(g, <<>>) \in Seq(FileType) /\ Append(g, <<>>) # <<>>
      /\ FlattenSeq(Append(g, <<>>)) = FlattenSeq(g)
  BY <1>4, NewFile
<1>6. files' \in Seq(FileType) /\ files' # <<>> /\ FlattenSeq(files') = Append(s, x)
  <2>1. files' = g \/ files' = Append(g, <<>>)
    BY <1>3 DEF g
  <2>2. QED
    BY <1>4, <1>5, <2>1
<1>7. Saved' = Append(s, x)
  BY <1>6 DEF Saved
<1>8. Len(Append(s, x)) = Len(s) + 1
  BY <1>4
<1>9. ASSUME s = [i \in 1..Len(s) |-> i], x = Len(s) + 1
      PROVE  Append(s, x) = [i \in 1..(Len(s) + 1) |-> i]
  BY <1>4, <1>9
<1>10. QED
  BY <1>2, <1>3, <1>6, <1>7, <1>8, <1>9 DEF s, x


-----------------------------------------------------------------------------
(* Types. *)

LEMMA ItemIs ==
  ASSUME NEW zs, NEW it \in Items(zs)
  PROVE  /\ it.tag \in {"header", "trigger", "board", "tail"}
         /\ it.tag = "header" => it.n \in Nat /\ it.missing \in SUBSET Boards
         /\ it.tag = "trigger" => it.n \in Nat
         /\ it.tag = "board" => \E ev \in Pieces(zs) : it = BoardItem(ev)
<1>1. CASE it \in [tag : {"header"}, n : Nat, missing : SUBSET Boards]
  BY <1>1
<1>2. CASE it \in [tag : {"trigger"}, n : Nat]
  BY <1>2
<1>3. CASE it \in {BoardItem(ev) : ev \in Pieces(zs)}
  BY <1>3 DEF BoardItem
<1>4. CASE it \in {TailItem(n) : n \in Nat}
  BY <1>4 DEF TailItem
<1>5. QED
  BY <1>1, <1>2, <1>3, <1>4 DEF Items

LEMMA TornType ==
  ASSUME NEW zs, NEW it \in Items(zs), it.tag = "board"
  PROVE  Torn(it) \in Items(zs) /\ Torn(it).tag = "board"
<1>1. PICK ev \in Pieces(zs) : it = BoardItem(ev)
  BY ItemIs
<1> DEFINE r == [ev EXCEPT !.body = <<>>]
<1>2. r \in Pieces(zs)
  <2>1. CASE ev \in Packets(zs)
    BY <2>1 DEF Pieces
  <2>2. CASE ev \notin Packets(zs)
    <3>1. PICK p \in Packets(zs) : ev = [p EXCEPT !.body = <<>>]
      BY <2>2 DEF Pieces
    <3>2. r = [p EXCEPT !.body = <<>>]
      BY <3>1
    <3>3. QED
      BY <3>2 DEF Pieces
  <2>3. QED
    BY <2>1, <2>2
<1>3. Torn(it) = BoardItem(r)
  BY <1>1 DEF Torn, BoardItem
<1>4. QED
  BY <1>2, <1>3 DEF Items, BoardItem

LEMMA FirstItem ==
  ASSUME TypeInv, ~AtEnd
  PROVE  Item \in Items(setup.zs) /\ Tag = Item.tag /\ Tail(stream) \in Seq(Items(setup.zs))
<1>1. stream \in Seq(Items(setup.zs)) /\ stream # <<>>
  BY DEF TypeInv, AtEnd
<1>2. stream[1] \in Items(setup.zs) /\ Tail(stream) \in Seq(Items(setup.zs))
  BY <1>1
<1>3. QED
  BY <1>1, <1>2 DEF Item, Tag

LEMMA ReadOnType ==
  ASSUME TypeInv, ReadOn
  PROVE  stream' \in Seq(Items(setup.zs))
<1>1. CASE AtEnd
  BY <1>1 DEF ReadOn, TypeInv
<1>2. CASE ~AtEnd
  BY <1>2, FirstItem DEF ReadOn, Consume
<1>3. QED
  BY <1>1, <1>2

LEMMA SaveType ==
  ASSUME TypeInv, Save
  PROVE  files' \in Seq(FileType) /\ files' # <<>> /\ pending' \in Seq(Sendable)
<1>1. files' \in Seq(FileType) /\ files' # <<>>
  BY SaveFills
<1>2. pending' \in Seq(Sendable)
  <2>1. pending \in Seq(Sendable) /\ pending' = IF pending = <<>> THEN <<>> ELSE Tail(pending)
    BY DEF TypeInv, Save
  <2>2. QED
    BY <2>1
<1>3. QED
  BY <1>1, <1>2

LEMMA SavePreviousType ==
  ASSUME TypeInv, SavePrevious
  PROVE  files' \in Seq(FileType) /\ files' # <<>> /\ pending' \in Seq(Sendable)
<1>1. CASE found
  BY <1>1, SaveType DEF SavePrevious
<1>2. CASE ~found
  BY <1>2 DEF SavePrevious, TypeInv, output
<1>3. QED
  BY <1>1, <1>2

\* A trigger tag that is looked at twice finds the trigger found.
LEMMA TriggerTwice ==
  ASSUME RunInv, pc = "run", AtEnd, Tag = "trigger", found
  PROVE  trig.found
<1>1. stream = <<>> /\ over = "cut" /\ word = "trigger"
  BY DEF AtEnd, Tag
<1>2. ~NotYet /\ ~Phantoms /\ ~NextComes
  BY <1>1 DEF NotYet, Phantoms, NextComes, IsComing
<1>3. QED
  BY <1>1, <1>2 DEF RunInv, Reading

LEMMA Piece ==
  ASSUME NEW T, NEW s \in Seq(T), NEW k \in 0..Len(s)
  PROVE  SubSeq(s, 1, k) \in Seq(T) /\ Len(SubSeq(s, 1, k)) = k /\ \A i \in 1..k : SubSeq(s, 1, k)[i] = s[i]
  OBVIOUS

LEMMA PieceAnd ==
  ASSUME NEW T, NEW s \in Seq(T), NEW k \in 1..Len(s), NEW t \in T
  PROVE  /\ SubSeq(s, 1, k - 1) \o <<t>> \in Seq(T) /\ Len(SubSeq(s, 1, k - 1) \o <<t>>) = k
         /\ (SubSeq(s, 1, k - 1) \o <<t>>)[k] = t
         /\ \A i \in 1..(k - 1) : (SubSeq(s, 1, k - 1) \o <<t>>)[i] = s[i]
<1> DEFINE j == k - 1
<1> DEFINE p == SubSeq(s, 1, j)
<1>1. j \in 0..Len(s) /\ k = j + 1
  OBVIOUS
<1> HIDE DEF j
<1>2. p \in Seq(T) /\ Len(p) = j /\ \A i \in 1..j : p[i] = s[i]
  BY <1>1, Piece
<1> DEFINE q == <<t>>
<1>3. q \in Seq(T) /\ Len(q) = 1 /\ q[1] = t
  OBVIOUS
<1> HIDE DEF p, q
<1> DEFINE r == p \o q
<1>4. IsJoin(T, p, q, r)
  BY <1>2, <1>3, Joined
<1> HIDE DEF r
<1>5. r \in Seq(T) /\ Len(r) = k /\ r[k] = t /\ \A i \in 1..j : r[i] = s[i]
  BY <1>1, <1>2, <1>3, <1>4 DEF IsJoin
<1>6. QED
  BY <1>5 DEF r, p, q, j

(* What a killed merger leaves of the stream: of its first event's pieces  *)
(* all that there are, but that the last may be torn.                      *)
CutAt(s, k, t) ==
  /\ Len(t) = k
  /\ \A i \in 1..k : t[i].tag = s[i].tag
  /\ k > 0 /\ s[1].tag = "header" => t[1] = s[1]

LEMMA CutIs ==
  ASSUME TypeInv, Cut
  PROVE  /\ stream' \in Seq(Items(setup.zs))
         /\ \E k \in 0..Len(stream) : CutAt(stream, k, stream') /\ (stream # <<>> /\ stream[1].tag = "header" => k > 0)
<1> DEFINE T == Items(setup.zs)
<1> DEFINE s == stream
<1>1. s \in Seq(T)
  BY DEF TypeInv
<1>2. PICK k \in (IF stream # <<>> /\ stream[1].tag = "header" THEN 1 ELSE 0)..Len(stream) :
        \/ stream' = SubSeq(stream, 1, k)
        \/ /\ k > 0 /\ stream[k].tag = "board"
           /\ stream' = SubSeq(stream, 1, k - 1) \o <<Torn(stream[k])>>
  BY DEF Cut
<1>3. k \in 0..Len(s) /\ (s # <<>> /\ s[1].tag = "header" => k > 0)
  BY <1>1, <1>2
<1>4. CASE stream' = SubSeq(s, 1, k)
  <2> DEFINE t == SubSeq(s, 1, k)
  <2> HIDE DEF T, s
  <2>1. t \in Seq(T) /\ Len(t) = k /\ \A i \in 1..k : t[i] = s[i]
    BY <1>1, <1>3, Piece
  <2> HIDE DEF t
  <2>2. CutAt(s, k, t)
    BY <1>3, <2>1 DEF CutAt
  <2>3. QED
    BY <1>3, <1>4, <2>1, <2>2 DEF T, s, t
<1>5. CASE k > 0 /\ s[k].tag = "board" /\ stream' = SubSeq(s, 1, k - 1) \o <<Torn(s[k])>>
  <2>1. s[k] \in T /\ k \in 1..Len(s)
    BY <1>1, <1>3, <1>5
  <2>2. Torn(s[k]) \in T /\ Torn(s[k]).tag = "board"
    BY <1>5, <2>1, TornType DEF T
  <2> DEFINE x == Torn(s[k])
  <2> DEFINE t == SubSeq(s, 1, k - 1) \o <<x>>
  <2> HIDE DEF T, s, x
  <2>3. t \in Seq(T) /\ Len(t) = k /\ t[k] = x /\ \A i \in 1..(k - 1) : t[i] = s[i]
    BY <1>1, <2>1, <2>2, PieceAnd DEF x
  <2>4. t = stream'
    BY <1>5 DEF x, s
  <2> HIDE DEF t
  <2>5. ASSUME NEW i \in 1..k PROVE t[i].tag = s[i].tag
    <3>1. i = k \/ i \in 1..(k - 1)
      BY <1>3
    <3>2. QED
      BY <1>5, <2>2, <2>3, <3>1 DEF x
  <2>6. k > 0 /\ s[1].tag = "header" => t[1] = s[1]
    BY <1>3, <1>5, <2>3
  <2>7. CutAt(s, k, t)
    BY <2>3, <2>5, <2>6 DEF CutAt
  <2>8. QED
    BY <1>3, <2>3, <2>4, <2>7 DEF T, s
<1>6. QED
  BY <1>2, <1>4, <1>5

LEMMA CutType ==
  ASSUME TypeInv, Cut
  PROVE  stream' \in Seq(Items(setup.zs))
  BY CutIs

LEMMA TypeStep ==
  ASSUME TypeInv, RunInv, [Next]_vars
  PROVE  TypeInv'
<1>1. CASE Send
  <2>1. PICK missing \in SUBSET Boards, long \in BOOLEAN, samples \in Contents :
          LET e == [n |-> sent + 1, missing |-> missing, long |-> long, samples |-> samples] IN
            stream' = MergerEvent(e) /\ pending' = Append(pending, e)
    BY <1>1 DEF Send
  <2> DEFINE e == [n |-> sent + 1, missing |-> missing, long |-> long, samples |-> samples]
  <2>2. e \in Sendable
    BY DEF Sendable, TypeInv
  <2>3. MergerEvent(e) \in Seq(Items(setup.zs))
    BY <2>2, MergerEventIs DEF TypeInv
  <2>4. Append(pending, e) \in Seq(Sendable)
    BY <2>2, AppendProperties DEF TypeInv
  <2>5. stream' = MergerEvent(e) /\ pending' = Append(pending, e)
    BY <2>1
  <2> HIDE DEF e
  <2>6. sent' \in Nat
    BY <1>1 DEF Send, TypeInv
  <2>7. QED
    BY <1>1, <2>3, <2>4, <2>5, <2>6 DEF Send, TypeInv
<1>2. CASE CloseStream
  <2>1. stream' = <<TailItem(sent)>> /\ TailItem(sent) \in Items(setup.zs)
    BY <1>2 DEF CloseStream, TailItem, Items, TypeInv
  <2>2. stream' \in Seq(Items(setup.zs))
    BY <2>1
  <2>3. QED
    BY <1>2, <2>2 DEF CloseStream, TypeInv, output
<1>3. CASE Cut
  <2>1. stream' \in Seq(Items(setup.zs))
    BY <1>3, CutType
  <2>2. over' = "cut"
    BY <1>3 DEF Cut
  <2>3. QED
    BY <1>3, <2>1, <2>2 DEF Cut, TypeInv, output
<1>4. CASE EventHeader
  <2>1. stream' \in Seq(Items(setup.zs))
    BY <1>4, ReadOnType DEF EventHeader
  <2>2. files' \in Seq(FileType) /\ files' # <<>> /\ pending' \in Seq(Sendable)
    BY <1>4, SavePreviousType DEF EventHeader
  <2>3. head' \in [n : Nat, missing : SUBSET Boards]
    <3>1. CASE AtEnd
      BY <1>4, <3>1 DEF EventHeader, TypeInv
    <3>2. CASE ~AtEnd
      <4>1. Item \in Items(setup.zs) /\ Item.tag = "header"
        BY <1>4, <3>2, FirstItem DEF EventHeader
      <4>2. Item.n \in Nat /\ Item.missing \in SUBSET Boards
        BY <4>1, ItemIs
      <4>3. QED
        BY <1>4, <3>2, <4>2 DEF EventHeader
    <3>3. QED
      BY <3>1, <3>2
  <2>4. trig' \in [found : BOOLEAN, n : Nat]
    BY <1>4 DEF EventHeader, TypeInv
  <2>5. found' \in BOOLEAN /\ nbrd' \in 0..NBoards
    BY <1>4, BoardsBound DEF EventHeader
  <2>6. QED
    BY <1>4, <2>1, <2>2, <2>3, <2>4, <2>5 DEF EventHeader, TypeInv
<1>5. CASE EndOfFile
  <2>1. stream' \in Seq(Items(setup.zs))
    BY <1>5, ReadOnType DEF EndOfFile
  <2>2. files' \in Seq(FileType) /\ files' # <<>> /\ pending' \in Seq(Sendable)
    BY <1>5, SavePreviousType DEF EndOfFile
  <2>3. trig' \in [found : BOOLEAN, n : Nat]
    BY <1>5 DEF EndOfFile, TypeInv
  <2>4. found' \in BOOLEAN /\ nbrd' \in 0..NBoards
    <3>1. found' = FALSE /\ nbrd' = 0
      BY <1>5 DEF EndOfFile
    <3>2. 0 \in 0..NBoards
      BY BoardsBound
    <3>3. QED
      BY <3>1, <3>2
  <2>5. QED
    BY <1>5, <2>1, <2>2, <2>3, <2>4 DEF EndOfFile, TypeInv
<1>6. CASE UnpackFails
  <2>1. stream' \in Seq(Items(setup.zs))
    BY <1>6, ReadOnType DEF UnpackFails
  <2>2. QED
    BY <1>6, <2>1 DEF UnpackFails, TypeInv, output
<1>7. CASE FileExists
  <2>1. stream' \in Seq(Items(setup.zs))
    BY <1>7, ReadOnType DEF FileExists
  <2>2. files' \in Seq(FileType) /\ files' # <<>> /\ pending' \in Seq(Sendable)
    BY <1>7, SaveType DEF FileExists
  <2>3. QED
    BY <1>7, <2>1, <2>2 DEF FileExists, TypeInv
<1>8. CASE TriggerInfo
  <2>1. stream' \in Seq(Items(setup.zs))
    BY <1>8, ReadOnType DEF TriggerInfo
  <2>2. trig' \in [found : BOOLEAN, n : Nat]
    <3>1. CASE found /\ ~trig.found
      <4>1. ~AtEnd
        BY <1>8, <3>1, TriggerTwice DEF TriggerInfo
      <4>2. Item \in Items(setup.zs) /\ Item.tag = "trigger"
        BY <1>8, <4>1, FirstItem DEF TriggerInfo
      <4>3. Item.n \in Nat
        BY <4>2, ItemIs
      <4>4. trig' = [found |-> TRUE, n |-> Item.n]
        BY <1>8, <3>1 DEF TriggerInfo
      <4>5. QED
        BY <4>3, <4>4
    <3>2. CASE ~(found /\ ~trig.found)
      BY <1>8, <3>2 DEF TriggerInfo, TypeInv
    <3>3. QED
      BY <3>1, <3>2
  <2>3. QED
    BY <1>8, <2>1, <2>2 DEF TriggerInfo, TypeInv, output
<1>9. CASE AdcBoard
  <2>1. stream' \in Seq(Items(setup.zs))
    BY <1>9, ReadOnType DEF AdcBoard
  <2>2. nbrd' \in 0..NBoards /\ DOMAIN buf' = Boards
    <3>1. CASE found /\ ~TooManyBoards
      BY <1>9, <3>1, BoardsBound DEF AdcBoard, TypeInv, TooManyBoards
    <3>2. CASE ~(found /\ ~TooManyBoards)
      BY <1>9, <3>2 DEF AdcBoard, TypeInv
    <3>3. QED
      BY <3>1, <3>2
  <2>3. QED
    BY <1>9, <2>1, <2>2 DEF AdcBoard, TypeInv, output
<1>10. CASE UnknownTag
  <2>1. stream' \in Seq(Items(setup.zs))
    BY <1>10, ReadOnType DEF UnknownTag
  <2>2. QED
    BY <1>10, <2>1 DEF UnknownTag, TypeInv, output
<1>11. CASE UNCHANGED vars
  BY <1>11 DEF vars, source, output, TypeInv
<1>12. QED
  BY <1>1, <1>2, <1>3, <1>4, <1>5, <1>6, <1>7, <1>8, <1>9, <1>10, <1>11 DEF Next, Writer, Loop


-----------------------------------------------------------------------------
(* What Level1 meets. *)

LEMMA TagIs ==
  /\ stream # <<>> => Tag = stream[1].tag
  /\ stream = <<>> /\ over = "cut" => Tag = word
  /\ stream = <<>> /\ over # "cut" => Tag = "none"
  BY DEF Tag

LEMMA RestTail ==
  ASSUME NEW su, NEW e \in Sendable, NEW r \in Nat, NEW T, NEW s \in Seq(T), s # <<>>, Rest(su, e, r, s)
  PROVE  Rest(su, e, r + 1, Tail(s)) /\ s[1] = EventItem(su, e, r + 1) /\ r < 2 + Count(e)
<1>1. Count(e) \in Nat
  BY PresentIs
<1>2. Len(s) = (2 + Count(e)) - r /\ \A i \in 1..Len(s) : s[i] = EventItem(su, e, r + i)
  BY DEF Rest
<1>3. Len(s) \in Nat /\ Len(s) > 0
  OBVIOUS
<1>4. Len(Tail(s)) = (2 + Count(e)) - (r + 1)
  BY <1>1, <1>2, <1>3
<1>5. ASSUME NEW i \in 1..Len(Tail(s)) PROVE Tail(s)[i] = EventItem(su, e, (r + 1) + i)
  <2>1. i + 1 \in 1..Len(s) /\ Tail(s)[i] = s[i + 1] /\ r + (i + 1) = (r + 1) + i
    BY <1>3
  <2>2. QED
    BY <1>2, <2>1
<1>6. QED
  BY <1>1, <1>2, <1>3, <1>4, <1>5 DEF Rest

LEMMA RestInner ==
  ASSUME NEW su, NEW e \in Sendable, NEW r \in Nat, r >= 1, NEW T, NEW s \in Seq(T), Rest(su, e, r, s)
  PROVE  \A i \in 1..Len(s) : s[i].tag \in Inner
<1>1. ASSUME NEW i \in 1..Len(s) PROVE s[i].tag \in Inner
  <2>1. r + i \in Nat /\ (r + i = 2 \/ r + i > 2) /\ s[i] = EventItem(su, e, r + i)
    BY DEF Rest
  <2>2. QED
    BY <2>1, ItemTags DEF Inner
<1>2. QED
  BY <1>1

LEMMA TailInner ==
  ASSUME NEW T, NEW s \in Seq(T), s # <<>>, \A i \in 2..Len(s) : s[i].tag \in Inner
  PROVE  \A i \in 1..Len(Tail(s)) : Tail(s)[i].tag \in Inner
<1>1. ASSUME NEW i \in 1..Len(Tail(s)) PROVE Tail(s)[i].tag \in Inner
  <2>1. i + 1 \in 2..Len(s) /\ Tail(s)[i] = s[i + 1]
    OBVIOUS
  <2>2. QED
    BY <2>1
<1>2. QED
  BY <1>1

LEMMA HeaderTag ==
  ASSUME NEW e
  PROVE  HeaderItem(e).tag = "header" /\ HeaderItem(e).n = e.n /\ HeaderItem(e).missing = e.missing
  BY DEF HeaderItem

LEMMA PendingType ==
  ASSUME TypeInv
  PROVE  \A i \in 1..Len(pending) : pending[i] \in Sendable
  BY DEF TypeInv

LEMMA NotYetTag ==
  ASSUME TypeInv, NotYet
  PROVE  /\ Tag \in {"none", "header", "tail"}
         /\ over = "tail" => sent = 0
         /\ Tag = "tail" => over # "no"
         /\ Tag = "header" /\ ~AtEnd =>
              sent = 1 /\ Item = HeaderItem(pending[1]) /\ IsComing(setup, over, stream, pending[1])
              /\ Len(pending) = 1 /\ pending[1].n = 1 /\ over \in {"no", "cut"}
         /\ Tag = "header" /\ AtEnd => PhantomEvents /\ word = "header" /\ pending = <<>>
<1>1. CASE sent = 0 /\ pending = <<>> /\ stream = <<>> /\ over \in {"no", "cut"}
  <2>1. setup \in SetupType /\ word = setup.date
    BY Level1Assumption DEF TypeInv, NotYet
  <2>2. word \in {"tail", "header"}
    BY <2>1 DEF SetupType
  <2>3. QED
    BY <1>1, <2>1, <2>2, TagIs DEF AtEnd, PhantomEvents
<1>2. CASE sent = 0 /\ pending = <<>> /\ stream = <<TailItem(0)>> /\ over = "tail"
  BY <1>2, TagIs DEF TailItem, AtEnd
<1>3. CASE /\ sent = 1 /\ Len(pending) = 1 /\ pending[1].n = 1 /\ over \in {"no", "cut"}
           /\ IsComing(setup, over, stream, pending[1])
  <2>1. stream # <<>> /\ stream[1] = HeaderItem(pending[1])
    BY <1>3 DEF IsComing
  <2>2. QED
    BY <1>3, <2>1, HeaderTag, TagIs DEF AtEnd, Item
<1>4. QED
  BY <1>1, <1>2, <1>3 DEF NotYet

LEMMA PhantomsTag ==
  ASSUME Phantoms
  PROVE  AtEnd /\ Tag = "header"
  BY TagIs DEF Phantoms, PhantomEvents, AtEnd

LEMMA ReadingTag ==
  ASSUME TypeInv, Reading
  PROVE  /\ over = "cut" => Tag \in {"other"} \cup Inner
         /\ over = "no" => Tag \in {"none"} \cup Inner
         /\ over = "no" /\ Tag = "trigger" =>
              ~AtEnd /\ ~trig.found /\ nbrd = 0 /\ Item = TriggerItem(pending[1])
         /\ over = "no" /\ Tag = "board" =>
              ~AtEnd /\ trig.found /\ nbrd < Count(pending[1]) /\ Item = BoardItem(PacketOf(setup, pending[1], nbrd + 1))
         /\ over = "no" /\ AtEnd => IsComplete(setup, pending[1], trig, nbrd, buf)
         /\ over = "tail" => Tag = "tail"
<1> DEFINE T == Items(setup.zs)
<1>1. stream \in Seq(T) /\ nbrd \in Nat /\ trig.found \in BOOLEAN /\ pending[1] \in Sendable
      /\ Count(pending[1]) \in Nat
  <2>1. nbrd \in Nat
    BY BoardsBound DEF TypeInv
  <2>2. pending[1] \in Sendable
    BY PendingType DEF Reading
  <2>3. QED
    BY <2>1, <2>2, PresentIs DEF TypeInv
<1> HIDE DEF T
<1>2. CASE over = "cut" /\ \A i \in 1..Len(stream) : stream[i].tag \in Inner
  <2>1. CASE stream = <<>>
    BY <1>2, <2>1, TagIs DEF Reading, Current
  <2>2. CASE stream # <<>>
    <3>1. 1 \in 1..Len(stream)
      BY <1>1, <2>2
    <3>2. QED
      BY <1>2, <2>2, <3>1, TagIs
  <2>3. QED
    BY <1>2, <2>1, <2>2
<1>3. CASE /\ over = "no" /\ IsRead(setup, pending[1], trig, nbrd, buf)
           /\ nbrd > 0 => trig.found
           /\ Rest(setup, pending[1], (IF trig.found THEN 2 ELSE 1) + nbrd, stream)
  <2> DEFINE r == (IF trig.found THEN 2 ELSE 1) + nbrd
  <2>1. r \in Nat /\ r >= 1
    BY <1>1
  <2>2. Rest(setup, pending[1], r, stream)
    BY <1>3
  <2>3. CASE stream = <<>>
    <3>1. 0 = (2 + Count(pending[1])) - r
      BY <2>2, <2>3 DEF Rest
    <3>2. nbrd <= Count(pending[1])
      BY <1>3 DEF IsRead
    <3>3. trig.found /\ nbrd = Count(pending[1])
      BY <1>1, <1>3, <3>1, <3>2
    <3>4. IsComplete(setup, pending[1], trig, nbrd, buf)
      BY <1>3, <3>3 DEF IsComplete
    <3>5. QED
      BY <1>3, <2>3, <3>4, TagIs
  <2>4. CASE stream # <<>>
    <3> HIDE DEF r
    <3>1. stream[1] = EventItem(setup, pending[1], r + 1) /\ r < 2 + Count(pending[1])
      <4> DEFINE e == pending[1]
      <4>1. e \in Sendable /\ Rest(setup, e, r, stream)
        BY <1>1, <2>2
      <4> HIDE DEF e
      <4>2. stream[1] = EventItem(setup, e, r + 1) /\ r < 2 + Count(e)
        <5>1. r \in Nat /\ stream \in Seq(T) /\ stream # <<>>
          BY <1>1, <2>1, <2>4
        <5>2. /\ Rest(setup, e, r + 1, Tail(stream)) /\ stream[1] = EventItem(setup, e, r + 1)
              /\ r < 2 + Count(e)
          BY ONLY <5>1, <4>1, RestTail
        <5>3. QED
          BY <5>2
      <4>3. QED
        BY <4>2 DEF e
    <3>2. CASE trig.found
      <4>1. r = 2 + nbrd
        BY <3>2 DEF r
      <4>2. nbrd < Count(pending[1]) /\ r + 1 > 2 /\ (r + 1) - 2 = nbrd + 1
        BY <1>1, <3>1, <4>1
      <4>3. stream[1] = BoardItem(PacketOf(setup, pending[1], nbrd + 1))
        BY <1>1, <3>1, <4>1, <4>2 DEF EventItem
      <4>4. Tag = "board"
        BY <2>4, <4>3, TagIs DEF BoardItem
      <4>5. QED
        BY <1>3, <2>4, <3>2, <4>2, <4>3, <4>4 DEF Inner, AtEnd, Item
    <3>3. CASE ~trig.found
      <4>1. nbrd = 0 /\ r = 1
        BY <1>1, <1>3, <3>3 DEF r
      <4>2. stream[1] = TriggerItem(pending[1])
        BY <3>1, <4>1 DEF EventItem
      <4>3. Tag = "trigger"
        BY <2>4, <4>2, TagIs DEF TriggerItem
      <4>4. QED
        BY <1>3, <2>4, <3>3, <4>1, <4>2, <4>3 DEF Inner, AtEnd, Item
    <3>4. QED
      BY <3>2, <3>3
  <2>5. QED
    BY <2>3, <2>4
<1>4. CASE /\ over = "tail" /\ IsComplete(setup, pending[1], trig, nbrd, buf)
           /\ stream = <<TailItem(sent)>>
  BY <1>4, TagIs DEF TailItem
<1>5. QED
  BY <1>2, <1>3, <1>4 DEF Reading

LEMMA NextComesTag ==
  ASSUME NextComes
  PROVE  ~AtEnd /\ Tag = "header" /\ Item = HeaderItem(pending[2]) /\ over \in {"no", "cut"}
<1>1. stream # <<>> /\ stream[1] = HeaderItem(pending[2])
  BY DEF NextComes, IsComing
<1>2. QED
  BY <1>1, HeaderTag, TagIs DEF NextComes, AtEnd, Item


-----------------------------------------------------------------------------
(* The steps: what is sent. *)

LEMMA SendRuns ==
  ASSUME TypeInv, RunInv, Send
  PROVE  RunInv'
<1> SUFFICES ASSUME pc' = "run" PROVE NotYet' \/ NextComes'
  BY DEF RunInv
<1>1. /\ pc = "run" /\ over = "no" /\ stream = <<>> /\ AtEnd /\ sent' = sent + 1 /\ sent \in Nat
      /\ UNCHANGED <<setup, over, word, found, head, trig, nbrd, buf, files>>
  BY DEF Send, AtEnd, TypeInv
<1>2. PICK missing \in SUBSET Boards, long \in BOOLEAN, samples \in Contents :
        LET e == [n |-> sent + 1, missing |-> missing, long |-> long, samples |-> samples] IN
          stream' = MergerEvent(e) /\ pending' = Append(pending, e)
  BY DEF Send
<1> DEFINE e == [n |-> sent + 1, missing |-> missing, long |-> long, samples |-> samples]
<1>3. e \in Sendable /\ e.n = sent'
  BY <1>1 DEF Sendable
<1>4. stream' = MergerEvent(e) /\ pending' = Append(pending, e)
  BY <1>2
<1> HIDE DEF e
<1>5. IsComing(setup, "no", stream', e)
  BY <1>3, <1>4, MergerEventIs DEF TypeInv
<1>6. /\ pending \in Seq(Sendable) /\ Len(pending') = Len(pending) + 1 /\ pending'[Len(pending) + 1] = e
      /\ pending # <<>> => pending' # <<>> /\ pending'[1] = pending[1]
  <2>1. pending \in Seq(Sendable)
    BY DEF TypeInv
  <2>2. QED
    BY <1>3, <1>4, <2>1
<1>7. Saved' = Saved
  BY <1>1 DEF Saved
<1>8. CASE NotYet
  <2>1. sent = 0 /\ pending = <<>>
    BY <1>1, <1>8 DEF NotYet, IsComing
  <2>2. sent' = 1 /\ Len(pending') = 1 /\ pending'[1] = e
    BY <1>1, <1>6, <2>1
  <2>3. IsComing(setup', over', stream', pending'[1])
    BY <1>1, <1>5, <2>2
  <2>4. ~found' /\ nbrd' = 0 /\ ~trig'.found /\ word' = setup'.date /\ Len(Saved') = 0
    BY <1>1, <1>7, <1>8 DEF NotYet
  <2>5. QED
    BY <1>1, <1>3, <2>2, <2>3, <2>4 DEF NotYet
<1>9. CASE Reading
  <2>1. IsComplete(setup, pending[1], trig, nbrd, buf)
    BY <1>1, <1>9, ReadingTag
  <2>2. Current /\ Len(pending) = 1 /\ sent = head.n /\ pending # <<>>
    BY <1>9 DEF Reading, Current
  <2>3. Len(pending') = 2 /\ pending'[2] = e /\ pending'[1] = pending[1] /\ pending' # <<>>
    BY <1>6, <2>2
  <2>4. IsComplete(setup', pending'[1], trig', nbrd', buf')
    BY <1>1, <2>1, <2>3
  <2>5. IsComing(setup', over', stream', pending'[2])
    BY <1>1, <1>5, <2>3
  <2>6. Current'
    BY <1>1, <1>7, <2>2, <2>3 DEF Current
  <2>7. pending'[2].n = sent' /\ sent' = head'.n + 1 /\ over' \in {"no", "cut"}
    BY <1>1, <1>3, <2>2, <2>3
  <2>8. QED
    BY <2>3, <2>4, <2>5, <2>6, <2>7 DEF NextComes
<1>10. ~Phantoms /\ ~NextComes
  BY <1>1, NextComesTag DEF Phantoms, PhantomEvents
<1>11. QED
  BY <1>1, <1>8, <1>9, <1>10 DEF RunInv

LEMMA CloseRuns ==
  ASSUME TypeInv, RunInv, CloseStream
  PROVE  RunInv'
<1> SUFFICES ASSUME pc' = "run" PROVE NotYet' \/ Reading'
  BY DEF RunInv
<1>1. /\ pc = "run" /\ over = "no" /\ stream = <<>> /\ AtEnd /\ over' = "tail" /\ stream' = <<TailItem(sent)>>
      /\ UNCHANGED <<setup, sent, pending, word, found, head, trig, nbrd, buf, files>>
  BY DEF CloseStream, AtEnd, TailItem, output
<1>2. Saved' = Saved
  BY <1>1 DEF Saved
<1>3. CASE NotYet
  <2>1. sent = 0 /\ pending = <<>>
    BY <1>1, <1>3 DEF NotYet, IsComing
  <2>2. stream' = <<TailItem(0)>> /\ sent' = 0 /\ pending' = <<>>
    BY <1>1, <2>1
  <2>3. ~found' /\ nbrd' = 0 /\ ~trig'.found /\ word' = setup'.date /\ Len(Saved') = 0
    BY <1>1, <1>2, <1>3 DEF NotYet
  <2>4. QED
    BY <1>1, <2>2, <2>3 DEF NotYet
<1>4. CASE Reading
  <2>1. IsComplete(setup, pending[1], trig, nbrd, buf)
    BY <1>1, <1>4, ReadingTag
  <2>2. IsComplete(setup', pending'[1], trig', nbrd', buf')
    BY <1>1, <2>1
  <2>3. Current' /\ Len(pending') = 1 /\ sent' = head'.n /\ (word' = "trigger" => trig'.found)
    BY <1>1, <1>2, <1>4 DEF Reading, Current
  <2>4. QED
    BY <1>1, <2>2, <2>3 DEF Reading
<1>5. ~Phantoms /\ ~NextComes
  BY <1>1, NextComesTag DEF Phantoms, PhantomEvents
<1>6. QED
  BY <1>1, <1>3, <1>4, <1>5 DEF RunInv

LEMMA CutComes ==
  ASSUME TypeInv, Cut, NEW e, over = "no", IsComing(setup, over, stream, e)
  PROVE  IsComing(setup, "cut", stream', e)
<1>1. stream # <<>> /\ stream[1] = HeaderItem(e) /\ \A i \in 2..Len(stream) : stream[i].tag \in Inner
  BY DEF IsComing
<1>2. stream[1].tag = "header"
  BY <1>1, HeaderTag
<1>3. PICK k \in 0..Len(stream) : CutAt(stream, k, stream') /\ (stream # <<>> /\ stream[1].tag = "header" => k > 0)
  BY CutIs
<1>4. stream \in Seq(Items(setup.zs)) /\ stream' \in Seq(Items(setup.zs))
  BY CutIs DEF TypeInv
<1>5. k > 0 /\ Len(stream') = k /\ (\A i \in 1..k : stream'[i].tag = stream[i].tag) /\ stream'[1] = stream[1]
  BY <1>1, <1>2, <1>3 DEF CutAt
<1>6. Len(stream) \in Nat
  BY <1>4
<1>7. stream' # <<>>
  BY <1>4, <1>5
<1>8. \A i \in 2..Len(stream') : stream'[i].tag \in Inner
  BY <1>1, <1>5, <1>6
<1>9. QED
  BY <1>1, <1>5, <1>7, <1>8 DEF IsComing

LEMMA CutRuns ==
  ASSUME TypeInv, RunInv, Cut
  PROVE  RunInv'
<1> SUFFICES ASSUME pc' = "run" PROVE NotYet' \/ Reading' \/ NextComes'
  BY DEF RunInv
<1>1. /\ pc = "run" /\ over = "no" /\ over' = "cut"
      /\ UNCHANGED <<setup, sent, pending, word, found, head, trig, nbrd, buf, files>>
  BY DEF Cut, output
<1>2. Saved' = Saved
  BY <1>1 DEF Saved
<1>3. PICK k \in 0..Len(stream) : CutAt(stream, k, stream')
  BY CutIs
<1>4. stream \in Seq(Items(setup.zs)) /\ stream' \in Seq(Items(setup.zs))
  BY CutIs DEF TypeInv
<1>5. CASE NotYet
  <2>1. ~found' /\ nbrd' = 0 /\ ~trig'.found /\ word' = setup'.date /\ Len(Saved') = 0
    BY <1>1, <1>2, <1>5 DEF NotYet
  <2>2. CASE sent = 0 /\ pending = <<>> /\ stream = <<>>
    <3>1. Len(stream') = 0
      BY <1>3, <2>2 DEF CutAt
    <3>2. stream' = <<>>
      BY <1>4, <3>1
    <3>3. QED
      BY <1>1, <2>1, <2>2, <3>2 DEF NotYet
  <2>3. CASE /\ sent = 1 /\ Len(pending) = 1 /\ pending[1].n = 1
             /\ IsComing(setup, over, stream, pending[1])
    <3>1. IsComing(setup, "cut", stream', pending[1])
      <4> DEFINE e == pending[1]
      <4>1. IsComing(setup, over, stream, e)
        BY <2>3
      <4> HIDE DEF e
      <4>2. IsComing(setup, "cut", stream', e)
        BY <1>1, <4>1, CutComes
      <4>3. QED
        BY <4>2 DEF e
    <3>2. IsComing(setup', over', stream', pending'[1])
      BY <1>1, <3>1
    <3>3. QED
      BY <1>1, <2>1, <2>3, <3>2 DEF NotYet
  <2>4. QED
    BY <1>1, <1>5, <2>2, <2>3 DEF NotYet
<1>6. CASE Reading
  <2>1. \A i \in 1..Len(stream) : stream[i].tag \in Inner
    <3> DEFINE r == (IF trig.found THEN 2 ELSE 1) + nbrd
    <3> DEFINE e == pending[1]
    <3> DEFINE T == Items(setup.zs)
    <3>1. nbrd \in Nat
      BY BoardsBound DEF TypeInv
    <3>2. r \in Nat /\ r >= 1
      BY <3>1
    <3>3. Rest(setup, e, r, stream) /\ stream \in Seq(T)
      BY <1>1, <1>4, <1>6 DEF Reading
    <3>4. e \in Sendable
      BY <1>6, PendingType DEF Reading
    <3> HIDE DEF r, e, T
    <3>5. QED
      BY ONLY <3>2, <3>3, <3>4, RestInner
  <2>2. \A i \in 1..Len(stream') : stream'[i].tag \in Inner
    <3>1. Len(stream') = k /\ (\A i \in 1..k : stream'[i].tag = stream[i].tag) /\ Len(stream) \in Nat
      BY <1>3, <1>4 DEF CutAt
    <3>2. QED
      BY <2>1, <3>1
  <2>3. Current' /\ Len(pending') = 1 /\ sent' = head'.n /\ (word' = "trigger" => trig'.found)
    BY <1>1, <1>2, <1>6 DEF Reading, Current
  <2>4. QED
    BY <1>1, <2>2, <2>3 DEF Reading
<1>7. CASE NextComes
  <2>1. IsComing(setup, "cut", stream', pending[2])
    <3> DEFINE e == pending[2]
    <3>1. IsComing(setup, over, stream, e)
      BY <1>7 DEF NextComes
    <3> HIDE DEF e
    <3>2. IsComing(setup, "cut", stream', e)
      BY <1>1, <3>1, CutComes
    <3>3. QED
      BY <3>2 DEF e
  <2>2. IsComing(setup', over', stream', pending'[2])
    BY <1>1, <2>1
  <2>3. IsComplete(setup', pending'[1], trig', nbrd', buf')
    BY <1>1, <1>7 DEF NextComes
  <2>4. Current' /\ Len(pending') = 2 /\ pending'[2].n = sent' /\ sent' = head'.n + 1
    BY <1>1, <1>2, <1>7 DEF NextComes, Current
  <2>5. QED
    BY <1>1, <2>2, <2>3, <2>4 DEF NextComes
<1>8. ~Phantoms
  BY <1>1 DEF Phantoms, PhantomEvents
<1>9. QED
  BY <1>1, <1>5, <1>6, <1>7, <1>8 DEF RunInv


-----------------------------------------------------------------------------
(* The steps: what is read. *)

LEMMA ReadOnIs ==
  ASSUME ReadOn
  PROVE  /\ AtEnd => stream' = stream
         /\ ~AtEnd => stream' = Tail(stream)
  BY DEF ReadOn, Consume

LEMMA SavedStays ==
  ASSUME files' = files
  PROVE  Saved' = Saved
  BY DEF Saved

LEMMA TailOfTwo ==
  ASSUME NEW S, NEW s \in Seq(S), Len(s) = 2
  PROVE  Len(Tail(s)) = 1 /\ Tail(s) # <<>> /\ Tail(s)[1] = s[2] /\ s[2] \in S
<1>1. Len(Tail(s)) = 1
  OBVIOUS
<1>2. Tail(s)[1] = s[2] /\ s[2] \in S
  OBVIOUS
<1>3. Tail(s) # <<>>
  <2> DEFINE t == Tail(s)
  <2>1. Len(t) = 1
    BY <1>1
  <2> HIDE DEF t
  <2>2. t # <<>>
    BY <2>1
  <2>3. QED
    BY <2>2 DEF t
<1>4. QED
  BY <1>1, <1>2, <1>3

(* After the event header, which was the first of what is coming.          *)
LEMMA ComingRead ==
  ASSUME NEW su, NEW o \in {"no", "cut"}, NEW T, NEW s \in Seq(T), NEW e \in Sendable, NEW b, IsComing(su, o, s, e),
         NEW t, ~t.found
  PROVE  /\ o = "cut" => \A i \in 1..Len(Tail(s)) : Tail(s)[i].tag \in Inner
         /\ o = "no" => Rest(su, e, (IF t.found THEN 2 ELSE 1) + 0, Tail(s)) /\ IsRead(su, e, t, 0, b)
<1>1. s # <<>> /\ \A i \in 2..Len(s) : s[i].tag \in Inner
  BY DEF IsComing
<1>2. \A i \in 1..Len(Tail(s)) : Tail(s)[i].tag \in Inner
  BY <1>1, TailInner
<1>3. ASSUME o = "no" PROVE Rest(su, e, (IF t.found THEN 2 ELSE 1) + 0, Tail(s))
  <2>1. Rest(su, e, 0, s)
    BY <1>3 DEF IsComing
  <2> DEFINE r == 0
  <2>2. r \in Nat /\ Rest(su, e, r, s)
    BY <2>1
  <2> HIDE DEF r
  <2>3. Rest(su, e, r + 1, Tail(s))
    BY ONLY <1>1, <2>2, RestTail, s \in Seq(T), e \in Sendable
  <2>4. r + 1 = (IF t.found THEN 2 ELSE 1) + 0
    BY DEF r
  <2>5. QED
    BY <2>3, <2>4
<1>4. Count(e) \in Nat
  BY PresentIs
<1>5. IsRead(su, e, t, 0, b)
  BY <1>4 DEF IsRead
<1>6. QED
  BY <1>2, <1>3, <1>5

LEMMA HeaderRuns ==
  ASSUME TypeInv, RunInv, EventHeader
  PROVE  RunInv'
<1> SUFFICES Phantoms' \/ Reading'
  BY DEF RunInv
<1>1. /\ pc = "run" /\ Tag = "header" /\ SavePrevious /\ ReadOn
      /\ head' = (IF AtEnd THEN head ELSE [n |-> Item.n, missing |-> Item.missing])
      /\ found' = TRUE /\ trig' = [trig EXCEPT !.found = FALSE] /\ nbrd' = 0
      /\ word' = (IF AtEnd THEN word ELSE "other")
      /\ UNCHANGED <<setup, sent, over, buf>>
  BY DEF EventHeader
<1>2. ~trig'.found
  BY <1>1 DEF TypeInv
<1> DEFINE T == Items(setup.zs)
<1>3. stream \in Seq(T)
  BY DEF TypeInv
<1> HIDE DEF T
<1>4. CASE NotYet /\ AtEnd
  <2>1. PhantomEvents /\ word = "header" /\ pending = <<>>
    BY <1>1, <1>4, NotYetTag
  <2>2. pending' = pending
    BY <1>1, <1>4 DEF NotYet, SavePrevious, output
  <2>3. stream' = <<>>
    BY <1>1, <1>4, ReadOnIs DEF AtEnd
  <2>4. word' = "header" /\ PhantomEvents'
    BY <1>1, <1>4, <2>1 DEF PhantomEvents
  <2>5. QED
    BY <1>1, <1>2, <2>1, <2>2, <2>3, <2>4 DEF Phantoms
<1>5. CASE Phantoms
  <2>1. AtEnd /\ stream = <<>> /\ pending = <<>> /\ word = "header" /\ found /\ PhantomEvents
    BY <1>5, PhantomsTag DEF Phantoms
  <2>2. pending' = <<>>
    BY <1>1, <2>1 DEF SavePrevious, Save
  <2>3. stream' = <<>>
    BY <1>1, <2>1, ReadOnIs
  <2>4. word' = "header" /\ PhantomEvents'
    BY <1>1, <2>1 DEF PhantomEvents
  <2>5. QED
    BY <1>1, <1>2, <2>2, <2>3, <2>4 DEF Phantoms
<1>6. ASSUME NEW e \in Sendable, ~AtEnd, Item = HeaderItem(e), IsComing(setup, over, stream, e), over \in {"no", "cut"},
             Len(pending') = 1, pending' # <<>>, pending'[1] = e, sent = e.n, e.n = Len(Saved') + 1
      PROVE  Reading'
  <2>1. head'.n = e.n /\ head'.missing = e.missing /\ word' = "other"
    BY <1>1, <1>6, HeaderTag
  <2>2. Current' /\ Len(pending') = 1 /\ sent' = head'.n /\ (word' = "trigger" => trig'.found)
    BY <1>1, <1>6, <2>1 DEF Current
  <2>3. stream' = Tail(stream)
    BY <1>1, <1>6, ReadOnIs
  <2>4. /\ over = "cut" => \A i \in 1..Len(Tail(stream)) : Tail(stream)[i].tag \in Inner
        /\ over = "no" => Rest(setup, e, (IF trig'.found THEN 2 ELSE 1) + 0, Tail(stream))
                          /\ IsRead(setup, e, trig', 0, buf')
    <3> DEFINE t == trig'
    <3> DEFINE b == buf'
    <3>1. ~t.found
      BY <1>2
    <3> HIDE DEF t, b
    <3>2. /\ over = "cut" => \A i \in 1..Len(Tail(stream)) : Tail(stream)[i].tag \in Inner
          /\ over = "no" => Rest(setup, e, (IF t.found THEN 2 ELSE 1) + 0, Tail(stream))
                            /\ IsRead(setup, e, t, 0, b)
      BY ONLY <1>3, <1>6, <3>1, ComingRead
    <3>3. QED
      BY <3>2 DEF t, b
  <2>5. CASE over = "cut"
    <3>1. over' = "cut" /\ \A i \in 1..Len(stream') : stream'[i].tag \in Inner
      BY <1>1, <2>3, <2>4, <2>5
    <3>2. QED
      BY <2>2, <3>1 DEF Reading
  <2>6. CASE over = "no"
    <3>1. Rest(setup', pending'[1], (IF trig'.found THEN 2 ELSE 1) + nbrd', stream')
      BY <1>1, <1>6, <2>3, <2>4, <2>6
    <3>2. IsRead(setup', pending'[1], trig', nbrd', buf')
      BY <1>1, <1>6, <2>4, <2>6
    <3>3. over' = "no" /\ (nbrd' > 0 => trig'.found)
      BY <1>1, <2>6
    <3>4. QED
      BY <2>2, <3>1, <3>2, <3>3 DEF Reading
  <2>7. QED
    BY <1>6, <2>5, <2>6
<1>7. CASE NotYet /\ ~AtEnd
  <2>1. /\ sent = 1 /\ Item = HeaderItem(pending[1]) /\ IsComing(setup, over, stream, pending[1])
        /\ Len(pending) = 1 /\ pending[1].n = 1 /\ over \in {"no", "cut"}
    BY <1>1, <1>7, NotYetTag
  <2>2. pending' = pending /\ files' = files
    BY <1>1, <1>7 DEF NotYet, SavePrevious, output
  <2>3. Len(Saved') = 0
    BY <1>7, <2>2, SavedStays DEF NotYet
  <2>4. pending[1] \in Sendable /\ pending # <<>>
    BY <2>1, PendingType
  <2>5. pending'[1] = pending[1] /\ Len(pending') = 1 /\ pending' # <<>> /\ sent = pending[1].n
        /\ pending[1].n = Len(Saved') + 1
    BY <2>1, <2>2, <2>3, <2>4
  <2>6. QED
    BY <1>6, <1>7, <2>1, <2>4, <2>5
<1>8. CASE NextComes
  <2>1. ~AtEnd /\ Item = HeaderItem(pending[2]) /\ over \in {"no", "cut"}
    BY <1>8, NextComesTag
  <2>2. /\ found /\ Len(pending) = 2 /\ pending[2].n = sent /\ sent = head.n + 1 /\ head.n = Len(Saved) + 1
        /\ IsComing(setup, over, stream, pending[2])
    BY <1>8 DEF NextComes, Current
  <2>3. Save
    BY <1>1, <2>2 DEF SavePrevious
  <2>4. pending' = Tail(pending) /\ pending \in Seq(Sendable)
    BY <2>2, <2>3 DEF Save, TypeInv
  <2>5. Len(pending') = 1 /\ pending' # <<>> /\ pending'[1] = pending[2] /\ pending[2] \in Sendable
    <3>1. Len(pending) = 2
      BY <2>2
    <3>2. Len(Tail(pending)) = 1 /\ Tail(pending) # <<>> /\ Tail(pending)[1] = pending[2] /\ pending[2] \in Sendable
      BY <2>4, <3>1, TailOfTwo
    <3>3. QED
      BY <2>4, <3>2
  <2>6. Len(Saved') = Len(Saved) + 1
    BY <2>3, SaveFills
  <2>7. sent = pending[2].n /\ pending[2].n = Len(Saved') + 1
    BY <2>2, <2>6
  <2>8. QED
    BY <1>6, <2>1, <2>2, <2>5, <2>7
<1>9. ~Reading
  <2>1. over \in {"no", "tail", "cut"}
    BY DEF TypeInv
  <2>2. QED
    BY <1>1, <2>1, ReadingTag DEF Inner
<1>10. QED
  BY <1>1, <1>4, <1>5, <1>7, <1>8, <1>9 DEF RunInv

LEMMA TriggerRuns ==
  ASSUME TypeInv, RunInv, TriggerInfo
  PROVE  RunInv'
<1> SUFFICES ASSUME pc' = "run" PROVE Reading'
  BY DEF RunInv
<1>1. /\ pc = "run" /\ Tag = "trigger" /\ ReadOn /\ word' = "trigger" /\ found /\ ~trig.found
      /\ trig' = [found |-> TRUE, n |-> Item.n]
      /\ UNCHANGED <<setup, sent, over, found, head, nbrd, buf, pending, files>>
  BY DEF TriggerInfo, output
<1>2. Reading
  BY <1>1, NotYetTag, PhantomsTag, NextComesTag DEF RunInv
<1>3. Saved' = Saved /\ trig'.found
  BY <1>1, SavedStays
<1>4. Current' /\ Len(pending') = 1 /\ sent' = head'.n /\ (word' = "trigger" => trig'.found)
  BY <1>1, <1>2, <1>3 DEF Reading, Current, Inner
<1> DEFINE T == Items(setup.zs)
<1>5. stream \in Seq(T)
  BY DEF TypeInv
<1> HIDE DEF T
<1>6. CASE over = "cut" /\ \A i \in 1..Len(stream) : stream[i].tag \in Inner
  <2>1. \A i \in 1..Len(stream') : stream'[i].tag \in Inner
    <3>1. CASE AtEnd
      BY <1>1, <1>6, <3>1, ReadOnIs
    <3>2. CASE ~AtEnd
      <4>1. stream' = Tail(stream) /\ stream # <<>> /\ \A i \in 2..Len(stream) : stream[i].tag \in Inner
        BY <1>1, <1>5, <1>6, <3>2, ReadOnIs DEF AtEnd
      <4>2. QED
        BY <1>5, <4>1, TailInner
    <3>3. QED
      BY <3>1, <3>2
  <2>2. QED
    BY <1>1, <1>4, <1>6, <2>1 DEF Reading
<1>7. CASE /\ over = "no" /\ IsRead(setup, pending[1], trig, nbrd, buf)
           /\ nbrd > 0 => trig.found
           /\ Rest(setup, pending[1], (IF trig.found THEN 2 ELSE 1) + nbrd, stream)
  <2> DEFINE e == pending[1]
  <2>1. ~AtEnd /\ ~trig.found /\ nbrd = 0 /\ Item = TriggerItem(e)
    BY <1>1, <1>2, <1>7, ReadingTag
  <2>2. stream # <<>> /\ e \in Sendable /\ stream' = Tail(stream)
    BY <1>1, <1>2, <2>1, PendingType, ReadOnIs DEF AtEnd, Reading
  <2>3. Rest(setup, e, 1, stream)
    BY <1>7, <2>1
  <2> HIDE DEF e
  <2>4. Rest(setup, e, 2, stream')
    <3> DEFINE r == 1
    <3>1. r \in Nat /\ Rest(setup, e, r, stream)
      BY <2>3
    <3> HIDE DEF r
    <3>2. Rest(setup, e, r + 1, Tail(stream))
      BY ONLY <1>5, <2>2, <3>1, RestTail
    <3>3. r + 1 = 2
      BY DEF r
    <3>4. QED
      BY <2>2, <3>2, <3>3
  <2>5. trig'.n = e.n
    BY <1>1, <2>1 DEF TriggerItem
  <2>6. IsRead(setup, e, trig', nbrd', buf')
    BY <1>1, <1>7, <2>5 DEF IsRead, e
  <2>7. Rest(setup, e, (IF trig'.found THEN 2 ELSE 1) + nbrd', stream')
    <3>1. (IF trig'.found THEN 2 ELSE 1) + nbrd' = 2
      BY <1>1, <1>3, <2>1
    <3>2. QED
      BY <2>4, <3>1
  <2>8. Rest(setup', pending'[1], (IF trig'.found THEN 2 ELSE 1) + nbrd', stream')
        /\ IsRead(setup', pending'[1], trig', nbrd', buf')
    BY <1>1, <2>6, <2>7 DEF e
  <2>9. over' = "no" /\ (nbrd' > 0 => trig'.found)
    BY <1>1, <1>3, <1>7
  <2>10. QED
    BY <1>4, <2>8, <2>9 DEF Reading
<1>8. over # "tail"
  BY <1>1, <1>2, ReadingTag
<1>9. QED
  BY <1>2, <1>6, <1>7, <1>8 DEF Reading

LEMMA BoardRuns ==
  ASSUME TypeInv, RunInv, AdcBoard
  PROVE  RunInv'
<1> SUFFICES ASSUME pc' = "run" PROVE Reading'
  BY DEF RunInv
<1>1. /\ pc = "run" /\ Tag = "board" /\ ReadOn /\ word' = "board" /\ nbrd' = nbrd + 1
      /\ ~AtEnd => buf' = [buf EXCEPT ![nbrd + 1] = Item.ev]
      /\ UNCHANGED <<setup, sent, over, found, head, trig, pending, files>>
  BY DEF AdcBoard, output
<1>2. Reading
  BY <1>1, NotYetTag, PhantomsTag, NextComesTag DEF RunInv
<1>3. Saved' = Saved /\ nbrd \in Nat
  BY <1>1, SavedStays, BoardsBound DEF TypeInv
<1>4. Current' /\ Len(pending') = 1 /\ sent' = head'.n /\ (word' = "trigger" => trig'.found)
  BY <1>1, <1>2, <1>3 DEF Reading, Current, Inner
<1> DEFINE T == Items(setup.zs)
<1>5. stream \in Seq(T)
  BY DEF TypeInv
<1> HIDE DEF T
<1>6. CASE over = "cut" /\ \A i \in 1..Len(stream) : stream[i].tag \in Inner
  <2>1. \A i \in 1..Len(stream') : stream'[i].tag \in Inner
    <3>1. CASE AtEnd
      BY <1>1, <1>6, <3>1, ReadOnIs
    <3>2. CASE ~AtEnd
      <4>1. stream' = Tail(stream) /\ stream # <<>> /\ \A i \in 2..Len(stream) : stream[i].tag \in Inner
        BY <1>1, <1>5, <1>6, <3>2, ReadOnIs DEF AtEnd
      <4>2. QED
        BY <1>5, <4>1, TailInner
    <3>3. QED
      BY <3>1, <3>2
  <2>2. QED
    BY <1>1, <1>4, <1>6, <2>1 DEF Reading
<1>7. CASE /\ over = "no" /\ IsRead(setup, pending[1], trig, nbrd, buf)
           /\ nbrd > 0 => trig.found
           /\ Rest(setup, pending[1], (IF trig.found THEN 2 ELSE 1) + nbrd, stream)
  <2> DEFINE e == pending[1]
  <2>1. ~AtEnd /\ trig.found /\ nbrd < Count(e) /\ Item = BoardItem(PacketOf(setup, e, nbrd + 1))
    BY <1>1, <1>2, <1>7, ReadingTag
  <2>2. stream # <<>> /\ e \in Sendable /\ stream' = Tail(stream)
    BY <1>1, <1>2, <2>1, PendingType, ReadOnIs DEF AtEnd, Reading
  <2>3. Rest(setup, e, 2 + nbrd, stream) /\ \A i \in 1..nbrd : buf[i] = PacketOf(setup, e, i)
    BY <1>7, <2>1 DEF IsRead
  <2>4. trig.n = e.n
    BY <1>7, <2>1 DEF IsRead
  <2> HIDE DEF e
  <2>5. Rest(setup, e, 2 + nbrd', stream')
    <3> DEFINE r == 2 + nbrd
    <3>1. r \in Nat /\ Rest(setup, e, r, stream)
      BY <1>3, <2>3
    <3> HIDE DEF r
    <3>2. Rest(setup, e, r + 1, Tail(stream))
      BY ONLY <1>5, <2>2, <3>1, RestTail
    <3>3. r + 1 = 2 + nbrd'
      BY <1>1, <1>3 DEF r
    <3>4. QED
      BY <2>2, <3>2, <3>3
  <2>6. Count(e) \in 0..NBoards /\ DOMAIN buf = 1..NBoards /\ NBoards \in Nat
    BY <2>2, PresentIs, BoardsBound DEF TypeInv
  <2>7. buf' = [buf EXCEPT ![nbrd + 1] = PacketOf(setup, e, nbrd + 1)]
    BY <1>1, <2>1 DEF BoardItem
  <2>8. ASSUME NEW i \in 1..nbrd' PROVE buf'[i] = PacketOf(setup, e, i)
    <3>1. CASE i = nbrd + 1
      BY <1>3, <2>1, <2>6, <2>7, <3>1
    <3>2. CASE i # nbrd + 1
      <4>1. i \in 1..nbrd /\ i \in 1..NBoards
        BY <1>1, <1>3, <2>1, <2>6, <3>2
      <4>2. buf'[i] = buf[i]
        BY <2>6, <2>7, <3>2, <4>1
      <4>3. QED
        BY <2>3, <4>1, <4>2
    <3>3. QED
      BY <3>1, <3>2
  <2>9. nbrd' <= Count(e)
    BY <1>1, <1>3, <2>1, <2>6
  <2>10. IsRead(setup, e, trig', nbrd', buf')
    BY <1>1, <2>4, <2>8, <2>9 DEF IsRead
  <2>11. Rest(setup, e, (IF trig'.found THEN 2 ELSE 1) + nbrd', stream')
    <3>1. (IF trig'.found THEN 2 ELSE 1) = 2
      BY <1>1, <2>1
    <3>2. QED
      BY <2>5, <3>1
  <2>12. Rest(setup', pending'[1], (IF trig'.found THEN 2 ELSE 1) + nbrd', stream')
        /\ IsRead(setup', pending'[1], trig', nbrd', buf')
    BY <1>1, <2>10, <2>11 DEF e
  <2>13. over' = "no" /\ (nbrd' > 0 => trig'.found)
    BY <1>1, <1>7, <2>1
  <2>14. QED
    BY <1>4, <2>12, <2>13 DEF Reading
<1>8. over # "tail"
  BY <1>1, <1>2, ReadingTag
<1>9. QED
  BY <1>2, <1>6, <1>7, <1>8 DEF Reading

LEMMA UnknownRuns ==
  ASSUME TypeInv, RunInv, UnknownTag
  PROVE  RunInv'
<1>1. pc = "run" /\ Tag = "other" /\ ReadOn
      /\ UNCHANGED <<setup, sent, over, pc, word, found, head, trig, nbrd, buf, pending, files>>
  BY DEF UnknownTag, output
<1>2. Reading
  BY <1>1, NotYetTag, PhantomsTag, NextComesTag DEF RunInv
<1>3. over = "cut" /\ \A i \in 1..Len(stream) : stream[i].tag \in Inner
  <2>1. over \in {"no", "tail", "cut"}
    BY DEF TypeInv
  <2>2. over = "cut"
    BY <1>1, <1>2, <2>1, ReadingTag DEF Inner
  <2>3. QED
    BY <1>2, <2>2 DEF Reading
<1>4. AtEnd
  <2>1. stream \in Seq(Items(setup.zs))
    BY DEF TypeInv
  <2>2. SUFFICES ASSUME stream # <<>> PROVE FALSE
    BY DEF AtEnd
  <2>3. 1 \in 1..Len(stream)
    BY <2>1, <2>2
  <2>4. QED
    BY <1>1, <1>3, <2>2, <2>3, TagIs DEF Inner
<1>5. stream' = stream /\ Saved' = Saved
  BY <1>1, <1>4, ReadOnIs, SavedStays
<1>6. Current' /\ Len(pending') = 1 /\ sent' = head'.n /\ (word' = "trigger" => trig'.found)
  BY <1>1, <1>2, <1>5 DEF Reading, Current
<1>7. over' = "cut" /\ \A i \in 1..Len(stream') : stream'[i].tag \in Inner
  BY <1>1, <1>3, <1>5
<1>8. QED
  BY <1>6, <1>7 DEF RunInv, Reading


-----------------------------------------------------------------------------
(* The invariant holds. *)

LEMMA RunStep ==
  ASSUME TypeInv, RunInv, [Next]_vars
  PROVE  RunInv'
<1>1. CASE UNCHANGED vars
  <2>1. UNCHANGED <<setup, stream, sent, over, pending, pc, word, found, head, trig, nbrd, buf, files>>
    BY <1>1 DEF vars, source, output
  <2>2. Saved' = Saved
    BY <2>1, SavedStays
  <2>3. NotYet' = NotYet /\ Phantoms' = Phantoms /\ Current' = Current
    BY <2>1, <2>2 DEF NotYet, Phantoms, PhantomEvents, Current
  <2>4. Reading' = Reading /\ NextComes' = NextComes
    BY <2>1, <2>3 DEF Reading, NextComes
  <2>5. QED
    BY <2>1, <2>3, <2>4 DEF RunInv
<1>2. CASE EndOfFile \/ UnpackFails \/ FileExists
  BY <1>2 DEF EndOfFile, UnpackFails, FileExists, RunInv
<1>3. QED
  BY <1>1, <1>2, SendRuns, CloseRuns, CutRuns, HeaderRuns, TriggerRuns, BoardRuns, UnknownRuns
     DEF Next, Writer, Loop

(* The files. *)
LEMMA SaveInFiles ==
  ASSUME TypeInv, FilesInv, pc = "run", Save, setup' = setup, pc' = "run" => ~(FileFull /\ NameTaken)
  PROVE  FilesInv'
<1> DEFINE n == Len(files)
<1> DEFINE p == setup.perFile
<1>1. files \in Seq(FileType) /\ files # <<>> /\ n \in Nat /\ n > 0
  BY DEF TypeInv
<1>2. p \in Nat
  BY Level1Assumption DEF TypeInv, SetupType
<1>3. IsFilled(files, head.n, Filled) /\ head.n \in Nat
  BY SaveFills DEF TypeInv
<1>4. \A i \in 1..n : Len(files[i]) \in Nat
  BY <1>1 DEF FileType
<1> DEFINE g == Filled
<1>5. /\ g \in Seq(FileType) /\ Len(g) = n /\ g # <<>> /\ (\A i \in 1..(n - 1) : g[i] = files[i])
      /\ Len(g[n]) = Len(files[n]) + 1
  <2>1. g \in Seq(FileType) /\ Len(g) = n /\ g # <<>> /\ (\A i \in 1..(n - 1) : g[i] = files[i])
        /\ g[n] = Append(files[n], head.n)
    BY <1>3 DEF IsFilled
  <2>2. files[n] \in Seq(Nat)
    BY <1>1 DEF FileType
  <2>3. Len(Append(files[n], head.n)) = Len(files[n]) + 1
    BY <2>2
  <2>4. QED
    BY <2>1, <2>3
<1>6. files' = IF FileFull /\ ~NameTaken THEN Append(g, <<>>) ELSE g
  BY SaveFills
<1> HIDE DEF g
<1>7. /\ p > 0 => (\A i \in 1..n - 1 : Len(files[i]) = p) /\ Len(files[n]) < p
      /\ \A i \in 2..n : i - 1 \notin setup.exists
  BY DEF FilesInv
<1>8. FileFull <=> p > 0 /\ Len(files[n]) + 1 >= p
  BY DEF FileFull
<1>9. NameTaken <=> n \in setup.exists
  BY DEF NameTaken
<1> HIDE DEF p, n
<1>10. CASE ~(FileFull /\ ~NameTaken)
  <2>1. files' = g
    BY <1>6, <1>10
  <2>2. Len(files') = n /\ (\A i \in 1..(n - 1) : files'[i] = files[i]) /\ Len(files'[n]) = Len(files[n]) + 1
    BY <1>5, <2>1
  <2>3. ASSUME p > 0
        PROVE  /\ \A i \in 1..n - 1 : Len(files'[i]) = p
               /\ Len(files'[n]) <= p
               /\ pc' = "run" => Len(files'[n]) < p
    <3>1. \A i \in 1..n - 1 : Len(files'[i]) = p
      BY <1>7, <2>2, <2>3
    <3>2. Len(files[n]) \in Nat /\ Len(files[n]) < p /\ Len(files'[n]) = Len(files[n]) + 1
      BY <1>1, <1>4, <1>7, <2>2, <2>3
    <3>3. pc' = "run" => ~(Len(files[n]) + 1 >= p)
      BY <1>8, <1>10, <2>3
    <3>4. QED
      BY <1>2, <3>1, <3>2, <3>3
  <2>4. \A i \in 2..n : i - 1 \notin setup.exists
    BY <1>7
  <2>5. p = setup'.perFile /\ n = Len(files') /\ setup.exists = setup'.exists
    BY <2>2 DEF p
  <2>6. QED
    BY <2>3, <2>4, <2>5 DEF FilesInv
<1>11. CASE FileFull /\ ~NameTaken
  <2>1. files' = Append(g, <<>>)
    BY <1>6, <1>11
  <2>2. <<>> \in FileType
    BY DEF FileType
  <2>3. Len(files') = n + 1 /\ files'[n + 1] = <<>> /\ \A i \in 1..n : files'[i] = g[i]
    BY <1>1, <1>5, <2>1, <2>2
  <2>4. p > 0 /\ Len(files[n]) \in Nat /\ Len(files[n]) + 1 = p
    BY <1>1, <1>2, <1>4, <1>7, <1>8, <1>11
  <2>5. ASSUME NEW i \in 1..n PROVE Len(files'[i]) = p
    <3>1. CASE i = n
      BY <1>5, <2>3, <2>4, <3>1
    <3>2. CASE i # n
      <4>1. i \in 1..(n - 1)
        BY <1>1, <3>2
      <4>2. files'[i] = files[i]
        BY <1>5, <2>3, <4>1
      <4>3. QED
        BY <1>7, <2>4, <4>1, <4>2
    <3>3. QED
      BY <3>1, <3>2
  <2>6. Len(files'[n + 1]) = 0
    BY <2>3
  <2>7. ASSUME NEW i \in 2..(n + 1) PROVE i - 1 \notin setup.exists
    BY <1>1, <1>7, <1>9, <1>11
  <2>8. p = setup'.perFile /\ n + 1 = Len(files') /\ setup.exists = setup'.exists /\ (n + 1) - 1 = n
    BY <1>1, <2>3 DEF p
  <2>9. QED
    BY <2>4, <2>5, <2>6, <2>7, <2>8 DEF FilesInv
<1>12. QED
  BY <1>10, <1>11

LEMMA FilesStay ==
  ASSUME FilesInv, setup' = setup, files' = files, pc' = "run" => pc = "run"
  PROVE  FilesInv'
  BY DEF FilesInv

LEMMA FilesStep ==
  ASSUME TypeInv, FilesInv, [Next]_vars
  PROVE  FilesInv'
<1>1. CASE (EventHeader \/ EndOfFile) /\ found
  <2>1. pc = "run" /\ Save /\ setup' = setup /\ ~(FileFull /\ NameTaken)
    BY <1>1 DEF EventHeader, EndOfFile, SavePrevious
  <2>2. QED
    BY <2>1, SaveInFiles
<1>2. CASE (EventHeader \/ EndOfFile) /\ ~found
  <2>1. pc = "run" /\ setup' = setup /\ files' = files
    BY <1>2 DEF EventHeader, EndOfFile, SavePrevious, output
  <2>2. QED
    BY <2>1, FilesStay
<1>3. CASE FileExists
  <2>1. pc = "run" /\ Save /\ setup' = setup /\ pc' # "run"
    BY <1>3 DEF FileExists
  <2>2. QED
    BY <2>1, SaveInFiles
<1>4. CASE Send \/ CloseStream \/ Cut \/ UnpackFails \/ TriggerInfo \/ AdcBoard \/ UnknownTag \/ UNCHANGED vars
  <2>1. setup' = setup /\ files' = files /\ (pc' = "run" => pc = "run")
    BY <1>4 DEF Send, CloseStream, Cut, UnpackFails, TriggerInfo, AdcBoard, UnknownTag, vars, source, output
  <2>2. QED
    BY <2>1, FilesStay
<1>5. QED
  BY <1>1, <1>2, <1>3, <1>4 DEF Next, Writer, Loop

(* What is saved is the event that comes next, but for the phantoms.       *)
LEMMA SavesNext ==
  ASSUME RunInv, pc = "run", found
  PROVE  PhantomEvents \/ Current
  BY DEF RunInv, NotYet, Phantoms, Reading, NextComes

LEMMA PhantomsStay ==
  ASSUME PhantomEvents, [Next]_vars
  PROVE  PhantomEvents'
<1>1. UNCHANGED <<over, sent, setup>>
  BY DEF Next, Writer, Loop, Send, CloseStream, Cut, EventHeader, EndOfFile, UnpackFails, FileExists,
         TriggerInfo, AdcBoard, UnknownTag, PhantomEvents, vars, source
<1>2. QED
  BY <1>1 DEF PhantomEvents

LEMMA NumberedStep ==
  ASSUME TypeInv, RunInv, Numbered, [Next]_vars
  PROVE  Numbered'
<1>1. CASE PhantomEvents
  BY <1>1, PhantomsStay DEF Numbered
<1>2. CASE ~PhantomEvents
  <2>1. Saved = [i \in 1..Len(Saved) |-> i]
    BY <1>2 DEF Numbered
  <2>2. CASE files' = files
    <3>1. Saved' = Saved
      BY <2>2, SavedStays
    <3> DEFINE s == Saved
    <3>2. s = [i \in 1..Len(s) |-> i]
      BY <2>1
    <3>3. Saved' = s
      BY <3>1
    <3> HIDE DEF s
    <3>4. Saved' = [i \in 1..Len(Saved') |-> i]
      BY <3>2, <3>3
    <3>5. QED
      BY <3>4 DEF Numbered
  <2>3. CASE files' # files
    <3>1. pc = "run" /\ found /\ Save
      BY <2>3 DEF Next, Writer, Loop, Send, CloseStream, Cut, EventHeader, EndOfFile, UnpackFails, FileExists,
                  TriggerInfo, AdcBoard, UnknownTag, SavePrevious, vars, source, output
    <3>2. head.n = Len(Saved) + 1
      BY <1>2, <3>1, SavesNext DEF Current
    <3>3. Saved' = [i \in 1..Len(Saved') |-> i]
      BY <2>1, <3>1, <3>2, SaveFills
    <3>4. QED
      BY <3>3 DEF Numbered
  <2>4. QED
    BY <2>2, <2>3
<1>3. QED
  BY <1>1, <1>2


(* A complete event is lost only if its groups have a gap. *)
LEMMA CompleteFits ==
  ASSUME NEW su \in Setups, NEW e \in Sendable, NEW i \in 1..Count(e), NEW old,
         ~(su.zs.algr # 0 /\ su.low # 0 /\ \E b \in Boards : HasGap(su.groups[b]))
  PROVE  Unpack(PacketOf(su, e, i), old).fits
<1> DEFINE b == Present(e)[i]
<1> DEFINE a == AcquiredBy(su, e, b)
<1> DEFINE zs == su.zs
<1>1. b \in Boards
  BY PresentIs
<1>2. a \in Acquisitions /\ zs \in ZsSettings
  BY <1>1, AcquiredType
<1>3. PacketOf(su, e, i) = Sent(zs, a)
  BY PacketIs
<1>4. a.groups = su.groups[b] /\ a.low = su.low
  BY DEF AcquiredBy
<1>5. zs.algr = 0 \/ a.low = 0 \/ ~HasGap(a.groups)
  BY <1>1, <1>4
<1> HIDE DEF b, a, zs
<1>6. Unpack(Sent(zs, a), old).fits
  BY <1>2, <1>5, RoundTrip
<1>7. QED
  BY <1>3, <1>6

LEMMA CompleteUnpacks ==
  ASSUME TypeInv, NEW e \in Sendable, IsComplete(setup, e, trig, nbrd, buf), ~CanUnpack
  PROVE  setup.zs.algr # 0 /\ setup.low # 0 /\ \E b \in Boards : HasGap(setup.groups[b])
<1>1. PICK i \in 1..nbrd : ~Unpacked(i).fits
  BY DEF CanUnpack
<1>2. i \in 1..Count(e) /\ buf[i] = PacketOf(setup, e, i)
  BY <1>1 DEF IsComplete, IsRead
<1> DEFINE old == adc[i]
<1>3. ~Unpack(PacketOf(setup, e, i), old).fits
  BY <1>1, <1>2 DEF Unpacked
<1> HIDE DEF old
<1>4. QED
  BY <1>2, <1>3, CompleteFits DEF TypeInv

LEMMA UnpackLoses ==
  ASSUME TypeInv, RunInv, UnpackFails
  PROVE  setup.zs.algr # 0 /\ setup.low # 0 /\ \E b \in Boards : HasGap(setup.groups[b])
<1>1. pc = "run" /\ Tag \in {"header", "tail"} /\ found /\ ~CanUnpack
  BY DEF UnpackFails
<1>2. ~NotYet /\ ~Phantoms
  BY <1>1, BoardsBound DEF NotYet, Phantoms, CanUnpack
<1>3. pending[1] \in Sendable
  BY <1>1, <1>2, PendingType DEF RunInv, Reading, NextComes
<1>4. IsComplete(setup, pending[1], trig, nbrd, buf)
  <2>1. CASE Reading
    <3>1. over = "tail"
      BY <1>1, <2>1, ReadingTag DEF Inner, TypeInv
    <3>2. QED
      BY <2>1, <3>1 DEF Reading
  <2>2. CASE NextComes
    BY <2>2 DEF NextComes
  <2>3. QED
    BY <1>1, <1>2, <2>1, <2>2 DEF RunInv
<1> DEFINE e == pending[1]
<1>5. e \in Sendable /\ IsComplete(setup, e, trig, nbrd, buf)
  BY <1>3, <1>4
<1> HIDE DEF e
<1>6. QED
  BY <1>1, <1>5, CompleteUnpacks

LEMMA ClosedIsSaved ==
  ASSUME TypeInv, RunInv, EndOfFile, over = "tail"
  PROVE  Len(Saved') = sent
<1>1. pc = "run" /\ Tag = "tail" /\ SavePrevious
  BY DEF EndOfFile
<1>2. CASE NotYet
  <2>1. files' = files /\ Len(Saved) = 0
    BY <1>1, <1>2 DEF NotYet, SavePrevious, output
  <2>2. sent = 0
    BY <1>2, NotYetTag
  <2>3. QED
    BY <2>1, <2>2, SavedStays
<1>3. CASE Reading
  <2>1. found /\ head.n = Len(Saved) + 1 /\ sent = head.n
    BY <1>3 DEF Reading, Current
  <2>2. Save
    BY <1>1, <2>1 DEF SavePrevious
  <2>3. QED
    BY <2>1, <2>2, SaveFills
<1>4. ~Phantoms /\ ~NextComes
  BY NextComesTag DEF Phantoms, PhantomEvents
<1>5. QED
  BY <1>1, <1>2, <1>3, <1>4 DEF RunInv

LEMMA EndNeedsEnd ==
  ASSUME TypeInv, RunInv, EndOfFile
  PROVE  over # "no"
<1>1. pc = "run" /\ Tag = "tail"
  BY DEF EndOfFile
<1>2. QED
  BY <1>1, NotYetTag, PhantomsTag, ReadingTag, NextComesTag DEF RunInv, Inner

LEMMA EndedStep ==
  ASSUME TypeInv, RunInv, Ended, [Next]_vars
  PROVE  Ended'
<1>1. CASE EndOfFile
  BY <1>1, EndNeedsEnd DEF EndOfFile, Ended
<1>2. CASE ~EndOfFile
  BY <1>2 DEF Ended, Next, Writer, Loop, Send, CloseStream, Cut, EventHeader, UnpackFails, FileExists,
              TriggerInfo, AdcBoard, UnknownTag, vars, source
<1>3. QED
  BY <1>1, <1>2

LEMMA LostInEvent ==
  ASSUME TypeInv, RunInv, TriggerInfo \/ AdcBoard, pc' = "aborted"
  PROVE  over = "cut" /\ Len(Saved) = sent - 1
<1>1. pc = "run" /\ Tag \in Inner
  BY DEF TriggerInfo, AdcBoard, Inner
<1>2. Reading
  BY <1>1, NotYetTag, PhantomsTag, NextComesTag DEF RunInv, Inner
<1>3. found /\ sent = Len(Saved) + 1 /\ Len(Saved) = sent - 1
  <2>1. found /\ sent = Len(Saved) + 1
    BY <1>2 DEF Reading, Current
  <2>2. sent \in Nat /\ Saved \in Seq(Nat)
    BY FilledIs DEF TypeInv, Saved
  <2>3. Len(Saved) \in Nat
    BY <2>2
  <2>4. QED
    BY <2>1, <2>3
<1>4. over # "tail"
  BY <1>1, <1>2, ReadingTag DEF Inner
<1>5. over # "no"
  <2> SUFFICES ASSUME over = "no" PROVE FALSE
    OBVIOUS
  <2>1. CASE TriggerInfo
    <3>1. ~trig.found
      BY <1>2, <2>1, ReadingTag DEF TriggerInfo
    <3>2. QED
      BY <1>1, <1>3, <2>1, <3>1 DEF TriggerInfo
  <2>2. CASE AdcBoard
    <3>1. nbrd < Count(pending[1])
      BY <1>2, <2>2, ReadingTag DEF AdcBoard
    <3>2. Count(pending[1]) \in 0..NBoards
      BY <1>2, PendingType, PresentIs DEF Reading
    <3>3. nbrd \in 0..NBoards /\ NBoards \in Nat
      BY BoardsBound DEF TypeInv
    <3>4. ~TooManyBoards
      BY <3>1, <3>2, <3>3 DEF TooManyBoards
    <3>5. QED
      BY <1>1, <1>3, <2>2, <3>4 DEF AdcBoard
  <2>3. QED
    BY <2>1, <2>2
<1>6. QED
  BY <1>3, <1>4, <1>5 DEF TypeInv

LEMMA LossesStep ==
  ASSUME TypeInv, RunInv, Ended, KnownLosses, [Next]_vars
  PROVE  KnownLosses'
<1>1. CASE EndOfFile
  BY <1>1, ClosedIsSaved DEF EndOfFile, KnownLosses
<1>2. CASE UnpackFails
  BY <1>2, UnpackLoses DEF UnpackFails, KnownLosses
<1>3. CASE FileExists
  <2>1. Save /\ FileFull /\ NameTaken /\ setup' = setup /\ pc' = "aborted"
    BY <1>3 DEF FileExists
  <2>2. Len(files') = Len(files)
    BY <2>1, SaveFills DEF IsFilled
  <2>3. QED
    BY <2>1, <2>2 DEF NameTaken, KnownLosses
<1>4. CASE (TriggerInfo \/ AdcBoard) /\ pc' = "aborted"
  <2>1. over = "cut" /\ Len(Saved) = sent - 1
    BY <1>4, LostInEvent
  <2>2. over' = over /\ sent' = sent /\ files' = files
    BY <1>4 DEF TriggerInfo, AdcBoard, output
  <2>3. Saved' = Saved
    BY <2>2, SavedStays
  <2>4. QED
    BY <1>4, <2>1, <2>2, <2>3 DEF KnownLosses
<1>5. CASE EventHeader \/ ((TriggerInfo \/ AdcBoard) /\ pc' # "aborted")
  BY <1>5 DEF EventHeader, TriggerInfo, AdcBoard, KnownLosses
<1>6. CASE Send \/ CloseStream \/ Cut
  <2>1. over = "no" /\ pc' = pc /\ setup' = setup /\ files' = files
    BY <1>6 DEF Send, CloseStream, Cut, output
  <2>2. QED
    BY <2>1 DEF Ended, KnownLosses
<1>7. CASE UnknownTag \/ UNCHANGED vars
  <2>1. UNCHANGED <<setup, sent, over, pc, files>>
    BY <1>7 DEF UnknownTag, vars, source, output
  <2>2. Saved' = Saved
    BY <2>1, SavedStays
  <2>3. QED
    BY <2>1, <2>2 DEF KnownLosses
<1>8. QED
  BY <1>1, <1>2, <1>3, <1>4, <1>5, <1>6, <1>7 DEF Next, Writer, Loop

(***************************************************************************)
(* The invariant of a run.                                                 *)
(***************************************************************************)
IInv == TypeInv /\ RunInv /\ FilesInv /\ Numbered /\ Ended /\ KnownLosses

LEMMA InitInv == Init => IInv
<1> SUFFICES ASSUME Init PROVE IInv
  OBVIOUS
<1> USE DEF Init
<1>1. setup \in SetupType /\ setup.perFile \in Nat /\ setup \in Setups
  BY Level1Assumption DEF SetupType
<1>2. files = <<<<>>>> /\ <<>> \in FileType
  BY DEF FileType
<1>3. files \in Seq(FileType) /\ files # <<>> /\ Len(files) = 1 /\ files[1] = <<>>
  BY <1>2
<1>4. Saved = <<>>
  <2> DEFINE s == <<>>
  <2>1. s \in Seq(Nat) /\ files = <<s>> /\ s = <<>>
    OBVIOUS
  <2> HIDE DEF s
  <2>2. FlattenSeq(<<s>>) = s
    BY <2>1, FlattenOne
  <2>3. QED
    BY <2>1, <2>2 DEF Saved
<1>5. TypeInv
  <2>1. stream \in Seq(Items(setup.zs)) /\ pending \in Seq(Sendable)
    OBVIOUS
  <2>2. nbrd \in 0..NBoards
    BY BoardsBound
  <2>3. head \in [n : Nat, missing : SUBSET Boards] /\ trig \in [found : BOOLEAN, n : Nat]
    OBVIOUS
  <2>4. QED
    BY <1>1, <1>3, <2>1, <2>2, <2>3 DEF TypeInv
<1>6. RunInv
  <2>1. Len(Saved) = 0
    BY <1>4
  <2>2. NotYet
    BY <2>1 DEF NotYet
  <2>3. QED
    BY <2>2 DEF RunInv
<1>7. FilesInv
  BY <1>1, <1>3 DEF FilesInv
<1>8. Numbered
  <2>1. Saved = [i \in 1..Len(Saved) |-> i]
    BY <1>4
  <2>2. QED
    BY <2>1 DEF Numbered
<1>9. Ended /\ KnownLosses
  BY DEF Ended, KnownLosses
<1>10. QED
  BY <1>5, <1>6, <1>7, <1>8, <1>9 DEF IInv

LEMMA Invariance == Spec => []IInv
<1>1. IInv /\ [Next]_vars => IInv'
  BY TypeStep, RunStep, FilesStep, NumberedStep, EndedStep, LossesStep DEF IInv
<1>2. QED
  BY <1>1, InitInv, PTL DEF Spec

(***************************************************************************)
(* Whatever the setup, the events and the merger's death: the files hold   *)
(* the events in order, each but the last as many as were asked for, and   *)
(* none is opened that was there before (RootIO.cc, ChangeOutFile).        *)
(***************************************************************************)
THEOREM FilesInOrder == Spec => []FilesKeepOrder
<1>1. IInv => FilesKeepOrder
  <2> SUFFICES ASSUME IInv PROVE FilesKeepOrder
    OBVIOUS
  <2> DEFINE n == Len(files)
  <2>1. n \in Nat /\ DOMAIN files = 1..n
    BY DEF IInv, TypeInv
  <2>0. /\ setup.perFile > 0 => (\A i \in 1..n - 1 : Len(files[i]) = setup.perFile) /\ Len(files[n]) <= setup.perFile
        /\ \A i \in 2..n : i - 1 \notin setup.exists
        /\ PhantomEvents \/ Saved = [i \in 1..Len(Saved) |-> i]
    BY DEF IInv, FilesInv, Numbered
  <2>5. n = Len(files)
    OBVIOUS
  <2> HIDE DEF n
  <2>2. setup.perFile \in Nat
    BY Level1Assumption DEF IInv, TypeInv, SetupType
  <2>3. ASSUME setup.perFile > 0, NEW i \in 1..n PROVE Len(files[i]) <= setup.perFile
    <3>1. CASE i = n
      BY <2>0, <2>3, <3>1
    <3>2. CASE i # n
      <4>1. i \in 1..n - 1
        BY <2>1, <3>2
      <4>2. Len(files[i]) = setup.perFile
        BY <2>0, <2>3, <4>1
      <4>3. QED
        BY <2>2, <4>2
    <3>3. QED
      BY <3>1, <3>2
  <2>4. QED
    BY <2>0, <2>1, <2>3, <2>5 DEF FilesKeepOrder
<1>2. QED
  BY <1>1, Invariance, PTL

(***************************************************************************)
(* A stream that was closed is saved in full, and Level1 gives up only     *)
(* over a file that exists, a gap in the enabled groups, or the event that *)
(* was being read when the merger died (PadmeLevel1.cpp, UnpackEvent).     *)
(***************************************************************************)
THEOREM LossesKnown == Spec => []KnownLosses
<1>1. IInv => KnownLosses
  BY DEF IInv
<1>2. QED
  BY <1>1, Invariance, PTL


(* If no board up to b is missing, b is the b-th that is present.          *)
LEMMA PresentPrefix ==
  ASSUME NEW e \in Sendable, NEW i \in 1..Count(e), NEW b, b = Present(e)[i], 1..b \cap e.missing = {}
  PROVE  i = b
<1> DEFINE s == Present(e)
<1> DEFINE c == Count(e)
<1> DEFINE S == Boards \ e.missing
<1>1. /\ c \in Nat /\ b \in Nat /\ b > 0 /\ 1..b \subseteq S /\ i \in 1..c /\ b = s[i]
      /\ \A j \in 1..c : s[j] \in Nat /\ s[j] > 0
      /\ \A j, k \in 1..c : j < k => s[j] < s[k]
      /\ \A x \in S : \E k \in 1..c : s[k] = x
  <2>1. /\ c \in Nat /\ \A j \in 1..c : s[j] \in S
        /\ \A j, k \in 1..c : j < k => s[j] < s[k]
        /\ \A x \in S : \E k \in 1..c : s[k] = x
    <3>1. c \in Nat
      BY PresentIs
    <3>2. \A j \in 1..c : s[j] \in S
      BY PresentIs
    <3>3. \A j, k \in 1..c : j < k => s[j] < s[k]
      BY PresentIs
    <3>4. \A x \in S : \E k \in 1..c : s[k] = x
      BY PresentIs
    <3> HIDE DEF s, c, S
    <3>5. QED
      BY <3>1, <3>2, <3>3, <3>4
  <2>2. NBoards \in Nat /\ Boards = 1..NBoards
    BY BoardsBound
  <2>3. b \in S
    BY <2>1
  <2>4. 1..b \subseteq S
    BY <2>2, <2>3
  <2>5. \A x \in S : x \in Nat /\ x > 0
    BY <2>2
  <2> HIDE DEF s, c, S
  <2>6. QED
    BY <2>1, <2>3, <2>4, <2>5 DEF s, c
<1> HIDE DEF s, c, S
<1> DEFINE N == {j \in 0..b : j = 0 \/ (j <= c /\ s[j] = j)}
<1>2. ASSUME NEW j \in 1..b, j - 1 \in N PROVE j \in N
  <2>1. PICK k \in 1..c : s[k] = j
    BY <1>1
  <2>2. ~(k < j)
    <3> SUFFICES ASSUME k < j PROVE FALSE
      OBVIOUS
    <3>1. j - 1 # 0 /\ j - 1 <= c /\ s[j - 1] = j - 1 /\ j - 1 \in 1..c
      BY <1>1, <1>2
    <3>2. k = j - 1 \/ k < j - 1
      BY <1>1
    <3>3. s[k] <= j - 1
      BY <1>1, <3>1, <3>2
    <3>4. QED
      BY <1>1, <2>1, <3>3
  <2>3. ~(j < k)
    <3> SUFFICES ASSUME j < k PROVE FALSE
      OBVIOUS
    <3>1. j \in 1..c /\ s[j] < j /\ s[j] \in Nat /\ s[j] > 0
      BY <1>1, <2>1
    <3>2. CASE j = 1
      BY <3>1, <3>2
    <3>3. CASE j # 1
      <4>1. s[j - 1] = j - 1 /\ j - 1 \in 1..c
        BY <1>1, <1>2, <3>1, <3>3
      <4>2. s[j - 1] < s[j]
        BY <1>1, <3>1, <4>1
      <4>3. QED
        BY <3>1, <4>1, <4>2
    <3>4. QED
      BY <3>2, <3>3
  <2>4. k = j
    BY <1>1, <2>2, <2>3
  <2>5. QED
    BY <1>1, <2>1, <2>4
<1>3. 0 \in N
  BY <1>1
<1> HIDE DEF N
<1>4. b \in N
  <2>1. b \in Nat /\ b \in 0..b
    BY <1>1
  <2>2. \A j \in 1..b : j - 1 \in N => j \in N
    BY <1>2
  <2>3. \A j \in 0..b : j \in N
    BY ONLY <1>3, <2>1, <2>2, StepByStep
  <2>4. QED
    BY <2>1, <2>3
<1>5. b \in 1..c /\ s[b] = b
  BY <1>1, <1>4 DEF N
<1>6. QED
  BY <1>1, <1>5

LEMMA BoardSaved ==
  ASSUME TypeInv, NEW e \in Sendable, IsComplete(setup, e, trig, nbrd, buf), CanUnpack, NEW i \in 1..nbrd,
         NEW b, b = Present(e)[i], NEW s, s = FillBoard(Unpacked(i), i)
  PROVE  s = Expected(setup.zs, Acquired(e, b), s.sn) /\ s.sn = i
<1>1. i \in 1..Count(e) /\ buf[i] = PacketOf(setup, e, i)
  BY DEF IsComplete, IsRead
<1> DEFINE a == AcquiredBy(setup, e, b)
<1> DEFINE zs == setup.zs
<1>2. b \in Boards /\ setup \in Setups
  BY <1>1, PresentIs DEF TypeInv
<1>3. a \in Acquisitions /\ zs \in ZsSettings
  BY <1>2, AcquiredType
<1>4. buf[i] = Sent(zs, a)
  BY <1>1, <1>2, PacketIs
<1>5. Acquired(e, b) = a
  BY DEF Acquired, AcquiredBy
<1> DEFINE old == adc[i]
<1>6. Unpacked(i) = Unpack(Sent(zs, a), old) /\ Unpacked(i).fits
  BY <1>4 DEF Unpacked, CanUnpack
<1> HIDE DEF a, zs, old
<1>7. s = Expected(zs, a, i)
  BY <1>3, <1>6, RoundTrip
<1>8. Expected(zs, a, i).sn = i
  BY DEF Expected
<1>9. QED
  BY <1>5, <1>7, <1>8 DEF zs

(***************************************************************************)
(* Every event that is saved is the oldest that was not, and has of every  *)
(* board what the board acquired and zero suppression should keep; its     *)
(* serial number if no board before it is missing.  What a cut stream left *)
(* of an event is never saved (PadmeLevel1.cpp, FillRawEvent).             *)
(***************************************************************************)
THEOREM RunsSaveAcquired == Spec => SavedIsAcquired
<1>1. IInv /\ [Next]_vars => [files' # files => PhantomEvents \/ SavesOldest]_vars
  <2> SUFFICES ASSUME IInv, [Next]_vars, files' # files, ~PhantomEvents
               PROVE  SavesOldest
    OBVIOUS
  <2>1. TypeInv /\ RunInv
    BY DEF IInv
  <2>2. /\ pc = "run" /\ found /\ Save /\ CanUnpack /\ Tag \in {"header", "tail"}
    BY DEF Next, Writer, Loop, Send, CloseStream, Cut, EventHeader, EndOfFile, UnpackFails, FileExists,
           TriggerInfo, AdcBoard, UnknownTag, SavePrevious, vars, source, output
  <2>3. ~NotYet /\ ~Phantoms
    BY <2>2 DEF NotYet, Phantoms
  <2> DEFINE e == pending[1]
  <2>4. e \in Sendable /\ head.n = e.n /\ head.missing = e.missing
    BY <2>1, <2>2, <2>3, PendingType DEF RunInv, Reading, NextComes, Current
  <2>5. IsComplete(setup, e, trig, nbrd, buf)
    <3>1. CASE Reading
      <4>1. over = "tail"
        BY <2>1, <2>2, <3>1, ReadingTag DEF Inner, TypeInv
      <4>2. QED
        BY <3>1, <4>1 DEF Reading
    <3>2. CASE NextComes
      BY <3>2 DEF NextComes
    <3>3. QED
      BY <2>1, <2>2, <2>3, <3>1, <3>2 DEF RunInv
  <2>6. saved' = RawEvent
    BY <2>2 DEF Save
  <2> DEFINE r == saved'
  <2>7. r.n = head.n /\ r.missing = head.missing /\ r.trig = trig.n /\ r.boards = [i \in 1..nbrd |-> FillBoard(Unpacked(i), i)]
    BY <2>6 DEF RawEvent
  <2> HIDE DEF e, r
  <2>8. trig.n = e.n /\ nbrd = Count(e) /\ nbrd \in Nat
    BY <2>1, <2>5, BoardsBound DEF IsComplete, IsRead, TypeInv
  <2>9. DOMAIN Present(e) = 1..nbrd /\ Len(Present(e)) = nbrd /\ Len(r.boards) = nbrd
    BY <2>4, <2>7, <2>8, PresentIs
  <2>10. ASSUME NEW i \in 1..nbrd, NEW b, b = Present(e)[i], NEW s, s = r.boards[i]
         PROVE  /\ s = Expected(setup.zs, Acquired(e, b), s.sn)
                /\ 1..b \cap e.missing = {} => s.sn = b
    <3>1. s = FillBoard(Unpacked(i), i)
      BY <2>7, <2>10
    <3>2. s = Expected(setup.zs, Acquired(e, b), s.sn) /\ s.sn = i
      BY <2>1, <2>2, <2>4, <2>5, <2>10, <3>1, BoardSaved
    <3>3. 1..b \cap e.missing = {} => i = b
      BY <2>4, <2>8, <2>10, PresentPrefix
    <3>4. QED
      BY <3>2, <3>3
  <2>11. \A i \in DOMAIN Present(e) :
           LET b == Present(e)[i]  s == r.boards[i] IN
             /\ s = Expected(setup.zs, Acquired(e, b), s.sn)
             /\ 1..b \cap e.missing = {} => s.sn = b
    BY <2>9, <2>10
  <2>12. r.n = e.n /\ r.trig = e.n /\ r.missing = e.missing /\ Len(r.boards) = Len(Present(e))
    BY <2>4, <2>7, <2>8, <2>9
  <2>13. QED
    BY <2>11, <2>12 DEF SavesOldest, e, r
<1>2. QED
  BY <1>1, Invariance, PTL DEF Spec, SavedIsAcquired

==============================================================================

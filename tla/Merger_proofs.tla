---------------------------- MODULE Merger_proofs ----------------------------
(***************************************************************************)
(* Proofs about Merger, for any boards, counters, tolerance, number of     *)
(* triggers, and whatever the boards recorded.                             *)
(***************************************************************************)
EXTENDS Merger, FiniteSetTheorems, WellFoundedInduction, TLAPS

-----------------------------------------------------------------------------
(* Numbers. *)

LEMMA LeastElement ==
  ASSUME NEW S, S \subseteq Nat, S # {}
  PROVE  \E x \in S : \A y \in S : x <= y
<1>1. PICK x \in S : \A y \in S : ~ (<<y, x>> \in OpToRel(<, Nat))
  BY WFMin, NatLessThanWellFounded
<1>2. \A y \in S : <<y, x>> \in OpToRel(<, Nat) <=> y < x
  BY DEF OpToRel
<1>3. \A y \in S : ~ (y < x)
  BY <1>1, <1>2, Zenon
<1>4. QED
  BY <1>3

LEMMA MinOf ==
  ASSUME NEW S, S \subseteq Nat, S # {}
  PROVE  Min(S) \in S /\ \A y \in S : Min(S) <= y
  BY LeastElement DEF Min

LEMMA MinIs ==
  ASSUME NEW S, S \subseteq Nat, NEW n \in S, \A y \in S : n <= y
  PROVE  Min(S) = n
<1>1. S # {}
  OBVIOUS
<1>2. Min(S) \in Nat /\ n \in Nat /\ Min(S) <= n /\ n <= Min(S)
  BY <1>1, MinOf
<1>3. QED
  BY <1>2

LEMMA MaxIs ==
  ASSUME NEW S, S \subseteq Nat, NEW n \in S, \A y \in S : y <= n
  PROVE  Max(S) = n
<1>0. \E x \in S : \A y \in S : x >= y
  OBVIOUS
<1>1. Max(S) \in S /\ \A y \in S : Max(S) >= y
  BY <1>0 DEF Max
<1>2. Max(S) \in Nat /\ n \in Nat /\ Max(S) <= n /\ n <= Max(S)
  BY <1>1
<1>3. QED
  BY <1>2

LEMMA MaxOf ==
  ASSUME NEW m \in Nat, NEW S, S \subseteq 0..m, S # {}
  PROVE  Max(S) \in S /\ \A y \in S : y <= Max(S)
<1> DEFINE D == {m - y : y \in S}
<1>0. ASSUME NEW y \in S PROVE y \in 0..m /\ m - y \in Nat
  OBVIOUS
<1>1. PICK d \in D : \A e \in D : d <= e
  <2>1. \A d \in D : d \in Nat
    BY <1>0
  <2>2. PICK z : z \in S
    OBVIOUS
  <2>3. m - z \in D
    BY <2>2
  <2>4. D \subseteq Nat /\ D # {}
    BY <2>1, <2>3
  <2>5. QED
    BY <2>4, LeastElement
<1>2. PICK x \in S : d = m - x
  OBVIOUS
<1>3. \A y \in S : x >= y
  BY <1>1, <1>2
<1>4. Max(S) \in S /\ \A y \in S : Max(S) >= y
  BY <1>3 DEF Max
<1>5. QED
  BY <1>4

(* Induction, over the elements of a set.                                  *)
LEMMA Induction ==
  ASSUME NEW S, 0 \in S, \A n \in Nat : n \in S => n + 1 \in S
  PROVE  Nat \subseteq S
<1> SUFFICES ASSUME NEW k \in Nat \ S PROVE FALSE
  OBVIOUS
<1>1. PICK x \in Nat \ S : \A y \in Nat \ S : x <= y
  BY LeastElement
<1>2. x # 0 /\ x - 1 \in Nat /\ x - 1 \in S
  BY <1>1
<1>3. QED
  BY <1>1, <1>2

LEMMA Division ==
  ASSUME NEW a \in Nat, NEW d \in Nat, d > 0
  PROVE  /\ a \div d \in Nat /\ a % d \in 0..(d - 1)
         /\ a = d * (a \div d) + (a % d)
  OBVIOUS

LEMMA Times ==
  ASSUME NEW d \in Nat, NEW m \in Nat, NEW n \in Nat, m <= n
  PROVE  d * m <= d * n
  OBVIOUS

LEMMA DivMonotone ==
  ASSUME NEW a \in Nat, NEW b \in Nat, NEW d \in Nat, d > 0, a <= b
  PROVE  a \div d <= b \div d
<1> DEFINE p == a \div d
<1> DEFINE q == b \div d
<1>1. /\ p \in Nat /\ q \in Nat /\ a % d \in 0..(d - 1) /\ b % d \in 0..(d - 1)
      /\ a = d * p + (a % d) /\ b = d * q + (b % d)
  BY Division
<1> HIDE DEF p, q
<1>2. ASSUME q < p PROVE FALSE
  <2>1. d * (q + 1) <= d * p
    BY <1>1, <1>2, Times
  <2>2. d * (q + 1) = d * q + d
    BY <1>1
  <2>3. QED
    BY <1>1, <2>1, <2>2
<1>3. QED
  BY <1>1, <1>2 DEF p, q

-----------------------------------------------------------------------------
(* The clocks.  A difference of less than a period is recovered from the   *)
(* tags, whether or not the counter rolled over in between.                *)

LEMMA ElapsedNat ==
  ASSUME NEW w \in Nat, NEW x \in 0..(w - 1), NEW y \in 0..(w - 1)
  PROVE  Elapsed(y, x, w) \in Nat
  BY DEF Elapsed

LEMMA ElapsedIs ==
  ASSUME NEW x \in Nat, NEW y \in Nat, NEW w \in Nat, w > 0, x <= y, y - x < w
  PROVE  Elapsed(y % w, x % w, w) = y - x
<1> DEFINE p == x \div w
<1> DEFINE q == y \div w
<1> DEFINE r == x % w
<1> DEFINE s == y % w
<1>1. /\ p \in Nat /\ q \in Nat /\ r \in 0..(w - 1) /\ s \in 0..(w - 1)
      /\ x = w * p + r /\ y = w * q + s
  BY Division
<1>2. p <= q
  BY DivMonotone
<1> HIDE DEF p, q, r, s
<1>3. q <= p + 1
  <2> SUFFICES ASSUME p + 2 <= q PROVE FALSE
    BY <1>1
  <2>1. w * (p + 2) <= w * q
    BY <1>1, Times
  <2>2. w * (p + 2) = w * p + w + w
    BY <1>1
  <2>3. QED
    BY <1>1, <2>1, <2>2
<1>4. CASE q = p
  BY <1>1, <1>4 DEF Elapsed, r, s
<1>5. CASE q = p + 1
  <2>1. y = w * p + w + s
    BY <1>1, <1>5
  <2>2. QED
    BY <1>1, <2>1 DEF Elapsed, r, s
<1>6. QED
  BY <1>1, <1>2, <1>3, <1>4, <1>5

(* A board's count of cycles is off by less than one from the time.        *)
LEMMA CyclesTell ==
  ASSUME NEW d \in Nat, d > 0, NEW f \in Nat, NEW t1 \in Nat, NEW t2 \in Nat
  PROVE  LET n == ((t2 + f) \div d - (t1 + f) \div d) * d IN
         n > t2 - t1 - d /\ n < t2 - t1 + d
<1> DEFINE p == (t1 + f) \div d
<1> DEFINE q == (t2 + f) \div d
<1> DEFINE r == (t1 + f) % d
<1> DEFINE s == (t2 + f) % d
<1>1. /\ p \in Nat /\ q \in Nat /\ r \in 0..(d - 1) /\ s \in 0..(d - 1)
      /\ t1 + f = d * p + r /\ t2 + f = d * q + s
  BY Division
<1> HIDE DEF p, q, r, s
<1>2. (q - p) * d = d * q - d * p
  BY <1>1
<1>3. (q - p) * d > t2 - t1 - d /\ (q - p) * d < t2 - t1 + d
  BY <1>1, <1>2
<1>4. QED
  BY <1>3 DEF p, q

-----------------------------------------------------------------------------
(* The triggers' times. *)

LEMMA TimeExists ==
  ASSUME NEW gap \in [Trigs -> Nat]
  PROVE  \E t \in [Trigs -> Nat] :
           t = [k \in Trigs |-> gap[k] + IF k = 1 THEN 0 ELSE t[k - 1]]
<1> DEFINE Good(n, t) == \A k \in 1..n : t[k] = gap[k] + IF k = 1 THEN 0 ELSE t[k - 1]
<1> DEFINE S == {n \in Nat : n <= NTrig => \E t \in [1..n -> Nat] : Good(n, t)}
<1>1. 0 \in S
  <2>1. [k \in 1..0 |-> 0] \in [1..0 -> Nat] /\ Good(0, [k \in 1..0 |-> 0])
    OBVIOUS
  <2>2. QED
    BY <2>1
<1>2. ASSUME NEW n \in Nat, n \in S PROVE n + 1 \in S
  <2> SUFFICES ASSUME n + 1 <= NTrig
               PROVE  \E t \in [1..(n + 1) -> Nat] : Good(n + 1, t)
    OBVIOUS
  <2>0. n <= NTrig
    BY MergerAssumption
  <2>1. PICK t \in [1..n -> Nat] : Good(n, t)
    BY <1>2, <2>0, Zenon
  <2> DEFINE last == gap[n + 1] + IF n + 1 = 1 THEN 0 ELSE t[n]
  <2> DEFINE u == [k \in 1..(n + 1) |-> IF k = n + 1 THEN last ELSE t[k]]
  <2>2. last \in Nat
    BY MergerAssumption DEF Trigs
  <2>3. u \in [1..(n + 1) -> Nat]
    BY <2>2
  <2>4. ASSUME NEW k \in 1..(n + 1)
        PROVE  u[k] = gap[k] + IF k = 1 THEN 0 ELSE u[k - 1]
    BY <2>1
  <2>5. QED
    BY <2>3, <2>4
<1>3. NTrig \in S
  <2> HIDE DEF S
  <2>1. QED
    BY <1>1, <1>2, Induction, MergerAssumption
<1>4. PICK t \in [Trigs -> Nat] : Good(NTrig, t)
  BY <1>3 DEF Trigs
<1>5. t = [k \in Trigs |-> gap[k] + IF k = 1 THEN 0 ELSE t[k - 1]]
  BY <1>4 DEF Trigs
<1>6. QED
  BY <1>5

LEMMA TimeUnfolds ==
  ASSUME NEW gap \in [Trigs -> Nat]
  PROVE  TimeOf(gap) = [k \in Trigs |-> gap[k] + IF k = 1 THEN 0 ELSE TimeOf(gap)[k - 1]]
<1>1. \E t : t = [k \in Trigs |-> gap[k] + IF k = 1 THEN 0 ELSE t[k - 1]]
  BY TimeExists
<1>2. QED
  BY <1>1 DEF TimeOf

(* The times are those of clocks that only go on; if all gaps are so long, *)
(* so far apart are any two triggers.                                      *)
LEMMA TimeOrdered ==
  ASSUME NEW d \in Nat, NEW gap \in [Trigs -> Nat], \A k \in Trigs : gap[k] >= d
  PROVE  /\ TimeOf(gap) \in [Trigs -> Nat]
         /\ \A j, k \in Trigs : j < k => TimeOf(gap)[k] - TimeOf(gap)[j] >= d
         /\ \A k \in Trigs : k > 1 => TimeOf(gap)[k] = gap[k] + TimeOf(gap)[k - 1]
<1> DEFINE t == TimeOf(gap)
<1>1. t = [k \in Trigs |-> gap[k] + IF k = 1 THEN 0 ELSE t[k - 1]]
  BY TimeUnfolds
<1> HIDE DEF t
<1>2. \A k \in Trigs : t[k] = gap[k] + IF k = 1 THEN 0 ELSE t[k - 1]
  BY <1>1
<1> DEFINE S == {n \in Nat : n \in Trigs =>
                   /\ t[n] \in Nat
                   /\ \A j \in Trigs : j < n => t[j] \in Nat /\ t[n] - t[j] >= d}
<1>3. 0 \in S
  BY DEF Trigs
<1>4. ASSUME NEW n \in Nat, n \in S PROVE n + 1 \in S
  <2> SUFFICES ASSUME n + 1 \in Trigs
               PROVE  /\ t[n + 1] \in Nat
                      /\ \A j \in Trigs : j < n + 1 => t[j] \in Nat /\ t[n + 1] - t[j] >= d
    OBVIOUS
  <2>1. gap[n + 1] \in Nat /\ gap[n + 1] >= d
    OBVIOUS
  <2>2. CASE n = 0
    BY <1>2, <2>1, <2>2 DEF Trigs
  <2>3. CASE n # 0
    <3>1. n \in Trigs /\ t[n + 1] = gap[n + 1] + t[n]
      BY <1>2, <2>3, MergerAssumption DEF Trigs
    <3>2. t[n] \in Nat /\ \A j \in Trigs : j < n => t[j] \in Nat /\ t[n] - t[j] >= d
      BY <1>4, <3>1
    <3>3. ASSUME NEW j \in Trigs, j < n + 1
          PROVE  t[j] \in Nat /\ t[n + 1] - t[j] >= d
      <4>1. CASE j = n
        BY <2>1, <3>1, <3>2, <4>1
      <4>2. CASE j < n
        BY <2>1, <3>1, <3>2, <4>2
      <4>3. QED
        BY <3>3, <4>1, <4>2 DEF Trigs
    <3>4. QED
      BY <2>1, <3>1, <3>2, <3>3
  <2>4. QED
    BY <2>2, <2>3
<1>5. Nat \subseteq S
  <2> HIDE DEF S
  <2>1. QED
    BY <1>3, <1>4, Induction
<1>6. \A k \in Trigs : t[k] \in Nat /\ \A j \in Trigs : j < k => t[k] - t[j] >= d
  BY <1>5 DEF Trigs
<1>7. QED
  BY <1>1, <1>2, <1>6 DEF t, Trigs

-----------------------------------------------------------------------------
(* The Trigger and ADCBoard objects. *)

TrigType == [pos : 0..NTrig, first : BOOLEAN, clock : 0..(TrigWrap - 1), total : Nat,
             finished : BOOLEAN]
BoardType == [pos : 0..Torn, first : BOOLEAN, clock : 0..(Wrap - 1), total : Nat,
              finished : BOOLEAN, missing : BOOLEAN]

LEMMA CountedTrig ==
  ASSUME NEW r \in TrigType, NEW tag \in 0..(TrigWrap - 1)
  PROVE  LET s == Counted(r, tag, TrigWrap) IN
         /\ s \in TrigType
         /\ s.pos = r.pos /\ s.finished = r.finished /\ ~s.first /\ s.clock = tag
         /\ s.total = IF r.first THEN 0 ELSE r.total + Elapsed(tag, r.clock, TrigWrap)
<1> DEFINE t == IF r.first THEN 0 ELSE r.total + Elapsed(tag, r.clock, TrigWrap)
<1> DEFINE s == Counted(r, tag, TrigWrap)
<1>1. t \in Nat
  BY ElapsedNat, MergerAssumption DEF TrigType
<1>2. s = [r EXCEPT !.total = t, !.clock = tag, !.first = FALSE]
  BY DEF Counted
<1> HIDE DEF t
<1>3. ASSUME NEW f \in BOOLEAN, f = FALSE
      PROVE  LET u == [r EXCEPT !.total = t, !.clock = tag, !.first = f] IN
             /\ u \in TrigType
             /\ u.pos = r.pos /\ u.finished = r.finished /\ ~u.first /\ u.clock = tag
             /\ u.total = t
  BY <1>1, <1>3 DEF TrigType
<1>4. /\ s \in TrigType
      /\ s.pos = r.pos /\ s.finished = r.finished /\ ~s.first /\ s.clock = tag
      /\ s.total = t
  BY <1>2, <1>3
<1>5. QED
  BY <1>4 DEF t

LEMMA CountedBoard ==
  ASSUME NEW r \in BoardType, NEW tag \in 0..(Wrap - 1)
  PROVE  LET s == Counted(r, tag, Wrap) IN
         /\ s \in BoardType
         /\ s.pos = r.pos /\ s.finished = r.finished /\ s.missing = r.missing
         /\ ~s.first /\ s.clock = tag
         /\ s.total = IF r.first THEN 0 ELSE r.total + Elapsed(tag, r.clock, Wrap)
<1> DEFINE t == IF r.first THEN 0 ELSE r.total + Elapsed(tag, r.clock, Wrap)
<1> DEFINE s == Counted(r, tag, Wrap)
<1>1. t \in Nat
  BY ElapsedNat, MergerAssumption DEF BoardType
<1>2. s = [r EXCEPT !.total = t, !.clock = tag, !.first = FALSE]
  BY DEF Counted
<1> HIDE DEF t
<1>3. ASSUME NEW f \in BOOLEAN, f = FALSE
      PROVE  LET u == [r EXCEPT !.total = t, !.clock = tag, !.first = f] IN
             /\ u \in BoardType
             /\ u.pos = r.pos /\ u.finished = r.finished /\ u.missing = r.missing
             /\ ~u.first /\ u.clock = tag /\ u.total = t
  BY <1>1, <1>3 DEF BoardType
<1>4. /\ s \in BoardType
      /\ s.pos = r.pos /\ s.finished = r.finished /\ s.missing = r.missing
      /\ ~s.first /\ s.clock = tag /\ s.total = t
  BY <1>2, <1>3
<1>5. QED
  BY <1>4 DEF t

LEMMA BoardMissing ==
  ASSUME NEW r \in BoardType, NEW v \in BOOLEAN
  PROVE  LET s == [r EXCEPT !.missing = v] IN
         /\ s \in BoardType /\ s.pos = r.pos /\ s.first = r.first /\ s.clock = r.clock
         /\ s.total = r.total /\ s.finished = r.finished /\ s.missing = v
  BY DEF BoardType

LEMMA BoardFinished ==
  ASSUME NEW r \in BoardType
  PROVE  LET s == [r EXCEPT !.finished = TRUE] IN
         /\ s \in BoardType /\ s.pos = r.pos /\ s.first = r.first /\ s.clock = r.clock
         /\ s.total = r.total /\ s.finished /\ s.missing = r.missing
  BY DEF BoardType

LEMMA BoardMoved ==
  ASSUME NEW r \in BoardType, NEW k \in 0..Torn
  PROVE  LET s == [r EXCEPT !.pos = k] IN
         /\ s \in BoardType /\ s.pos = k /\ s.first = r.first /\ s.clock = r.clock
         /\ s.total = r.total /\ s.finished = r.finished /\ s.missing = r.missing
  BY DEF BoardType

LEMMA TrigMoved ==
  ASSUME NEW r \in TrigType, NEW k \in 0..NTrig
  PROVE  LET s == [r EXCEPT !.pos = k] IN
         /\ s \in TrigType /\ s.pos = k /\ s.first = r.first /\ s.clock = r.clock
         /\ s.total = r.total /\ s.finished = r.finished
  BY DEF TrigType

LEMMA TrigFinished ==
  ASSUME NEW r \in TrigType
  PROVE  LET s == [r EXCEPT !.finished = TRUE] IN
         /\ s \in TrigType /\ s.pos = r.pos /\ s.first = r.first /\ s.clock = r.clock
         /\ s.total = r.total /\ s.finished
  BY DEF TrigType

-----------------------------------------------------------------------------
(* What is true of the input from the start. *)

(***************************************************************************)
(* The tolerance makes up for the phase of a board's clock, no two         *)
(* triggers are so close that it could confuse them, and the trigger's     *)
(* counter does not go all around between two of them.                     *)
(***************************************************************************)
Apart == Tick <= Tol + 1 /\ \A g \in Gaps : Tol + Tick <= g /\ g < TrigWrap

InputOK ==
  /\ time \in [Trigs -> Nat] /\ phase \in [Boards -> Nat]
  /\ ev \in [Boards -> [Trigs -> Kinds]]
  /\ len \in 0..NTrig /\ cut \subseteq Boards
  /\ junk \in [DOMAIN junk -> 0..(Wrap - 1)] /\ DOMAIN junk \subseteq cut
  /\ \A j, k \in Trigs : j < k => time[j] <= time[k]
  /\ Apart => /\ \A j, k \in Trigs : j < k => time[k] - time[j] >= Tol + Tick
              /\ \A k \in Trigs : k > 1 => time[k] - time[k - 1] < TrigWrap

LEMMA InputInit == Init => InputOK
<1> SUFFICES ASSUME Init PROVE InputOK
  OBVIOUS
<1>1. PICK gap \in [Trigs -> Gaps] : time = TimeOf(gap)
  BY DEF Init
<1>2. gap \in [Trigs -> Nat] /\ \A k \in Trigs : gap[k] \in Gaps /\ gap[k] >= 0
  <2>1. Gaps \subseteq Nat
    BY MergerAssumption
  <2>2. \A k \in Trigs : gap[k] \in Gaps /\ gap[k] \in Nat
    BY <2>1
  <2>3. QED
    BY <2>2
<1>3. /\ time \in [Trigs -> Nat]
      /\ \A j, k \in Trigs : j < k => time[j] <= time[k]
      /\ \A k \in Trigs : k > 1 => time[k] = gap[k] + time[k - 1]
  <2>1. /\ time \in [Trigs -> Nat]
        /\ \A j, k \in Trigs : j < k => time[k] - time[j] >= 0
        /\ \A k \in Trigs : k > 1 => time[k] = gap[k] + time[k - 1]
    BY <1>1, <1>2, TimeOrdered
  <2>2. QED
    BY <2>1
<1>4. ASSUME Apart
      PROVE  /\ \A j, k \in Trigs : j < k => time[k] - time[j] >= Tol + Tick
             /\ \A k \in Trigs : k > 1 => time[k] - time[k - 1] < TrigWrap
  <2>1. Tol + Tick \in Nat /\ \A k \in Trigs : gap[k] >= Tol + Tick /\ gap[k] < TrigWrap
    BY <1>2, <1>4, MergerAssumption DEF Apart
  <2>2. \A j, k \in Trigs : j < k => time[k] - time[j] >= Tol + Tick
    BY <1>1, <1>2, <2>1, TimeOrdered
  <2>3. \A k \in Trigs : k > 1 => k - 1 \in Trigs
    BY MergerAssumption DEF Trigs
  <2>4. QED
    BY <1>2, <1>3, <2>1, <2>2, <2>3, MergerAssumption
<1>5. /\ phase \in [Boards -> Nat] /\ ev \in [Boards -> [Trigs -> Kinds]]
      /\ len \in 0..NTrig /\ cut \subseteq Boards
  BY MergerAssumption DEF Init
<1>6. junk \in [DOMAIN junk -> 0..(Wrap - 1)] /\ DOMAIN junk \subseteq cut
  <2>1. PICK torn \in SUBSET cut : junk \in [torn -> Junk]
    BY DEF Init
  <2>2. QED
    BY <2>1, MergerAssumption
<1>7. QED
  BY <1>3, <1>4, <1>5, <1>6 DEF InputOK

LEMMA HealthyTrigs ==
  ASSUME NEW b \in Boards
  PROVE  /\ Healthy(b) \subseteq Trigs /\ Trigs \subseteq Nat /\ Trigs = 1..NTrig
         /\ Rest(b) = {k \in Healthy(b) : k > brd[b].pos}
  BY MergerAssumption DEF Healthy, Recorded, Trigs, Rest

(* The cycles a board has counted at a trigger. *)
Cycle(b, k) == (time[k] + phase[b]) \div Tick

LEMMA TagIs ==
  ASSUME InputOK, NEW b \in Boards, NEW k \in Trigs
  PROVE  /\ Cycle(b, k) \in Nat
         /\ Tag(b, time[k]) = Cycle(b, k) % Wrap
         /\ Tag(b, time[k]) \in 0..(Wrap - 1)
<1>1. time[k] + phase[b] \in Nat /\ Tick \in Nat /\ Tick > 0 /\ Wrap \in Nat /\ Wrap > 0
  BY MergerAssumption DEF InputOK
<1>2. Cycle(b, k) \in Nat
  BY <1>1, Division DEF Cycle
<1>3. QED
  BY <1>1, <1>2, Division DEF Tag, Cycle

-----------------------------------------------------------------------------
(* The invariant.  First what an object knows of its stream. *)

TrigOK ==
  LET q == trig.pos IN
  /\ trig \in TrigType
  /\ trig.first <=> q = 0
  /\ q <= len
  /\ trig.finished => q = len
  /\ q # 0 => trig.clock = time[q] % TrigWrap
  /\ Apart /\ q # 0 => trig.total = time[q] - time[1]

(* A board's object holds the tag of a good event, or what is there of one *)
(* at the end; the time it has counted is that since the first trigger.    *)
Counts(b, r) ==
  /\ r \in BoardType
  /\ r.first <=> r.pos = 0
  /\ r.pos = Torn => b \in DOMAIN junk
  /\ r.pos \notin {0, Torn} => r.pos \in Healthy(b) /\ r.clock = Tag(b, time[r.pos])
  /\ r.total > 0 \/ r.missing => r.pos # 0
  /\ r.finished => ~r.missing /\ b \notin cut /\ \A k \in Healthy(b) : k <= r.pos
  /\ Steady(b) /\ r.pos \notin {0, Torn} => r.total = Cycle(b, r.pos) - Cycle(b, 1)

ObjectsOK ==
  /\ InputOK /\ TrigOK
  /\ brd \in [Boards -> BoardType]
  /\ \A b \in Boards : Counts(b, brd[b])

PhasesOK ==
  /\ pc \in {"read", "align", "write", "tails", "drain", "done", "aborted", "hung"}
  /\ todo \subseteq Boards
  /\ pc \in {"read", "align", "write"} => ~trig.finished
  /\ pc \in {"align", "write"} => trig.pos # 0
  /\ pc \in {"read", "write"} => \A b \in Boards : ~brd[b].finished
  /\ pc = "align" => \A b \in todo : ~brd[b].finished /\ ~brd[b].missing

(***************************************************************************)
(* A board is never behind its trigger, unless its stream has ended        *)
(* without a tail, and the next of its good events is the one at hand.     *)
(* Once compared, it is set missing if and only if it is ahead.            *)
(***************************************************************************)
Order(b) ==
  LET p == brd[b].pos
      q == trig.pos
  IN  /\ ~brd[b].finished
      /\ \A k \in Healthy(b) : k < q \/ k >= p
      /\ pc # "read" => p # 0
      /\ IF pc = "align" /\ b \in todo
         THEN p < q => b \in cut /\ \A k \in Healthy(b) : k <= p
         ELSE IF brd[b].missing THEN p > q ELSE p \in {q, Torn}

OrderOK ==
  pc \in {"read", "align", "write"} => \A b \in Boards : Steady(b) => Order(b)

WrittenType == Seq([trig : 0..NTrig, data : [Boards -> 0..Torn]])

WrittenOK ==
  /\ written \in WrittenType
  /\ pc = "read" => Len(written) = trig.pos
  /\ pc \in {"align", "write"} => Len(written) = trig.pos - 1
  /\ \A k \in DOMAIN written : written[k].trig = k

(* Whatever is written with a trigger is of that trigger, and a board's    *)
(* good event is never left out.                                           *)
DataOK ==
  \A k \in DOMAIN written, b \in Boards :
    Steady(b) => /\ \/ written[k].data[b] \in {0, k}
                    \/ written[k].data[b] = Torn /\ b \in DOMAIN junk
                 /\ k \in Healthy(b) => written[k].data[b] # 0

-----------------------------------------------------------------------------
(* The input does not change. *)

LEMMA InputSame ==
  ASSUME UNCHANGED input
  PROVE  /\ cut' = cut /\ junk' = junk /\ len' = len /\ time' = time /\ phase' = phase
         /\ InputOK => InputOK'
BY DEF input, InputOK

LEMMA StreamSame ==
  ASSUME UNCHANGED input, NEW b \in Boards
  PROVE  /\ Recorded(b)' = Recorded(b)
         /\ Healthy(b)' = Healthy(b)
         /\ Steady(b)' <=> Steady(b)
<1>1. /\ time' = time /\ ev' = ev /\ phase' = phase
  BY DEF input
<1>4. Recorded(b)' = Recorded(b)
  BY <1>1 DEF Recorded
<1>5. \A k : InTime(b, k)' <=> InTime(b, k)
  BY <1>1 DEF InTime, Tag
<1>6. Healthy(b)' = Healthy(b)
  BY <1>4, <1>5 DEF Healthy
<1>7. Steady(b)' <=> Steady(b)
  BY <1>1, <1>4, <1>6 DEF Steady
<1>9. QED
  BY <1>4, <1>6, <1>7

LEMMA CountsSame ==
  ASSUME UNCHANGED input, NEW b \in Boards, NEW r
  PROVE  Counts(b, r)' <=> Counts(b, r)
<1>1. time' = time /\ phase' = phase /\ cut' = cut /\ junk' = junk
  BY DEF input
<1>2. Healthy(b)' = Healthy(b) /\ (Steady(b)' <=> Steady(b))
  BY StreamSame
<1>3. Tag(b, time[r.pos])' = Tag(b, time[r.pos])
  BY <1>1 DEF Tag
<1>4. Cycle(b, r.pos)' = Cycle(b, r.pos) /\ Cycle(b, 1)' = Cycle(b, 1)
  BY <1>1 DEF Cycle
<1>5. QED
  BY <1>1, <1>2, <1>3, <1>4, Zenon DEF Counts

-----------------------------------------------------------------------------
(* NextEvent. *)

LEMMA TrigNextIs ==
  ASSUME InputOK, TrigOK
  PROVE  LET s == TrigNext
             q == trig.pos
         IN  /\ s \in TrigType
             /\ s.first <=> s.pos = 0
             /\ s.pos # 0 => s.clock = time[s.pos] % TrigWrap
             /\ Apart /\ s.pos # 0 => s.total = time[s.pos] - time[1]
             /\ trig.finished => s.finished
             /\ IF trig.finished \/ q = len THEN s.finished /\ s.pos = q /\ s.pos = len
                ELSE ~s.finished /\ s.pos = q + 1 /\ s.pos <= len
<1> DEFINE q == trig.pos
<1> DEFINE s == TrigNext
<1>0. /\ trig \in TrigType /\ q \in 0..NTrig /\ len \in 0..NTrig /\ NTrig \in Nat
      /\ q <= len /\ (trig.finished => q = len) /\ trig.finished \in BOOLEAN
  BY MergerAssumption DEF TrigOK, InputOK, TrigType
<1>1. CASE trig.finished \/ q = len
  <2>1. s = [trig EXCEPT !.finished = TRUE]
    BY <1>1 DEF TrigNext
  <2>2. /\ s \in TrigType /\ s.pos = q /\ (s.first <=> trig.first) /\ s.clock = trig.clock
        /\ s.total = trig.total /\ s.finished
    BY <1>0, <2>1, TrigFinished
  <2> HIDE DEF s
  <2>3. QED
    BY <1>0, <1>1, <2>2 DEF TrigOK, s
<1>2. CASE ~(trig.finished \/ q = len)
  <2> DEFINE r == [trig EXCEPT !.pos = q + 1]
  <2> DEFINE tag == time[q + 1] % TrigWrap
  <2>1. /\ q + 1 \in 0..NTrig /\ q + 1 <= len /\ q + 1 \in Trigs
        /\ (q # 0 => q \in Trigs /\ 1 \in Trigs)
    BY <1>0, <1>2 DEF Trigs
  <2>2. time[q + 1] \in Nat /\ TrigWrap \in Nat /\ TrigWrap > 0
    BY <2>1, MergerAssumption DEF InputOK
  <2>3. tag \in 0..(TrigWrap - 1)
    BY <2>2, Division
  <2>4. s = Counted(r, tag, TrigWrap)
    BY <1>2 DEF TrigNext
  <2>5. /\ r \in TrigType /\ r.pos = q + 1 /\ r.first = trig.first /\ r.clock = trig.clock
        /\ r.total = trig.total /\ r.finished = trig.finished
    BY <1>0, <2>1, TrigMoved
  <2> HIDE DEF r, tag, s
  <2>6. /\ s \in TrigType
        /\ s.pos = r.pos /\ s.finished = r.finished /\ ~s.first /\ s.clock = tag
        /\ s.total = IF r.first THEN 0 ELSE r.total + Elapsed(tag, r.clock, TrigWrap)
    BY <2>3, <2>4, <2>5, CountedTrig
  <2>7. s.pos = q + 1 /\ ~s.finished /\ ~s.first
    BY <1>2, <2>5, <2>6
  <2>8. ASSUME Apart PROVE s.total = time[q + 1] - time[1]
    <3>1. CASE q = 0
      <4>1. r.first
        BY <2>5, <3>1 DEF TrigOK, q
      <4>2. s.total = 0
        BY <2>6, <4>1
      <4>3. QED
        BY <2>2, <3>1, <4>2
    <3>2. CASE q # 0
      <4>1. ~r.first /\ r.clock = time[q] % TrigWrap /\ r.total = time[q] - time[1]
        BY <2>5, <2>8, <3>2 DEF TrigOK, q
      <4>2. time[q] \in Nat /\ time[1] \in Nat
        BY <2>1, <3>2 DEF InputOK
      <4>3. q < q + 1 /\ q + 1 > 1
        BY <1>0, <3>2
      <4>4. time[q] <= time[q + 1]
        BY <2>1, <3>2, <4>3 DEF InputOK
      <4>5. time[q + 1] - time[q] < TrigWrap
        <5>1. time[q + 1] - time[(q + 1) - 1] < TrigWrap
          BY <2>1, <2>8, <4>3 DEF InputOK
        <5>2. (q + 1) - 1 = q
          BY <1>0
        <5>3. QED
          BY <5>1, <5>2
      <4>6. Elapsed(tag, r.clock, TrigWrap) = time[q + 1] - time[q]
        BY <2>2, <4>1, <4>2, <4>4, <4>5, ElapsedIs DEF tag
      <4>7. s.total = r.total + Elapsed(tag, r.clock, TrigWrap)
        BY <2>6, <4>1
      <4>8. QED
        BY <2>2, <4>1, <4>2, <4>6, <4>7
    <3>3. QED
      BY <3>1, <3>2
  <2>9. QED
    BY <1>0, <1>2, <2>1, <2>6, <2>7, <2>8 DEF s, tag, q
<1>3. QED
  BY <1>1, <1>2

(* The board goes on to its next good event.                               *)
LEMMA BoardGoesOn ==
  ASSUME InputOK, NEW b \in Boards, Counts(b, brd[b]),
         ~brd[b].finished, ~brd[b].missing, Rest(b) # {}
  PROVE  LET s == BoardNext(b) IN
         /\ Counts(b, s) /\ ~s.finished /\ ~s.missing
         /\ s.pos \in Rest(b) /\ \A k \in Rest(b) : s.pos <= k
<1> DEFINE p == brd[b].pos
<1> DEFINE n == Min(Rest(b))
<1> DEFINE tag == Tag(b, time[n])
<1> DEFINE m == [brd[b] EXCEPT !.pos = n]
<1> DEFINE s == BoardNext(b)
<1>0. /\ Healthy(b) \subseteq Trigs /\ Trigs \subseteq Nat /\ Trigs = 1..NTrig
      /\ Rest(b) = {k \in Healthy(b) : k > p}
  BY HealthyTrigs
<1>1. n \in Rest(b) /\ \A k \in Rest(b) : n <= k
  <2>1. Rest(b) \subseteq Nat
    BY <1>0
  <2>2. QED
    BY <2>1, MinOf
<1>2. /\ brd[b] \in BoardType /\ p \in 0..NTrig /\ NTrig \in Nat /\ p # Torn /\ n # Torn
      /\ n \in Trigs /\ n \in 0..Torn /\ n > p /\ n \in Healthy(b) /\ n # 0
  <2>1. brd[b] \in BoardType /\ p \in 0..Torn /\ NTrig \in Nat /\ Torn = NTrig + 1
    BY MergerAssumption DEF Counts, BoardType, Torn
  <2>2. n \in Healthy(b) /\ n > p /\ n \in 1..NTrig
    <3> HIDE DEF n, p
    <3>1. QED
      BY <1>0, <1>1
  <2>3. QED
    BY <1>0, <2>1, <2>2
<1>3. tag \in 0..(Wrap - 1) /\ tag = Cycle(b, n) % Wrap
  BY <1>2, TagIs
<1>4. s = Counted(m, tag, Wrap)
  BY DEF BoardNext
<1>5. /\ m \in BoardType /\ m.pos = n /\ m.first = brd[b].first /\ m.clock = brd[b].clock
      /\ m.total = brd[b].total /\ m.finished = brd[b].finished
      /\ m.missing = brd[b].missing
  BY <1>2, BoardMoved
<1> HIDE DEF n, tag, m, s
<1>6. /\ s \in BoardType
      /\ s.pos = m.pos /\ s.finished = m.finished /\ s.missing = m.missing
      /\ ~s.first /\ s.clock = tag
      /\ s.total = IF m.first THEN 0 ELSE m.total + Elapsed(tag, m.clock, Wrap)
  BY <1>3, <1>4, <1>5, CountedBoard
<1>7. s.pos = n /\ ~s.finished /\ ~s.missing /\ ~s.first
  BY <1>5, <1>6
<1>8. ASSUME Steady(b) PROVE s.total = Cycle(b, n) - Cycle(b, 1)
  <2>1. 1 \in Healthy(b)
    BY <1>2, <1>8 DEF Steady, Healthy
  <2>2. Cycle(b, n) \in Nat /\ Cycle(b, 1) \in Nat
    BY <1>0, <1>2, <2>1, TagIs
  <2>3. CASE p = 0
    <3>1. m.first
      BY <1>5, <2>3 DEF Counts
    <3>2. s.total = 0
      BY <1>6, <3>1
    <3>3. 1 \in Rest(b)
      BY <1>0, <2>1, <2>3
    <3>4. n = 1
      BY <1>1, <1>2, <2>3, <3>3, <1>0
    <3>5. QED
      BY <2>2, <3>2, <3>4
  <2>4. CASE p # 0
    <3>1. /\ ~m.first /\ p \in Healthy(b)
          /\ m.clock = Tag(b, time[p])
          /\ m.total = Cycle(b, p) - Cycle(b, 1)
      BY <1>2, <1>5, <1>8, <2>4 DEF Counts
    <3>2. m.clock = Cycle(b, p) % Wrap /\ Cycle(b, p) \in Nat
      BY <1>0, <3>1, TagIs
    <3>3. \A i \in Healthy(b) : i <= p \/ i >= n
      BY <1>0, <1>1, <1>2
    <3>4. Cycle(b, n) - Cycle(b, p) < Wrap
      BY <1>2, <1>8, <3>1, <3>3 DEF Steady, Cycle
    <3>5. Cycle(b, p) <= Cycle(b, n)
      <4>1. time[p] \in Nat /\ time[n] \in Nat /\ phase[b] \in Nat /\ Tick \in Nat /\ Tick > 0
        BY <1>0, <1>2, <3>1, MergerAssumption DEF InputOK
      <4>2. time[p] <= time[n]
        BY <1>0, <1>2, <3>1 DEF InputOK
      <4>3. /\ time[p] + phase[b] \in Nat /\ time[n] + phase[b] \in Nat
            /\ time[p] + phase[b] <= time[n] + phase[b]
        BY <4>1, <4>2
      <4>4. QED
        BY <4>1, <4>3, DivMonotone DEF Cycle
    <3>6. Wrap \in Nat /\ Wrap > 0
      BY MergerAssumption
    <3>7. Elapsed(tag, m.clock, Wrap) = Cycle(b, n) - Cycle(b, p)
      BY <1>3, <2>2, <3>2, <3>4, <3>5, <3>6, ElapsedIs
    <3>8. s.total = m.total + Elapsed(tag, m.clock, Wrap)
      BY <1>6, <3>1
    <3>9. QED
      BY <2>2, <3>1, <3>2, <3>7, <3>8
  <2>5. QED
    BY <2>3, <2>4
<1>9. Counts(b, s)
  <2>1. /\ ~s.finished /\ ~(s.first) /\ s.pos # 0 /\ s.pos # Torn /\ ~s.missing
        /\ s.pos \in Healthy(b)
    BY <1>2, <1>7
  <2>2. s.clock = Tag(b, time[s.pos])
    BY <1>6, <1>7 DEF tag
  <2>3. Steady(b) => s.total = Cycle(b, s.pos) - Cycle(b, 1)
    BY <1>7, <1>8
  <2>4. QED
    BY <1>6, <2>1, <2>2, <2>3 DEF Counts
<1>10. QED
  BY <1>1, <1>7, <1>9 DEF s

(* ... or to the part of an event that its stream ends with.               *)
LEMMA BoardAtTorn ==
  ASSUME InputOK, NEW b \in Boards, Counts(b, brd[b]),
         ~brd[b].finished, ~brd[b].missing, Rest(b) = {},
         b \in DOMAIN junk, brd[b].pos # Torn
  PROVE  LET s == BoardNext(b) IN
         Counts(b, s) /\ ~s.finished /\ ~s.missing /\ s.pos = Torn
<1> DEFINE m == [brd[b] EXCEPT !.pos = Torn]
<1> DEFINE tag == junk[b]
<1> DEFINE s == BoardNext(b)
<1>1. s = Counted(m, tag, Wrap)
  BY DEF BoardNext
<1>2. tag \in 0..(Wrap - 1) /\ brd[b] \in BoardType /\ Torn \in 0..Torn /\ Torn # 0
  BY MergerAssumption DEF InputOK, Counts, Torn
<1>3. /\ m \in BoardType /\ m.pos = Torn /\ m.finished = brd[b].finished
      /\ m.missing = brd[b].missing
  BY <1>2, BoardMoved
<1> HIDE DEF m, tag, s
<1>4. /\ s \in BoardType
      /\ s.pos = m.pos /\ s.finished = m.finished /\ s.missing = m.missing /\ ~s.first
  BY <1>1, <1>2, <1>3, CountedBoard
<1>5. Counts(b, s)
  BY <1>2, <1>3, <1>4 DEF Counts
<1>6. QED
  BY <1>3, <1>4, <1>5 DEF s

LEMMA BoardNextIs ==
  ASSUME InputOK, NEW b \in Boards, Counts(b, brd[b])
  PROVE  LET r == brd[b]
             s == BoardNext(b)
         IN  /\ Counts(b, s) /\ s \in BoardType /\ ~s.missing
             /\ r.finished => s = r
             /\ ~r.finished /\ r.missing => s.pos = r.pos /\ ~s.finished
             /\ ~r.finished /\ ~r.missing /\ Rest(b) # {}
                  => ~s.finished /\ s.pos \in Rest(b) /\ \A k \in Rest(b) : s.pos <= k
             /\ ~r.finished /\ ~r.missing /\ Rest(b) = {} /\ b \in DOMAIN junk => s.pos = Torn
             /\ ~r.finished /\ ~r.missing /\ Rest(b) = {} /\ b \in cut \ DOMAIN junk => s = r
             /\ ~r.finished /\ ~r.missing /\ Rest(b) = {} /\ b \notin cut
                  => s.finished /\ s.pos = r.pos
<1> DEFINE r == brd[b]
<1> DEFINE s == BoardNext(b)
<1>0. r \in BoardType /\ r.finished \in BOOLEAN /\ r.missing \in BOOLEAN
  BY DEF Counts, BoardType
<1>1. CASE r.finished
  <2>1. s = r /\ ~r.missing
    BY <1>1 DEF BoardNext, Counts
  <2>2. QED
    BY <1>0, <1>1, <2>1
<1>2. CASE ~r.finished /\ r.missing
  <2>1. s = [r EXCEPT !.missing = FALSE]
    BY <1>2 DEF BoardNext
  <2>2. ASSUME NEW f \in BOOLEAN, f = FALSE
        PROVE  LET u == [r EXCEPT !.missing = f] IN
               /\ u \in BoardType /\ u.pos = r.pos /\ u.first = r.first /\ u.clock = r.clock
               /\ u.total = r.total /\ u.finished = r.finished /\ ~u.missing
    BY <1>0, <2>2, BoardMissing
  <2>3. /\ s \in BoardType /\ s.pos = r.pos /\ s.first = r.first /\ s.clock = r.clock
        /\ s.total = r.total /\ s.finished = r.finished /\ ~s.missing
    BY <2>1, <2>2
  <2> HIDE DEF s
  <2>4. Counts(b, s)
    BY <1>2, <2>3 DEF Counts
  <2>5. QED
    BY <1>2, <2>3, <2>4 DEF s
<1>3. CASE ~r.finished /\ ~r.missing /\ Rest(b) # {}
  <2>1. /\ Counts(b, s) /\ ~s.finished /\ ~s.missing
        /\ s.pos \in Rest(b) /\ \A k \in Rest(b) : s.pos <= k
    BY <1>3, BoardGoesOn
  <2> HIDE DEF s
  <2>2. s \in BoardType
    BY <2>1 DEF Counts
  <2>3. QED
    BY <1>3, <2>1, <2>2 DEF s
<1>4. CASE ~r.finished /\ ~r.missing /\ Rest(b) = {} /\ b \in cut
  <2>1. CASE b \in DOMAIN junk /\ r.pos # Torn
    <3>1. Counts(b, s) /\ ~s.finished /\ ~s.missing /\ s.pos = Torn
      BY <1>4, <2>1, BoardAtTorn
    <3> HIDE DEF s
    <3>2. s \in BoardType
      BY <3>1 DEF Counts
    <3>3. QED
      BY <1>4, <2>1, <3>1, <3>2 DEF s
  <2>2. CASE ~(b \in DOMAIN junk /\ r.pos # Torn)
    <3>1. s = r
      BY <1>4, <2>2 DEF BoardNext
    <3>2. QED
      BY <1>0, <1>4, <2>2, <3>1
  <2>3. QED
    BY <2>1, <2>2
<1>5. CASE ~r.finished /\ ~r.missing /\ Rest(b) = {} /\ b \notin cut
  <2>0. b \notin DOMAIN junk
    BY <1>5 DEF InputOK
  <2>1. s = [r EXCEPT !.finished = TRUE]
    BY <1>5, <2>0 DEF BoardNext
  <2>2. /\ s \in BoardType /\ s.pos = r.pos /\ s.first = r.first /\ s.clock = r.clock
        /\ s.total = r.total /\ s.finished /\ s.missing = r.missing
    BY <1>0, <2>1, BoardFinished
  <2> HIDE DEF s
  <2>3. \A k \in Healthy(b) : k <= r.pos
    <3>1. Healthy(b) \subseteq Nat /\ r.pos \in Nat
      BY <1>0, HealthyTrigs, MergerAssumption DEF BoardType, Torn
    <3>2. QED
      BY <1>5, <3>1, HealthyTrigs
  <2>4. Counts(b, s)
    BY <1>5, <2>2, <2>3 DEF Counts
  <2>5. QED
    BY <1>5, <2>0, <2>2, <2>4 DEF s
<1>6. QED
  <2>1. DOMAIN junk \subseteq cut
    BY DEF InputOK
  <2>2. QED
    BY <1>0, <1>1, <1>2, <1>3, <1>4, <1>5, <2>1

-----------------------------------------------------------------------------
(* The objects, whatever the recorded times: every step of the main loop.  *)

LEMMA DeltaTType ==
  ASSUME trig \in TrigType, NEW b \in Boards, brd[b] \in BoardType
  PROVE  DeltaT(b) \in Int /\ (DeltaT(b) > Tol => brd[b].total > 0)
<1>1. brd[b].total \in Nat /\ trig.total \in Nat /\ Tick \in Nat /\ Tol \in Nat
  BY MergerAssumption DEF TrigType, BoardType
<1>2. CASE brd[b].total = 0
  <2>1. DeltaT(b) = 0 - trig.total
    BY <1>1, <1>2 DEF DeltaT
  <2>2. QED
    BY <1>1, <2>1
<1>3. CASE brd[b].total # 0
  BY <1>1, <1>3 DEF DeltaT
<1>4. QED
  BY <1>2, <1>3

LEMMA ObjectsInit == Init => ObjectsOK
<1> SUFFICES ASSUME Init PROVE ObjectsOK
  OBVIOUS
<1>1. InputOK
  BY InputInit
<1>2. trig = FreshTrig /\ brd = [b \in Boards |-> FreshBoard]
  BY DEF Init
<1>3. /\ {0} \subseteq 0..NTrig /\ {0} \subseteq 0..(TrigWrap - 1)
      /\ {0} \subseteq 0..(Wrap - 1) /\ 0 <= len /\ {0} \subseteq 0..Torn /\ Torn # 0
  BY <1>1, MergerAssumption DEF InputOK, Torn
<1>4. TrigOK
  <2>1. ASSUME NEW f \in BOOLEAN, f = FALSE, NEW g \in BOOLEAN, g = TRUE
        PROVE  LET u == [pos |-> 0, first |-> g, clock |-> 0, total |-> 0, finished |-> f] IN
               u \in TrigType /\ u.first /\ u.pos = 0 /\ ~u.finished
    BY <1>3, <2>1 DEF TrigType
  <2>2. trig \in TrigType /\ trig.first /\ trig.pos = 0 /\ ~trig.finished
    BY <1>2, <2>1 DEF FreshTrig
  <2>3. QED
    BY <1>3, <2>2 DEF TrigOK
<1>5. /\ FreshBoard \in BoardType /\ FreshBoard.first /\ FreshBoard.pos = 0
      /\ FreshBoard.total = 0 /\ ~FreshBoard.finished /\ ~FreshBoard.missing
  <2>1. ASSUME NEW f \in BOOLEAN, f = FALSE, NEW g \in BOOLEAN, g = TRUE
        PROVE  LET u == [pos |-> 0, first |-> g, clock |-> 0, total |-> 0, finished |-> f,
                         missing |-> f] IN
               /\ u \in BoardType /\ u.first /\ u.pos = 0 /\ u.total = 0
               /\ ~u.finished /\ ~u.missing
    BY <1>3, <2>1 DEF BoardType
  <2>2. QED
    BY <2>1 DEF FreshBoard
<1>6. brd \in [Boards -> BoardType]
  BY <1>2, <1>5
<1>7. ASSUME NEW b \in Boards PROVE Counts(b, brd[b])
  <2>1. brd[b] = FreshBoard
    BY <1>2
  <2>2. QED
    BY <1>3, <1>5, <2>1 DEF Counts
<1>8. QED
  BY <1>1, <1>4, <1>6, <1>7 DEF ObjectsOK

LEMMA TrigStep ==
  ASSUME InputOK, TrigOK, UNCHANGED input, trig' = TrigNext \/ trig' = trig
  PROVE  TrigOK'
<1>1. time' = time /\ len' = len
  BY InputSame
<1>2. CASE trig' = trig
  BY <1>1, <1>2 DEF TrigOK
<1>3. CASE trig' = TrigNext
  <2> DEFINE s == TrigNext
  <2>1. /\ s \in TrigType
        /\ s.first <=> s.pos = 0
        /\ s.pos # 0 => s.clock = time[s.pos] % TrigWrap
        /\ Apart /\ s.pos # 0 => s.total = time[s.pos] - time[1]
        /\ s.pos <= len
        /\ s.finished => s.pos = len
    <3>1. trig.pos \in Nat /\ len \in Nat
      BY MergerAssumption DEF TrigOK, TrigType, InputOK
    <3> HIDE DEF s
    <3>2. QED
      BY <3>1, TrigNextIs DEF s
  <2> HIDE DEF s
  <2>2. trig' = s
    BY <1>3 DEF s
  <2>3. QED
    BY <1>1, <2>1, <2>2 DEF TrigOK
<1>4. QED
  BY <1>2, <1>3

(* A board's object is unchanged, at its next event, or set missing or not *)
(* by the comparison.                                                      *)
BoardSteps(b) ==
  \/ brd'[b] = brd[b]
  \/ brd'[b] = BoardNext(b)
  \/ /\ ~brd[b].finished
     /\ brd'[b] = [brd[b] EXCEPT !.missing = DeltaT(b) > Tol]

LEMMA BoardStep ==
  ASSUME ObjectsOK, UNCHANGED input, NEW b \in Boards, BoardSteps(b)
  PROVE  brd'[b] \in BoardType /\ Counts(b, brd'[b])
<1>0. InputOK /\ TrigOK /\ Counts(b, brd[b]) /\ brd[b] \in BoardType /\ trig \in TrigType
  BY DEF ObjectsOK, TrigOK
<1>1. CASE brd'[b] = brd[b]
  BY <1>0, <1>1
<1>2. CASE brd'[b] = BoardNext(b)
  <2>1. Counts(b, BoardNext(b)) /\ BoardNext(b) \in BoardType
    BY <1>0, BoardNextIs
  <2>2. QED
    BY <1>2, <2>1
<1>3. CASE ~brd[b].finished /\ brd'[b] = [brd[b] EXCEPT !.missing = DeltaT(b) > Tol]
  <2> DEFINE v == DeltaT(b) > Tol
  <2> DEFINE s == [brd[b] EXCEPT !.missing = v]
  <2>1. v \in BOOLEAN /\ (v => brd[b].total > 0)
    BY <1>0, DeltaTType, MergerAssumption
  <2>2. brd'[b] = s
    BY <1>3
  <2> HIDE DEF v
  <2>3. /\ s \in BoardType /\ s.pos = brd[b].pos /\ s.first = brd[b].first
        /\ s.clock = brd[b].clock
        /\ s.total = brd[b].total /\ s.finished = brd[b].finished /\ s.missing = v
    BY <1>0, <2>1, BoardMissing
  <2> HIDE DEF s
  <2>4. brd[b].total > 0 => s.pos # 0
    BY <1>0, <2>3 DEF Counts
  <2>5. Counts(b, s)
    BY <1>0, <1>3, <2>1, <2>3, <2>4 DEF Counts
  <2>6. QED
    BY <2>2, <2>3, <2>5
<1>4. QED
  BY <1>1, <1>2, <1>3 DEF BoardSteps

LEMMA NextSteps ==
  ASSUME ObjectsOK, PhasesOK, [Next]_vars
  PROVE  /\ UNCHANGED input
         /\ trig' = TrigNext \/ trig' = trig
         /\ brd' = [b \in Boards |-> brd'[b]]
         /\ \A b \in Boards : BoardSteps(b)
<1>0. brd = [b \in Boards |-> brd[b]]
  BY DEF ObjectsOK
<1>1. CASE /\ UNCHANGED input
           /\ trig' = TrigNext \/ trig' = trig
           /\ brd' = brd
  BY <1>0, <1>1 DEF BoardSteps
<1>2. CASE /\ UNCHANGED input
           /\ trig' = TrigNext
           /\ brd' = [b \in Boards |-> BoardNext(b)]
  <2>1. \A b \in Boards : brd'[b] = BoardNext(b)
    BY <1>2
  <2>2. brd' = [b \in Boards |-> brd'[b]]
    BY <1>2, <2>1, Zenon
  <2>3. QED
    BY <1>2, <2>1, <2>2 DEF BoardSteps
<1>3. ASSUME NEW b \in Boards, TooEarly(b)
      PROVE  /\ UNCHANGED input /\ trig' = trig
             /\ brd' = [c \in Boards |-> brd'[c]]
             /\ \A c \in Boards : BoardSteps(c)
  <2>1. brd' = [brd EXCEPT ![b] = BoardNext(b)]
    BY <1>3 DEF TooEarly
  <2>2. brd' = [c \in Boards |-> IF c = b THEN BoardNext(b) ELSE brd[c]]
    BY <1>0, <2>1
  <2>3. \A c \in Boards : brd'[c] = IF c = b THEN BoardNext(b) ELSE brd[c]
    BY <2>2
  <2>4. brd' = [c \in Boards |-> brd'[c]]
    BY <2>2, <2>3, Zenon
  <2>5. QED
    BY <1>3, <2>3, <2>4 DEF TooEarly, BoardSteps
<1>4. ASSUME NEW b \in Boards, Compared(b), ~brd[b].finished
      PROVE  /\ UNCHANGED input /\ trig' = trig
             /\ brd' = [c \in Boards |-> brd'[c]]
             /\ \A c \in Boards : BoardSteps(c)
  <2> DEFINE s == [brd[b] EXCEPT !.missing = DeltaT(b) > Tol]
  <2>1. brd' = [brd EXCEPT ![b] = s]
    BY <1>4 DEF Compared
  <2> HIDE DEF s
  <2>2. brd' = [c \in Boards |-> IF c = b THEN s ELSE brd[c]]
    BY <1>0, <2>1
  <2>3. \A c \in Boards : brd'[c] = IF c = b THEN s ELSE brd[c]
    BY <2>2
  <2>4. brd' = [c \in Boards |-> brd'[c]]
    BY <2>2, <2>3, Zenon
  <2>5. QED
    BY <1>4, <2>3, <2>4 DEF Compared, BoardSteps, s
<1>5. ASSUME NEW b \in Boards, Compared(b) PROVE ~brd[b].finished
  BY <1>5 DEF Compared, PhasesOK
<1>6. CASE Abort \/ Hang \/ AllCompared \/ Write \/ Tails \/ Leave \/ UNCHANGED vars
  BY <1>1, <1>6 DEF Abort, Hang, AllCompared, Write, Tails, Leave, vars, input
<1>7. CASE Read \/ Drain
  BY <1>2, <1>7 DEF Read, Drain
<1>8. QED
  BY <1>3, <1>4, <1>5, <1>6, <1>7, Zenon DEF Next

LEMMA ObjectsStep ==
  ASSUME ObjectsOK, PhasesOK, [Next]_vars
  PROVE  ObjectsOK'
<1>1. /\ UNCHANGED input
      /\ trig' = TrigNext \/ trig' = trig
      /\ brd' = [b \in Boards |-> brd'[b]]
      /\ \A b \in Boards : BoardSteps(b)
  BY NextSteps
<1>2. InputOK'
  BY <1>1, InputSame DEF ObjectsOK
<1>3. TrigOK'
  BY <1>1, TrigStep DEF ObjectsOK
<1>4. ASSUME NEW b \in Boards PROVE brd'[b] \in BoardType /\ Counts(b, brd'[b])
  BY <1>1, BoardStep
<1>5. brd' \in [Boards -> BoardType]
  BY <1>1, <1>4
<1>6. ASSUME NEW b \in Boards PROVE Counts(b, brd[b])'
  <2>1. ASSUME NEW r, r = brd'[b] PROVE Counts(b, r)'
    BY <1>1, <1>4, <2>1, CountsSame
  <2>2. QED
    BY <2>1 DEF Counts
<1>7. QED
  BY <1>2, <1>3, <1>5, <1>6 DEF ObjectsOK

LEMMA PhasesStep ==
  ASSUME ObjectsOK, PhasesOK, [Next]_vars
  PROVE  PhasesOK'
<1>0. /\ InputOK /\ TrigOK /\ brd \in [Boards -> BoardType]
      /\ \A b \in Boards : Counts(b, brd[b])
  BY DEF ObjectsOK
<1>1. CASE Read
  <2>1. /\ pc = "read" /\ trig' = TrigNext
        /\ todo' = Boards /\ pc' \in {"tails", "align"}
        /\ pc' = "align" => ~trig'.finished /\ \A b \in Boards : ~brd'[b].finished
    BY <1>1 DEF Read
  <2>2. \A b \in Boards : brd'[b] = BoardNext(b)
    BY <1>1 DEF Read
  <2>3. \A b \in Boards : ~brd'[b].missing
    BY <1>0, <2>2, BoardNextIs
  <2>4. ~TrigNext.finished => TrigNext.pos # 0
    <3>1. trig.pos \in Nat
      BY <1>0, MergerAssumption DEF TrigOK, TrigType
    <3>2. QED
      BY <1>0, <3>1, TrigNextIs
  <2>5. pc' = "align" => trig'.pos # 0
    BY <2>1, <2>4
  <2>6. QED
    BY <2>1, <2>3, <2>5 DEF PhasesOK
<1>2. ASSUME NEW b \in Boards, TooEarly(b) PROVE PhasesOK'
  <2>1. /\ pc = "align" /\ pc' = pc /\ trig' = trig /\ b \in todo
        /\ brd' = [brd EXCEPT ![b] = BoardNext(b)]
        /\ todo' = IF brd'[b].finished THEN todo \ {b} ELSE todo
    BY <1>2 DEF TooEarly
  <2>2. ~BoardNext(b).missing
    BY <1>0, BoardNextIs
  <2>3. brd'[b] = BoardNext(b) /\ \A c \in Boards : c # b => brd'[c] = brd[c]
    BY <1>0, <2>1
  <2>4. todo \subseteq Boards /\ todo' \subseteq todo
    BY <2>1 DEF PhasesOK
  <2>5. ASSUME NEW c \in todo' PROVE ~brd'[c].finished /\ ~brd'[c].missing
    <3>1. CASE c = b
      BY <2>1, <2>2, <2>3, <2>5, <3>1
    <3>2. CASE c # b
      BY <2>1, <2>3, <2>4, <3>2 DEF PhasesOK
    <3>3. QED
      BY <3>1, <3>2
  <2>6. QED
    BY <2>1, <2>4, <2>5 DEF PhasesOK
<1>3. ASSUME NEW b \in Boards, Compared(b) PROVE PhasesOK'
  <2>1. /\ pc = "align" /\ pc' = pc /\ trig' = trig /\ todo' = todo \ {b}
        /\ brd' = [brd EXCEPT ![b].missing = DeltaT(b) > Tol]
    BY <1>3 DEF Compared
  <2>2. \A c \in Boards : c # b => brd'[c] = brd[c]
    BY <1>0, <2>1
  <2>3. QED
    BY <2>1, <2>2 DEF PhasesOK
<1>4. CASE AllCompared
  BY <1>4 DEF AllCompared, PhasesOK
<1>5. CASE Write
  BY <1>5 DEF Write, PhasesOK
<1>6. CASE Abort \/ Hang \/ Tails \/ Drain \/ Leave
  BY <1>6 DEF Abort, Hang, Tails, Drain, Leave, PhasesOK
<1>7. CASE UNCHANGED vars
  BY <1>7 DEF vars, PhasesOK
<1>8. QED
  BY <1>1, <1>2, <1>3, <1>4, <1>5, <1>6, <1>7, Zenon DEF Next

(* The invariant of every run, however close the triggers are.             *)
MergerOK == ObjectsOK /\ PhasesOK

LEMMA MergerRuns == Spec => []MergerOK
<1>1. Init => MergerOK
  <2> SUFFICES ASSUME Init PROVE MergerOK
    OBVIOUS
  <2>1. ObjectsOK
    BY ObjectsInit
  <2>2. PhasesOK
    <3>1. ~FreshTrig.finished /\ ~FreshBoard.finished
      BY Zenon DEF FreshTrig, FreshBoard
    <3>2. ~trig.finished /\ \A b \in Boards : ~brd[b].finished
      BY <3>1 DEF Init
    <3>3. pc = "read" /\ todo = {}
      BY DEF Init
    <3>4. QED
      BY <3>2, <3>3 DEF PhasesOK
  <2>3. QED
    BY <2>1, <2>2 DEF MergerOK
<1>2. MergerOK /\ [Next]_vars => MergerOK'
  BY ObjectsStep, PhasesStep DEF MergerOK
<1>3. QED
  BY <1>1, <1>2, PTL DEF Spec

-----------------------------------------------------------------------------
(* Triggers far apart: the comparison of the times tells which of the two  *)
(* events came first.                                                      *)

LEMMA DeltaTells ==
  ASSUME Apart, ObjectsOK, NEW b \in Boards, Steady(b), brd[b].pos \notin {0, Torn}, trig.pos # 0
  PROVE  /\ DeltaT(b) < -Tol <=> brd[b].pos < trig.pos
         /\ DeltaT(b) > Tol <=> brd[b].pos > trig.pos
<1> DEFINE p == brd[b].pos
<1> DEFINE q == trig.pos
<1> DEFINE n == ((time[p] + phase[b]) \div Tick - (time[1] + phase[b]) \div Tick) * Tick
<1>0. /\ InputOK /\ TrigOK /\ Counts(b, brd[b]) /\ Healthy(b) \subseteq Trigs
      /\ Trigs = 1..NTrig /\ NTrig \in Nat
      /\ Tick \in Nat /\ Tick > 0 /\ Tol \in Nat /\ Tick <= Tol + 1
  BY HealthyTrigs, MergerAssumption DEF ObjectsOK, Apart
<1>1. p \in Trigs /\ q \in Trigs /\ 1 \in Trigs
  <2>1. p \in Trigs
    BY <1>0 DEF Counts
  <2>2. q \in 0..NTrig
    BY <1>0 DEF TrigOK, TrigType
  <2> HIDE DEF p
  <2>3. QED
    BY <1>0, <2>1, <2>2
<1>2. time[p] \in Nat /\ time[q] \in Nat /\ time[1] \in Nat /\ phase[b] \in Nat
  BY <1>0, <1>1 DEF InputOK
<1>3. DeltaT(b) = n - (time[q] - time[1])
  <2>1. brd[b].total = Cycle(b, p) - Cycle(b, 1) /\ trig.total = time[q] - time[1]
    BY <1>0 DEF Counts, TrigOK
  <2>2. QED
    BY <2>1 DEF DeltaT, Cycle
<1>4. n > time[p] - time[1] - Tick /\ n < time[p] - time[1] + Tick
  BY <1>0, <1>2, CyclesTell
<1>5. n \in Int
  <2>1. Cycle(b, p) \in Nat /\ Cycle(b, 1) \in Nat
    BY <1>0, <1>1, TagIs
  <2>2. n = (Cycle(b, p) - Cycle(b, 1)) * Tick
    BY DEF Cycle
  <2>3. QED
    BY <1>0, <2>1, <2>2
<1> HIDE DEF n
<1>6. /\ DeltaT(b) \in Int
      /\ DeltaT(b) > time[p] - time[q] - Tick /\ DeltaT(b) < time[p] - time[q] + Tick
  <2> DEFINE dt == DeltaT(b)
  <2> DEFINE x == time[p]
  <2> DEFINE y == time[q]
  <2> DEFINE z == time[1]
  <2>1. /\ x \in Nat /\ y \in Nat /\ z \in Nat /\ dt = n - (y - z) /\ n \in Int /\ Tick \in Nat
        /\ n > x - z - Tick /\ n < x - z + Tick
    BY <1>0, <1>2, <1>3, <1>4, <1>5
  <2> HIDE DEF dt, x, y, z
  <2>2. dt \in Int /\ dt > x - y - Tick /\ dt < x - y + Tick
    BY <2>1
  <2>3. QED
    BY <2>2 DEF dt, x, y
<1>7. /\ p < q => time[q] - time[p] >= Tol + Tick
      /\ p > q => time[p] - time[q] >= Tol + Tick
  <2> HIDE DEF p, q
  <2>1. QED
    BY <1>0, <1>1 DEF InputOK
<1>8. /\ p < q => DeltaT(b) < -Tol
      /\ p > q => DeltaT(b) > Tol
      /\ p = q => DeltaT(b) >= -Tol /\ DeltaT(b) <= Tol
  <2> DEFINE dt == DeltaT(b)
  <2> DEFINE x == time[p]
  <2> DEFINE y == time[q]
  <2>1. /\ x \in Nat /\ y \in Nat /\ dt \in Int /\ Tol \in Nat /\ Tick \in Nat /\ Tick <= Tol + 1
        /\ dt > x - y - Tick /\ dt < x - y + Tick
    BY <1>0, <1>2, <1>6
  <2>2. p = q => x = y
    OBVIOUS
  <2> HIDE DEF dt, x, y
  <2>3. dt > x - y - Tick /\ dt < x - y + Tick
    BY <2>1
  <2>4. /\ y - x >= Tol + Tick => dt < -Tol
        /\ x - y >= Tol + Tick => dt > Tol
        /\ x = y => dt >= -Tol /\ dt <= Tol
    BY <2>1
  <2>5. QED
    BY <1>7, <2>2, <2>4 DEF dt, x, y
<1>9. p \in Nat /\ q \in Nat
  BY <1>0, <1>1
<1>10. QED
  <2> HIDE DEF p, q
  <2>1. CASE p < q
    BY <1>0, <1>6, <1>8, <1>9, <2>1 DEF p, q
  <2>2. CASE p > q
    BY <1>0, <1>6, <1>8, <1>9, <2>2 DEF p, q
  <2>3. CASE p = q
    BY <1>0, <1>6, <1>8, <1>9, <2>3 DEF p, q
  <2>4. QED
    BY <1>9, <2>1, <2>2, <2>3

(* A new round: the trigger goes on by one, and so does each board that    *)
(* was not ahead of it.                                                    *)
LEMMA ReadOrder ==
  ASSUME ObjectsOK, PhasesOK, Read, pc' = "align", NEW b \in Boards, Steady(b), Order(b)
  PROVE  /\ ~brd'[b].finished
         /\ \A k \in Healthy(b) : k < trig'.pos \/ k >= brd'[b].pos
         /\ brd'[b].pos # 0
         /\ brd'[b].pos < trig'.pos => b \in cut /\ \A k \in Healthy(b) : k <= brd'[b].pos
<1> DEFINE r == brd[b]
<1> DEFINE s == BoardNext(b)
<1> DEFINE q == trig.pos
<1>0. /\ InputOK /\ TrigOK /\ Counts(b, r) /\ r \in BoardType
      /\ pc = "read" /\ ~Hopeless(b)
      /\ trig' = TrigNext /\ brd'[b] = s /\ ~trig'.finished /\ ~brd'[b].finished
  <2>1. /\ pc = "read" /\ ~Hopeless(b) /\ trig' = TrigNext
        /\ brd' = [c \in Boards |-> BoardNext(c)]
        /\ ~(trig'.finished \/ \E c \in Boards : brd'[c].finished)
    BY DEF Read, Returns
  <2>2. QED
    BY <2>1 DEF ObjectsOK
<1>1. /\ q \in Nat /\ r.pos \in Nat /\ Healthy(b) \subseteq Nat /\ 0 \notin Healthy(b)
      /\ Torn \in Nat /\ Torn # 0 /\ \A k \in Healthy(b) : k < Torn
  <2>1. q \in Nat /\ r.pos \in Nat /\ Torn = NTrig + 1
    BY <1>0, MergerAssumption DEF TrigOK, TrigType, BoardType, Torn
  <2>2. Healthy(b) \subseteq 1..NTrig /\ NTrig \in Nat
    BY HealthyTrigs, MergerAssumption
  <2>3. QED
    BY <2>1, <2>2
<1>2. trig'.pos = q + 1 /\ trig'.pos < Torn
  <2>1. trig'.pos = q + 1 /\ trig'.pos \in 0..NTrig
    BY <1>0, TrigNextIs DEF TrigType
  <2>2. QED
    BY <2>1, MergerAssumption DEF Torn
<1>3. /\ ~s.finished
      /\ ~r.finished /\ r.missing => s.pos = r.pos
      /\ ~r.finished /\ ~r.missing /\ Rest(b) # {}
           => s.pos \in Rest(b) /\ \A k \in Rest(b) : s.pos <= k
      /\ ~r.finished /\ ~r.missing /\ Rest(b) = {} /\ b \in DOMAIN junk => s.pos = Torn
      /\ ~r.finished /\ ~r.missing /\ Rest(b) = {} /\ b \in cut \ DOMAIN junk => s = r
      /\ ~r.finished /\ ~r.missing /\ Rest(b) = {} /\ b \notin cut => s.finished
  BY <1>0, BoardNextIs
<1>4. /\ ~r.finished
      /\ \A k \in Healthy(b) : k < q \/ k >= r.pos
      /\ IF r.missing THEN r.pos > q ELSE r.pos \in {q, Torn}
  BY <1>0 DEF Order
<1>5. Rest(b) = {k \in Healthy(b) : k > r.pos}
  BY HealthyTrigs
<1>6. (r.pos = 0 => r.first) /\ (r.pos = Torn => b \in DOMAIN junk)
  BY <1>0 DEF Counts
<1>7. brd'[b] = s
  BY <1>0
<1> HIDE DEF r, s, q
<1>8. CASE r.missing
  <2>1. s.pos = r.pos /\ r.pos > q
    BY <1>3, <1>4, <1>8
  <2>2. QED
    BY <1>1, <1>2, <1>3, <1>4, <1>7, <2>1
<1>9. CASE ~r.missing /\ Rest(b) # {}
  <2>1. /\ s.pos \in Healthy(b) /\ s.pos > r.pos /\ r.pos = q
        /\ \A k \in Healthy(b) : k > r.pos => s.pos <= k
    BY <1>1, <1>3, <1>4, <1>5, <1>9
  <2>2. s.pos \in Nat /\ s.pos >= q + 1
    BY <1>1, <2>1
  <2>3. \A k \in Healthy(b) : k < q + 1 \/ k >= s.pos
    BY <1>1, <2>1, <2>2
  <2>4. QED
    BY <1>1, <1>2, <1>3, <1>7, <2>2, <2>3
<1>10. CASE ~r.missing /\ Rest(b) = {} /\ b \in DOMAIN junk
  <2>1. s.pos = Torn
    BY <1>3, <1>4, <1>10
  <2>2. \A k \in Healthy(b) : k < q + 1
    <3>1. CASE r.pos = q
      BY <1>1, <1>5, <1>10, <3>1
    <3>2. CASE r.pos = Torn
      BY <1>1, <1>4, <3>2
    <3>3. QED
      BY <1>4, <1>10, <3>1, <3>2
  <2>3. QED
    BY <1>1, <1>2, <1>3, <1>7, <2>1, <2>2
<1>11. CASE ~r.missing /\ Rest(b) = {} /\ b \notin DOMAIN junk
  <2>1. b \in cut /\ s = r /\ r.pos = q
    BY <1>3, <1>4, <1>6, <1>11
  <2>2. \A k \in Healthy(b) : k <= r.pos
    BY <1>1, <1>5, <1>11
  <2>3. r.pos # 0
    <3> SUFFICES ASSUME r.pos = 0 PROVE FALSE
      OBVIOUS
    <3>1. Healthy(b) = {}
      BY <1>1, <2>2
    <3>2. Recorded(b) = {}
      BY <3>1 DEF Steady
    <3>3. QED
      BY <1>0, <1>6, <1>11, <2>1, <3>2 DEF Hopeless, r
  <2>4. QED
    BY <1>1, <1>2, <1>3, <1>7, <2>1, <2>2, <2>3
<1>12. QED
  BY <1>8, <1>9, <1>10, <1>11

LEMMA OrderStep ==
  ASSUME Apart, ObjectsOK, PhasesOK, OrderOK, [Next]_vars
  PROVE  OrderOK'
<1> SUFFICES ASSUME pc' \in {"read", "align", "write"}, NEW b \in Boards, Steady(b)'
             PROVE  Order(b)'
  BY DEF OrderOK
<1>0. /\ brd \in [Boards -> BoardType] /\ InputOK /\ Counts(b, brd[b])
      /\ trig.pos \in Nat /\ brd[b].pos \in Nat /\ todo \subseteq Boards
      /\ Torn \in Nat /\ Torn # 0 /\ trig.pos < Torn
  BY MergerAssumption DEF ObjectsOK, TrigOK, TrigType, BoardType, PhasesOK, Torn
<1>1. UNCHANGED input
  BY NextSteps
<1>2. Healthy(b)' = Healthy(b) /\ Steady(b) /\ cut' = cut /\ junk' = junk
  BY <1>1, StreamSame, InputSame
<1>3. ASSUME pc \in {"read", "align", "write"} PROVE Order(b)
  BY <1>2, <1>3 DEF OrderOK
<1>4. ASSUME Order(b), brd'[b] = brd[b], trig' = trig, pc' = "read" \/ pc # "read",
             (pc = "align" /\ b \in todo) <=> (pc' = "align" /\ b \in todo')
      PROVE  Order(b)'
  BY <1>2, <1>4 DEF Order
<1>5. CASE Read
  <2>1. pc = "read" /\ pc' = "align" /\ todo' = Boards
    BY <1>5 DEF Read
  <2>2. /\ ~brd'[b].finished
        /\ \A k \in Healthy(b) : k < trig'.pos \/ k >= brd'[b].pos
        /\ brd'[b].pos # 0
        /\ brd'[b].pos < trig'.pos => b \in cut /\ \A k \in Healthy(b) : k <= brd'[b].pos
    BY <1>2, <1>3, <1>5, <2>1, ReadOrder
  <2>3. QED
    BY <1>2, <2>1, <2>2 DEF Order
<1>6. ASSUME NEW c \in Boards, TooEarly(c) PROVE Order(b)'
  <2>1. /\ pc = "align" /\ pc' = "align" /\ trig' = trig /\ c \in todo /\ DeltaT(c) < -Tol
        /\ brd' = [brd EXCEPT ![c] = BoardNext(c)]
        /\ todo' = IF brd'[c].finished THEN todo \ {c} ELSE todo
    BY <1>6 DEF TooEarly
  <2>2. Order(b)
    BY <1>3, <2>1
  <2>3. CASE c = b
    <3>1. brd[b].pos # 0 /\ trig.pos # 0 /\ ~brd[b].finished /\ ~brd[b].missing
      BY <2>1, <2>2, <2>3 DEF PhasesOK, Order
    <3>2. brd[b].pos # Torn => /\ brd[b].pos < trig.pos
                               /\ b \in cut /\ \A k \in Healthy(b) : k <= brd[b].pos
      <4>1. brd[b].pos # Torn => brd[b].pos < trig.pos
        BY <1>2, <2>1, <2>3, <3>1, DeltaTells
      <4>2. QED
        BY <2>1, <2>2, <2>3, <4>1 DEF Order
    <3>3. Healthy(b) \subseteq Nat /\ \A k \in Healthy(b) : k < Torn
      <4>1. Healthy(b) \subseteq 1..NTrig /\ NTrig \in Nat
        BY HealthyTrigs, MergerAssumption
      <4>2. QED
        BY <4>1 DEF Torn
    <3>4. Rest(b) = {} /\ b \in cut
      <4>1. Rest(b) = {}
        BY <1>0, <3>2, <3>3, HealthyTrigs
      <4>2. b \in cut
        BY <1>0, <3>2 DEF Counts, InputOK
      <4>3. QED
        BY <4>1, <4>2
    <3>5. /\ b \notin DOMAIN junk => BoardNext(b) = brd[b]
          /\ b \in DOMAIN junk => BoardNext(b).pos = Torn /\ ~BoardNext(b).finished
      <4>1. Counts(b, BoardNext(b))
        BY <1>0, BoardNextIs
      <4>2. ~BoardNext(b).finished
        BY <3>4, <4>1 DEF Counts
      <4>3. QED
        BY <1>0, <3>1, <3>4, <4>2, BoardNextIs
    <3>6. brd'[b] = BoardNext(b)
      BY <1>0, <2>1, <2>3
    <3>7. CASE b \notin DOMAIN junk
      <4>1. brd'[b] = brd[b] /\ todo' = todo
        BY <2>1, <2>3, <3>1, <3>5, <3>6, <3>7
      <4>2. QED
        BY <1>4, <2>1, <2>2, <4>1
    <3>8. CASE b \in DOMAIN junk
      <4>1. brd'[b].pos = Torn /\ ~brd'[b].finished /\ todo' = todo
        BY <2>1, <2>3, <3>5, <3>6, <3>8
      <4>2. \A k \in Healthy(b) : k < trig.pos
        <5>1. CASE brd[b].pos = Torn
          BY <1>0, <2>2, <3>3, <5>1 DEF Order
        <5>2. CASE brd[b].pos # Torn
          BY <1>0, <3>2, <3>3, <5>2
        <5>3. QED
          BY <5>1, <5>2
      <4>3. ~(Torn < trig.pos)
        BY <1>0
      <4>4. QED
        BY <1>0, <1>2, <2>1, <2>3, <4>1, <4>2, <4>3 DEF Order
    <3>9. QED
      BY <3>7, <3>8
  <2>4. CASE c # b
    <3>1. brd'[b] = brd[b] /\ (b \in todo <=> b \in todo')
      BY <1>0, <2>1, <2>4
    <3>2. QED
      BY <1>4, <2>1, <2>2, <3>1
  <2>5. QED
    BY <2>3, <2>4
<1>7. ASSUME NEW c \in Boards, Compared(c) PROVE Order(b)'
  <2> DEFINE v == DeltaT(c) > Tol
  <2>1. /\ pc = "align" /\ pc' = "align" /\ trig' = trig /\ c \in todo /\ ~(DeltaT(c) < -Tol)
        /\ brd' = [brd EXCEPT ![c] = [brd[c] EXCEPT !.missing = v]] /\ todo' = todo \ {c}
    <3>1. DeltaT(c) \in Int /\ Tol \in Nat
      BY <1>0, DeltaTType, MergerAssumption DEF ObjectsOK, TrigOK
    <3>2. QED
      BY <1>7, <3>1 DEF Compared
  <2>2. Order(b)
    BY <1>3, <2>1
  <2>3. CASE c = b
    <3>1. brd[b].pos # 0 /\ trig.pos # 0 /\ ~brd[b].finished
      BY <2>1, <2>2, <2>3 DEF PhasesOK, Order
    <3>2. /\ v \in BOOLEAN /\ ~(brd[b].pos < trig.pos)
          /\ brd[b].pos # Torn => (v <=> brd[b].pos > trig.pos)
      <4>1. brd[b].pos # Torn => /\ DeltaT(b) < -Tol <=> brd[b].pos < trig.pos
                                 /\ DeltaT(b) > Tol <=> brd[b].pos > trig.pos
        BY <1>2, <3>1, DeltaTells
      <4>2. QED
        BY <1>0, <2>1, <2>3, <4>1
    <3> HIDE DEF v
    <3>3. /\ brd'[b].pos = brd[b].pos /\ brd'[b].finished = brd[b].finished
          /\ brd'[b].missing = v
      <4>1. brd'[b] = [brd[b] EXCEPT !.missing = v]
        BY <1>0, <2>1, <2>3
      <4>2. QED
        BY <1>0, <3>2, <4>1, BoardMissing
    <3>4. IF brd'[b].missing THEN brd'[b].pos > trig'.pos ELSE brd'[b].pos \in {trig'.pos, Torn}
      BY <1>0, <2>1, <3>2, <3>3
    <3>5. /\ ~brd'[b].finished
          /\ \A k \in Healthy(b) : k < trig'.pos \/ k >= brd'[b].pos
          /\ brd'[b].pos # 0 /\ b \notin todo'
      BY <2>1, <2>2, <2>3, <3>1, <3>3 DEF Order
    <3>6. QED
      BY <1>2, <2>1, <3>4, <3>5 DEF Order
  <2>4. CASE c # b
    <3>1. brd'[b] = brd[b] /\ (b \in todo <=> b \in todo')
      BY <1>0, <2>1, <2>4
    <3>2. QED
      BY <1>4, <2>1, <2>2, <3>1
  <2>5. QED
    BY <2>3, <2>4
<1>8. CASE AllCompared
  BY <1>3, <1>4, <1>8 DEF AllCompared
<1>9. CASE Write
  BY <1>3, <1>4, <1>9 DEF Write
<1>10. CASE Abort \/ Hang \/ Tails \/ Drain \/ Leave
  BY <1>10 DEF Abort, Hang, Tails, Drain, Leave
<1>11. CASE UNCHANGED vars
  BY <1>3, <1>4, <1>11 DEF vars
<1>12. QED
  BY <1>5, <1>6, <1>7, <1>8, <1>9, <1>10, <1>11, Zenon DEF Next

-----------------------------------------------------------------------------
(* What is written. *)

LEMMA Appended ==
  ASSUME NEW S, NEW w \in Seq(S), NEW e \in S
  PROVE  LET u == Append(w, e) IN
         /\ u \in Seq(S) /\ Len(u) = Len(w) + 1 /\ DOMAIN u = DOMAIN w \cup {Len(w) + 1}
         /\ u[Len(w) + 1] = e
         /\ \A k \in DOMAIN w : k \in Nat /\ u[k] = w[k]
  OBVIOUS

LEMMA WriteIs ==
  ASSUME ObjectsOK, PhasesOK, WrittenOK, Write
  PROVE  /\ written' \in WrittenType /\ Len(written') = trig.pos /\ trig.pos \in Nat
         /\ DOMAIN written' = DOMAIN written \cup {trig.pos}
         /\ written'[trig.pos] = Event
         /\ \A k \in DOMAIN written : k \in Nat /\ written'[k] = written[k]
<1>1. pc = "write" /\ written' = Append(written, Event)
  BY DEF Write
<1>2. /\ written \in WrittenType /\ Len(written) = trig.pos - 1
      /\ trig.pos \in 0..NTrig /\ NTrig \in Nat /\ brd \in [Boards -> BoardType]
  BY <1>1, MergerAssumption DEF WrittenOK, ObjectsOK, TrigOK, TrigType
<1>3. Event \in [trig : 0..NTrig, data : [Boards -> 0..Torn]]
  <2>1. \A b \in Boards : (IF brd[b].missing THEN 0 ELSE brd[b].pos) \in 0..Torn
    BY <1>2 DEF BoardType, Torn
  <2>2. QED
    BY <1>2, <2>1 DEF Event
<1> HIDE DEF Event
<1>4. Len(written) + 1 = trig.pos /\ trig.pos \in Nat
  BY <1>2
<1>5. QED
  <2> DEFINE S == [trig : 0..NTrig, data : [Boards -> 0..Torn]]
  <2>1. written \in Seq(S) /\ Event \in S
    BY <1>2, <1>3 DEF WrittenType
  <2> HIDE DEF S
  <2>2. /\ written' \in Seq(S) /\ Len(written') = Len(written) + 1
        /\ DOMAIN written' = DOMAIN written \cup {Len(written) + 1}
        /\ written'[Len(written) + 1] = Event
        /\ \A k \in DOMAIN written : k \in Nat /\ written'[k] = written[k]
    BY <1>1, <2>1, Appended
  <2>3. written' \in WrittenType
    BY <2>2 DEF WrittenType, S
  <2>4. QED
    BY <1>4, <2>2, <2>3

LEMMA WrittenStep ==
  ASSUME ObjectsOK, PhasesOK, WrittenOK, [Next]_vars
  PROVE  WrittenOK'
<1>0. InputOK /\ TrigOK /\ trig.pos \in Nat
  BY MergerAssumption DEF ObjectsOK, TrigOK, TrigType
<1>1. CASE Write
  <2>1. /\ written' \in WrittenType /\ Len(written') = trig.pos
        /\ DOMAIN written' = DOMAIN written \cup {trig.pos}
        /\ written'[trig.pos] = Event
        /\ \A k \in DOMAIN written : written'[k] = written[k]
    BY <1>1, WriteIs
  <2>2. Event.trig = trig.pos
    BY DEF Event
  <2>3. \A k \in DOMAIN written' : written'[k].trig = k
    BY <2>1, <2>2 DEF WrittenOK
  <2>4. pc' = "read" /\ trig' = trig
    BY <1>1 DEF Write
  <2>5. QED
    BY <2>1, <2>3, <2>4 DEF WrittenOK, WrittenType
<1>2. CASE Read
  <2>1. /\ pc = "read" /\ trig' = TrigNext /\ written' = written
        /\ (pc' = "align" /\ ~trig'.finished) \/ pc' = "tails"
    BY <1>2 DEF Read
  <2>2. ~TrigNext.finished => TrigNext.pos = trig.pos + 1
    BY <1>0, TrigNextIs
  <2>3. pc' = "align" => Len(written) = trig'.pos - 1
    BY <1>0, <2>1, <2>2 DEF WrittenOK
  <2>4. QED
    BY <2>1, <2>3 DEF WrittenOK, WrittenType
<1>3. CASE \E b \in Boards : TooEarly(b) \/ Compared(b)
  BY <1>3 DEF TooEarly, Compared, WrittenOK, WrittenType
<1>4. CASE AllCompared
  BY <1>4 DEF AllCompared, WrittenOK, WrittenType
<1>5. CASE Abort \/ Hang \/ Tails \/ Drain \/ Leave
  BY <1>5 DEF Abort, Hang, Tails, Drain, Leave, WrittenOK, WrittenType
<1>6. CASE UNCHANGED vars
  BY <1>6 DEF vars, WrittenOK, WrittenType
<1>7. QED
  BY <1>1, <1>2, <1>3, <1>4, <1>5, <1>6 DEF Next

LEMMA OnlyWriteWrites ==
  ASSUME [Next]_vars
  PROVE  Write \/ written' = written
BY DEF Next, vars, Abort, Hang, Read, TooEarly, Compared, AllCompared, Tails, Drain, Leave

LEMMA DataStep ==
  ASSUME ObjectsOK, PhasesOK, OrderOK, WrittenOK, DataOK, [Next]_vars
  PROVE  DataOK'
<1>1. UNCHANGED input
  BY NextSteps
<1> SUFFICES ASSUME NEW k \in DOMAIN written', NEW b \in Boards, Steady(b)'
             PROVE  /\ \/ written'[k].data[b] \in {0, k}
                       \/ written'[k].data[b] = Torn /\ b \in DOMAIN junk
                    /\ k \in Healthy(b)' => written'[k].data[b] # 0
  BY <1>1, InputSame DEF DataOK
<1>2. Healthy(b)' = Healthy(b) /\ Steady(b)
  BY <1>1, StreamSame
<1>3. CASE k \in DOMAIN written /\ written'[k] = written[k]
  BY <1>2, <1>3 DEF DataOK
<1>4. CASE written' = written
  BY <1>3, <1>4
<1>5. CASE Write
  <2>1. /\ trig.pos \in Nat /\ DOMAIN written' = DOMAIN written \cup {trig.pos}
        /\ written'[trig.pos] = Event
        /\ \A j \in DOMAIN written : written'[j] = written[j]
    BY <1>5, WriteIs
  <2>2. CASE k = trig.pos
    <3>1. written'[k].data[b] = IF brd[b].missing THEN 0 ELSE brd[b].pos
      BY <2>1, <2>2 DEF Event
    <3>2. Order(b) /\ pc = "write" /\ trig.pos # 0
      BY <1>2, <1>5 DEF Write, OrderOK, PhasesOK
    <3>3. /\ \A j \in Healthy(b) : j < k \/ j >= brd[b].pos
          /\ IF brd[b].missing THEN brd[b].pos > k ELSE brd[b].pos \in {k, Torn}
          /\ k # 0 /\ k \in Nat /\ brd[b].pos # 0
          /\ brd[b].pos = Torn => b \in DOMAIN junk
      BY <2>1, <2>2, <3>2, <1>5 DEF Order, Write, ObjectsOK, Counts
    <3>4. CASE brd[b].missing
      <4>1. k \notin Healthy(b)
        <5>1. brd[b].pos \in Nat
          BY MergerAssumption DEF ObjectsOK, BoardType
        <5>2. QED
          BY <3>3, <3>4, <5>1
      <4>2. QED
        BY <1>2, <3>1, <3>4, <4>1
    <3>5. CASE ~brd[b].missing
      BY <3>1, <3>3, <3>5
    <3>6. QED
      BY <3>4, <3>5
  <2>3. QED
    BY <1>3, <2>1, <2>2
<1>6. QED
  BY <1>4, <1>5, OnlyWriteWrites

(* How many triggers the merged streams have in common.                    *)
Common == Min({len} \cup {Max({0} \cup Healthy(b)) : b \in Boards \ cut})

MergedOK == Ended /\ (\A b \in Boards : Steady(b)) => Len(written) = Common

(* The first input to end is the shortest.                                 *)
LEMMA EndIsCommon ==
  ASSUME ObjectsOK, PhasesOK, OrderOK, WrittenOK, Read, pc' = "tails",
         \A b \in Boards : Steady(b)
  PROVE  Len(written) = Common
<1> DEFINE n == trig.pos
<1> DEFINE Last(b) == Max({0} \cup Healthy(b))
<1> DEFINE S == {len} \cup {Last(b) : b \in Boards \ cut}
<1>0. /\ InputOK /\ TrigOK /\ \A b \in Boards : Counts(b, brd[b]) /\ brd[b] \in BoardType
      /\ n \in Nat /\ len \in Nat /\ n <= len /\ NTrig \in Nat
  BY MergerAssumption DEF ObjectsOK, TrigOK, TrigType, InputOK
<1>1. /\ pc = "read" /\ trig' = TrigNext /\ \A b \in Boards : brd'[b] = BoardNext(b)
      /\ trig'.finished \/ \E b \in Boards : brd'[b].finished
  BY DEF Read
<1>2. Len(written) = n /\ ~trig.finished
  BY <1>1 DEF WrittenOK, PhasesOK
<1>3. ASSUME NEW b \in Boards \ cut
      PROVE  /\ ~brd[b].finished /\ brd[b].pos \in Nat
             /\ brd[b].pos \in {0} \cup Healthy(b)
             /\ IF brd[b].missing THEN brd[b].pos > n ELSE brd[b].pos = n
             /\ {0} \cup Healthy(b) \subseteq 0..NTrig
  <2>1. Order(b)
    BY <1>1 DEF OrderOK
  <2>2. brd[b].pos \in Nat /\ brd[b].pos \in {0} \cup Healthy(b)
    BY <1>0, MergerAssumption DEF BoardType, Counts, InputOK, Torn
  <2>3. {0} \cup Healthy(b) \subseteq 0..NTrig
    BY <1>0, HealthyTrigs
  <2>4. brd[b].pos # Torn
    BY <1>0 DEF Counts, InputOK
  <2>5. QED
    BY <1>1, <2>1, <2>2, <2>3, <2>4 DEF Order
<1>4. ASSUME NEW b \in Boards \ cut PROVE Last(b) \in Nat /\ n <= Last(b)
  <2>1. /\ Last(b) \in {0} \cup Healthy(b)
        /\ \A k \in {0} \cup Healthy(b) : k <= Last(b)
    <3>1. {0} \cup Healthy(b) # {}
      OBVIOUS
    <3>2. QED
      BY <1>0, <1>3, <3>1, MaxOf
  <2> HIDE DEF Last
  <2>2. Last(b) \in Nat
    BY <1>0, <1>3, <2>1
  <2>3. brd[b].pos <= Last(b) /\ n <= brd[b].pos
    BY <1>0, <1>3, <2>1
  <2>4. QED
    BY <1>0, <1>3, <2>2, <2>3
<1>5. n \in S
  <2>1. CASE trig'.finished
    <3>1. n = len
      BY <1>0, <1>1, <1>2, <2>1, TrigNextIs
    <3>2. QED
      BY <3>1
  <2>2. ASSUME NEW b \in Boards, brd'[b].finished PROVE n \in S
    <3>0. b \notin cut
      <4>1. Counts(b, BoardNext(b))
        BY <1>0, BoardNextIs
      <4>2. QED
        BY <1>1, <2>2, <4>1 DEF Counts
    <3>1. ~brd[b].missing /\ Rest(b) = {} /\ b \notin cut
      BY <1>0, <1>1, <1>3, <2>2, <3>0, BoardNextIs
    <3>2. brd[b].pos = n
      BY <1>3, <3>1
    <3>3. \A k \in {0} \cup Healthy(b) : k <= n
      <4>1. \A k \in Healthy(b) : ~(k > n)
        BY <3>1, <3>2, HealthyTrigs
      <4>2. QED
        BY <1>0, <1>3, <4>1
    <3>4. n \in {0} \cup Healthy(b) /\ {0} \cup Healthy(b) \subseteq Nat
      BY <1>0, <1>3, <3>0, <3>2
    <3>5. Last(b) = n
      BY <3>3, <3>4, MaxIs
    <3>6. QED
      BY <3>1, <3>5
  <2>3. QED
    BY <1>1, <2>1, <2>2
<1>6. S \subseteq Nat /\ \A k \in S : n <= k
  <2> HIDE DEF Last
  <2>1. QED
    BY <1>0, <1>4
<1>7. Min(S) = n
  <2> HIDE DEF S
  <2>1. QED
    BY <1>5, <1>6, MinIs
<1>8. QED
  BY <1>2, <1>7 DEF Common

LEMMA CommonSame ==
  ASSUME UNCHANGED input
  PROVE  Common' = Common /\ ((\A b \in Boards : Steady(b))' <=> \A b \in Boards : Steady(b))
<1>1. \A b \in Boards : Healthy(b)' = Healthy(b) /\ (Steady(b)' <=> Steady(b))
  BY StreamSame
<1>2. len' = len /\ cut' = cut
  BY InputSame
<1>3. QED
  BY <1>1, <1>2 DEF Common

LEMMA MergedStep ==
  ASSUME ObjectsOK, PhasesOK, OrderOK, WrittenOK, MergedOK, [Next]_vars
  PROVE  MergedOK'
<1> SUFFICES ASSUME Ended', (\A b \in Boards : Steady(b))'
             PROVE  Len(written') = Common'
  BY DEF MergedOK
<1>1. UNCHANGED input
  BY NextSteps
<1>2. Common' = Common /\ \A b \in Boards : Steady(b)
  BY <1>1, CommonSame
<1>3. CASE Ended /\ written' = written
  BY <1>2, <1>3 DEF MergedOK
<1>4. CASE Read
  <2>1. pc' = "tails" /\ written' = written
    BY <1>4 DEF Read, Ended
  <2>2. QED
    BY <1>2, <1>4, <2>1, EndIsCommon
<1>5. CASE AllCompared
  <2>1. \A b \in Boards : ~brd[b].finished
    BY <1>2, <1>5 DEF AllCompared, OrderOK, Order
  <2>2. pc' = "write"
    BY <1>5, <2>1 DEF AllCompared
  <2>3. QED
    BY <2>2 DEF Ended
<1>6. CASE Abort \/ Hang \/ Write \/ \E b \in Boards : TooEarly(b) \/ Compared(b)
  BY <1>6 DEF Abort, Hang, Write, TooEarly, Compared, Ended
<1>7. CASE Tails \/ Drain \/ Leave
  BY <1>3, <1>7 DEF Tails, Drain, Leave, Ended
<1>8. CASE UNCHANGED vars
  BY <1>3, <1>8 DEF vars, Ended
<1>9. QED
  BY <1>4, <1>5, <1>6, <1>7, <1>8 DEF Next

-----------------------------------------------------------------------------
(* The end of the run. *)

(* What a board was asked for after the last merged event it has given, or *)
(* it was at its tail before.                                              *)
Given(b) == {k \in Left(b) : k <= brd[b].pos}

ReadOn(b) ==
  /\ ~brd[b].missing
  /\ IF brd[b].finished THEN Cardinality(Left(b)) <= tests
     ELSE Cardinality(Given(b)) = tests + 1

DrainOK ==
  /\ tests \in 0..MaxTests
  /\ pc \in {"read", "align", "write", "tails"} => tests = 0
  /\ pc = "done" => Drained \/ tests = MaxTests
  /\ Ended /\ (\A b \in Boards : Steady(b)) =>
       /\ IF trig.finished THEN len - Len(written) <= tests
          ELSE trig.pos = Len(written) + 1 + tests
       /\ \A b \in Boards \ cut : ReadOn(b)

LEMMA LeftFinite ==
  ASSUME NEW b \in Boards
  PROVE  /\ IsFiniteSet(Left(b)) /\ Cardinality(Left(b)) \in Nat
         /\ \A S \in SUBSET Left(b) :
              IsFiniteSet(S) /\ Cardinality(S) \in Nat /\ Cardinality(S) <= Cardinality(Left(b))
<1>1. Left(b) \subseteq 1..NTrig
  BY HealthyTrigs DEF Left
<1>2. IsFiniteSet(1..NTrig)
  BY FS_Interval, MergerAssumption
<1>3. IsFiniteSet(Left(b))
  BY <1>1, <1>2, FS_Subset
<1>4. QED
  BY <1>3, FS_Subset, FS_CardinalityType

LEMMA WholeStream ==
  ASSUME ObjectsOK, NEW b \in Boards \ cut
  PROVE  /\ InputOK /\ Counts(b, brd[b]) /\ brd[b].pos \in Nat /\ b \notin DOMAIN junk
         /\ Healthy(b) \subseteq Nat /\ Rest(b) = {k \in Healthy(b) : k > brd[b].pos}
<1>1. InputOK /\ Counts(b, brd[b]) /\ brd[b] \in BoardType
  BY DEF ObjectsOK
<1>2. brd[b].pos \in Nat
  BY <1>1, MergerAssumption DEF BoardType, Torn
<1>3. b \notin DOMAIN junk
  BY <1>1 DEF InputOK
<1>4. QED
  BY <1>1, <1>2, <1>3, HealthyTrigs

(* The merging ends with each input one event on, or at its end.           *)
LEMMA DrainBegins ==
  ASSUME ObjectsOK, PhasesOK, OrderOK, WrittenOK, Read, pc' = "tails",
         \A b \in Boards : Steady(b), NEW b \in Boards \ cut
  PROVE  LET t == BoardNext(b) IN
         /\ ~t.missing
         /\ IF t.finished THEN Left(b) = {}
            ELSE {k \in Left(b) : k <= t.pos} = {t.pos}
<1> DEFINE n == trig.pos
<1> DEFINE r == brd[b]
<1> DEFINE t == BoardNext(b)
<1>0. /\ InputOK /\ Counts(b, r) /\ n \in Nat /\ r.pos \in Nat
      /\ Healthy(b) \subseteq Nat /\ b \notin DOMAIN junk
      /\ Rest(b) = {k \in Healthy(b) : k > r.pos}
  BY WholeStream, MergerAssumption DEF ObjectsOK, TrigOK, TrigType
<1>1. pc = "read" /\ Len(written) = n
  BY DEF Read, WrittenOK
<1>2. /\ ~r.finished /\ r.pos # Torn
      /\ \A k \in Healthy(b) : k < n \/ k >= r.pos
      /\ IF r.missing THEN r.pos > n ELSE r.pos = n
  <2>1. Order(b)
    BY <1>1 DEF OrderOK
  <2>2. r.pos # Torn
    BY <1>0 DEF Counts
  <2>3. QED
    BY <1>1, <2>1, <2>2 DEF Order
<1>3. /\ ~t.missing
      /\ r.missing => t.pos = r.pos /\ ~t.finished
      /\ ~r.missing /\ Rest(b) # {}
           => ~t.finished /\ t.pos \in Rest(b) /\ \A k \in Rest(b) : t.pos <= k
      /\ ~r.missing /\ Rest(b) = {} => t.finished
  BY <1>0, <1>2, BoardNextIs
<1>4. Left(b) = {k \in Healthy(b) : k > n}
  BY <1>1 DEF Left
<1> HIDE DEF n, t
<1>5. CASE r.missing
  <2>1. r.pos \in Healthy(b)
    BY <1>0, <1>2, <1>5 DEF Counts
  <2>2. {k \in Left(b) : k <= r.pos} = {r.pos}
    BY <1>0, <1>2, <1>4, <1>5, <2>1
  <2>3. QED
    BY <1>3, <1>5, <2>2 DEF t
<1>6. CASE ~r.missing /\ Rest(b) # {}
  <2>1. Left(b) = Rest(b)
    BY <1>0, <1>2, <1>4, <1>6
  <2>2. {k \in Left(b) : k <= t.pos} = {t.pos}
    BY <1>0, <1>3, <1>6, <2>1
  <2>3. QED
    BY <1>3, <1>6, <2>2 DEF t
<1>7. CASE ~r.missing /\ Rest(b) = {}
  <2>1. Left(b) = {}
    BY <1>0, <1>2, <1>4, <1>7
  <2>2. QED
    BY <1>3, <1>7, <2>1 DEF t
<1>8. QED
  BY <1>5, <1>6, <1>7

(* Each test takes one event more from it.                                 *)
LEMMA DrainGoesOn ==
  ASSUME ObjectsOK, tests \in Nat, NEW b \in Boards \ cut, ReadOn(b)
  PROVE  LET t == BoardNext(b) IN
         /\ ~t.missing
         /\ IF t.finished THEN Cardinality(Left(b)) <= tests + 1
            ELSE Cardinality({k \in Left(b) : k <= t.pos}) = tests + 2
<1> DEFINE r == brd[b]
<1> DEFINE t == BoardNext(b)
<1>0. /\ InputOK /\ Counts(b, r) /\ r.pos \in Nat
      /\ Healthy(b) \subseteq Nat /\ b \notin DOMAIN junk
      /\ Rest(b) = {k \in Healthy(b) : k > r.pos}
  BY WholeStream
<1>1. /\ ~r.missing
      /\ r.finished => t = r
      /\ ~r.finished /\ Rest(b) # {}
           => ~t.finished /\ t.pos \in Rest(b) /\ \A k \in Rest(b) : t.pos <= k
      /\ ~r.finished /\ Rest(b) = {} => t.finished
      /\ ~t.missing
  BY <1>0, BoardNextIs DEF ReadOn
<1>2. Cardinality(Left(b)) \in Nat
  BY LeftFinite
<1> HIDE DEF t
<1>3. CASE r.finished
  BY <1>1, <1>2, <1>3 DEF ReadOn, t
<1>4. CASE ~r.finished /\ Rest(b) # {}
  <2>1. Cardinality(Given(b)) = tests + 1 /\ IsFiniteSet(Given(b))
    BY <1>4, LeftFinite DEF ReadOn, Given
  <2>2. CASE t.pos \in Left(b)
    <3>1. t.pos \notin Given(b)
      BY <1>0, <1>1, <1>4 DEF Given
    <3>2. {k \in Left(b) : k <= t.pos} = Given(b) \cup {t.pos}
      BY <1>0, <1>1, <1>4, <2>2 DEF Given, Left
    <3>3. Cardinality(Given(b) \cup {t.pos}) = Cardinality(Given(b)) + 1
      BY <2>1, <3>1, FS_AddElement
    <3>4. QED
      BY <1>1, <1>4, <2>1, <3>2, <3>3 DEF t
  <2>3. CASE t.pos \notin Left(b)
    <3>1. \E k \in Given(b) : TRUE
      BY <2>1, FS_EmptySet
    <3>2. Len(written) < r.pos
      BY <1>0, <3>1 DEF Given, Left
    <3>3. QED
      BY <1>0, <1>1, <1>4, <2>3, <3>2 DEF Left
  <2>4. QED
    BY <2>2, <2>3
<1>5. CASE ~r.finished /\ Rest(b) = {}
  <2>1. Given(b) = Left(b)
    BY <1>0, <1>5 DEF Given, Left
  <2>2. Cardinality(Left(b)) <= tests + 1
    BY <1>5, <2>1, <1>2 DEF ReadOn
  <2>3. QED
    BY <1>1, <1>5, <2>2 DEF t
<1>6. QED
  BY <1>3, <1>4, <1>5

LEMMA DrainSame ==
  ASSUME UNCHANGED <<input, written, tests>>, NEW b \in Boards
  PROVE  /\ Left(b)' = Left(b)
         /\ brd'[b] = brd[b] => (ReadOn(b)' <=> ReadOn(b))
<1>1. Left(b)' = Left(b)
  BY StreamSame DEF Left
<1>2. QED
  BY <1>1 DEF ReadOn, Given

LEMMA DrainStep ==
  ASSUME ObjectsOK, PhasesOK, OrderOK, WrittenOK, DrainOK, [Next]_vars
  PROVE  DrainOK'
<1>0. tests \in Nat /\ MaxTests \in Nat
  BY MergerAssumption DEF DrainOK
<1>1. /\ UNCHANGED input /\ len' = len /\ cut' = cut
      /\ (\A b \in Boards : Steady(b))' <=> \A b \in Boards : Steady(b)
  <2>1. UNCHANGED input
    BY NextSteps
  <2>2. QED
    BY <2>1, InputSame, CommonSame
<1>2. /\ InputOK /\ TrigOK /\ trig.pos \in Nat /\ len \in Nat
  BY MergerAssumption DEF ObjectsOK, TrigOK, TrigType, InputOK
<1>3. CASE Read
  <2>1. /\ pc = "read" /\ pc' \in {"tails", "align"} /\ UNCHANGED <<written, tests>>
        /\ trig' = TrigNext /\ \A b \in Boards : brd'[b] = BoardNext(b)
    BY <1>3 DEF Read
  <2>2. tests = 0 /\ tests' = 0 /\ Len(written) = trig.pos /\ ~trig.finished
    BY <2>1 DEF DrainOK, WrittenOK, PhasesOK
  <2> SUFFICES ASSUME Ended', \A b \in Boards : Steady(b)
               PROVE  /\ IF trig'.finished THEN len' - Len(written') <= tests'
                         ELSE trig'.pos = Len(written') + 1 + tests'
                      /\ \A b \in Boards \ cut' : ReadOn(b)'
    BY <1>0, <1>1, <2>1, <2>2 DEF DrainOK
  <2>3. pc' = "tails"
    BY <2>1 DEF Ended
  <2>4. IF TrigNext.finished THEN trig.pos = len ELSE TrigNext.pos = trig.pos + 1
    BY <1>2, TrigNextIs
  <2>5. IF trig'.finished THEN len' - Len(written') <= tests'
        ELSE trig'.pos = Len(written') + 1 + tests'
    BY <1>1, <1>2, <2>1, <2>2, <2>4
  <2>6. ASSUME NEW b \in Boards \ cut PROVE ReadOn(b)'
    <3>1. /\ ~brd'[b].missing
          /\ IF brd'[b].finished THEN Left(b) = {}
             ELSE {k \in Left(b) : k <= brd'[b].pos} = {brd'[b].pos}
      BY <1>3, <2>1, <2>3, DrainBegins
    <3>2. Left(b)' = Left(b)
      BY <1>1, <2>1, DrainSame
    <3>3. Cardinality({}) = 0 /\ \A x : Cardinality({x}) = 1
      BY FS_EmptySet, FS_Singleton
    <3>4. IF brd'[b].finished THEN Cardinality(Left(b)) <= tests'
          ELSE Cardinality({k \in Left(b) : k <= brd'[b].pos}) = tests' + 1
      <4>1. CASE brd'[b].finished
        <5>1. Cardinality(Left(b)) = 0
          BY <3>1, <3>3, <4>1, Zenon
        <5>2. QED
          BY <2>2, <4>1, <5>1
      <4>2. CASE ~brd'[b].finished
        <5>1. Cardinality({k \in Left(b) : k <= brd'[b].pos}) = 1
          BY <3>1, <3>3, <4>2, Zenon
        <5>2. QED
          BY <2>2, <4>2, <5>1
      <4>3. QED
        BY <4>1, <4>2
    <3>5. QED
      BY <3>1, <3>2, <3>4 DEF ReadOn, Given
  <2>7. QED
    BY <1>1, <2>5, <2>6
<1>4. CASE Drain
  <2>1. /\ pc = "drain" /\ pc' = "drain" /\ tests' = tests + 1 /\ tests < MaxTests
        /\ written' = written
        /\ trig' = TrigNext /\ \A b \in Boards : brd'[b] = BoardNext(b)
    BY <1>4 DEF Drain
  <2>2. tests' \in 0..MaxTests
    BY <1>0, <2>1
  <2> SUFFICES ASSUME \A b \in Boards : Steady(b)
               PROVE  /\ IF trig'.finished THEN len' - Len(written') <= tests'
                         ELSE trig'.pos = Len(written') + 1 + tests'
                      /\ \A b \in Boards \ cut' : ReadOn(b)'
    BY <1>1, <2>1, <2>2 DEF DrainOK
  <2>3. /\ IF trig.finished THEN len - Len(written) <= tests
           ELSE trig.pos = Len(written) + 1 + tests
        /\ \A b \in Boards \ cut : ReadOn(b)
    BY <2>1 DEF DrainOK, Ended
  <2>4. /\ trig.finished => TrigNext.finished
        /\ IF TrigNext.finished THEN trig.finished \/ trig.pos = len
           ELSE TrigNext.pos = trig.pos + 1
    BY <1>2, TrigNextIs
  <2>5. Len(written) \in Nat
    BY DEF WrittenOK, WrittenType
  <2>6. IF trig'.finished THEN len' - Len(written') <= tests'
        ELSE trig'.pos = Len(written') + 1 + tests'
    BY <1>0, <1>1, <1>2, <2>1, <2>3, <2>4, <2>5
  <2>7. ASSUME NEW b \in Boards \ cut PROVE ReadOn(b)'
    <3>1. /\ ~brd'[b].missing
          /\ IF brd'[b].finished THEN Cardinality(Left(b)) <= tests + 1
             ELSE Cardinality({k \in Left(b) : k <= brd'[b].pos}) = tests + 2
      BY <1>0, <2>1, <2>3, DrainGoesOn
    <3>2. Left(b)' = Left(b)
      BY <1>1, <2>1, StreamSame DEF Left
    <3>3. (tests + 1) + 1 = tests + 2
      BY <1>0
    <3>4. QED
      BY <2>1, <3>1, <3>2, <3>3 DEF ReadOn, Given
  <2>8. QED
    BY <1>1, <2>6, <2>7
<1>5. CASE Tails \/ Leave \/ UNCHANGED vars
  <2>1. /\ UNCHANGED <<trig, brd, written, tests>>
        /\ Ended' => Ended
        /\ pc' \in {"read", "align", "write", "tails"} => pc' = pc
        /\ pc' = "done" => pc = "done" \/ Drained \/ tests = MaxTests
    BY <1>5 DEF Tails, Leave, vars, Ended
  <2>2. \A b \in Boards : ReadOn(b)' <=> ReadOn(b)
    BY <1>1, <2>1, DrainSame
  <2>3. Drained' <=> Drained
    BY <2>1 DEF Drained
  <2>4. QED
    BY <1>1, <2>1, <2>2, <2>3 DEF DrainOK
<1>6. CASE AllCompared
  <2>1. \A b \in Boards : Steady(b) => ~brd[b].finished
    BY <1>6 DEF AllCompared, OrderOK, Order
  <2>2. /\ pc = "align" /\ tests' = tests /\ pc' \in {"tails", "write"}
        /\ (\A b \in Boards : Steady(b)) => pc' = "write"
    BY <1>6, <2>1 DEF AllCompared
  <2>3. QED
    BY <1>1, <2>2 DEF DrainOK, Ended
<1>7. CASE Abort \/ Hang \/ Write \/ \E b \in Boards : TooEarly(b) \/ Compared(b)
  <2>1. /\ ~Ended' /\ tests' = tests
        /\ pc' \in {"read", "align", "write", "tails"}
             => pc \in {"read", "align", "write", "tails"}
    BY <1>7 DEF Abort, Hang, Write, TooEarly, Compared, Ended
  <2>2. QED
    BY <2>1 DEF DrainOK, Ended
<1>8. QED
  BY <1>3, <1>4, <1>5, <1>6, <1>7 DEF Next

-----------------------------------------------------------------------------
(* The theorems for triggers far apart. *)

AlignedOK == OrderOK /\ WrittenOK /\ DataOK /\ MergedOK /\ DrainOK

LEMMA AlignedInit == Init => AlignedOK
<1> SUFFICES ASSUME Init PROVE AlignedOK
  OBVIOUS
<1>1. ~FreshBoard.finished /\ ~FreshBoard.missing
  BY Zenon DEF FreshBoard
<1>2. trig.pos = 0 /\ FreshBoard.pos = 0
  BY DEF Init, FreshTrig, FreshBoard
<1>3. \A b \in Boards : brd[b].pos = 0 /\ ~brd[b].finished /\ ~brd[b].missing
  BY <1>1, <1>2 DEF Init
<1>4. pc = "read" /\ written = << >>
  BY DEF Init
<1>5. ASSUME NEW b \in Boards PROVE Order(b)
  <2>1. \A k \in Healthy(b) : k >= 0
    BY HealthyTrigs
  <2>2. QED
    BY <1>2, <1>3, <1>4, <2>1 DEF Order
<1>6. QED
  <2>1. tests = 0 /\ 0 \in 0..MaxTests
    BY MergerAssumption DEF Init
  <2>2. QED
    BY <1>2, <1>4, <1>5, <2>1
       DEF AlignedOK, OrderOK, WrittenOK, WrittenType, DataOK, MergedOK, DrainOK, Ended

LEMMA AlignedRuns ==
  ASSUME Apart
  PROVE  Spec => [](MergerOK /\ AlignedOK)
<1>1. MergerOK /\ AlignedOK /\ [Next]_vars => AlignedOK'
  <2> SUFFICES ASSUME MergerOK, AlignedOK, [Next]_vars PROVE AlignedOK'
    OBVIOUS
  <2>1. ObjectsOK /\ PhasesOK /\ OrderOK /\ WrittenOK /\ DataOK /\ MergedOK /\ DrainOK
    BY DEF MergerOK, AlignedOK
  <2>2. OrderOK' /\ WrittenOK' /\ DataOK' /\ MergedOK' /\ DrainOK'
    BY <2>1, OrderStep, WrittenStep, DataStep, MergedStep, DrainStep
  <2>3. QED
    BY <2>2 DEF AlignedOK
<1>2. QED
  BY <1>1, MergerRuns, AlignedInit, PTL DEF Spec

(***************************************************************************)
(* The data written with a trigger was recorded at that trigger, however   *)
(* many triggers the board missed, events it spoiled and roll-overs of     *)
(* either counter came before (PadmeMerger.cpp:441-471), if the triggers   *)
(* are far enough apart to be told by their times.                         *)
(***************************************************************************)
THEOREM DataOfTrigger ==
  ASSUME Apart
  PROVE  Spec => []Aligned
<1>1. AlignedOK => Aligned
  BY DEF AlignedOK, Aligned, DataOK, WrittenOK
<1>2. QED
  BY <1>1, AlignedRuns, PTL

(***************************************************************************)
(* A board's event whose groups NextEvent found in time is written with    *)
(* its trigger (ADCBoard.cc:187-204): the merger drops none.               *)
(***************************************************************************)
Kept ==
  \A k \in DOMAIN written, b \in Boards :
    Steady(b) /\ written[k].trig \in Healthy(b) => written[k].data[b] # 0

THEOREM NothingDropped ==
  ASSUME Apart
  PROVE  Spec => []Kept
<1>1. AlignedOK => Kept
  BY DEF AlignedOK, Kept, DataOK, WrittenOK
<1>2. QED
  BY <1>1, AlignedRuns, PTL

(***************************************************************************)
(* A board is missing from an event only if it has no data for it whose    *)
(* groups are within the tolerance (ADCBoard.cc:187), or one that is a     *)
(* cycle late just when the board's counter rolls over.                    *)
(***************************************************************************)
THEOREM BoardsComplete ==
  ASSUME Apart
  PROVE  Spec => []Complete
<1>1. MergerOK /\ AlignedOK => Complete
  <2> SUFFICES ASSUME MergerOK, AlignedOK, NEW k \in DOMAIN written, NEW b \in Boards,
                      Steady(b),
                      LET t == written[k].trig IN
                        \/ ev[b][t] = "good"
                        \/ ev[b][t] = "late" /\ Tag(b, time[t]) # Wrap - 1
               PROVE  written[k].data[b] # 0
    BY DEF Complete
  <2>1. written[k].trig = k /\ k \in Trigs
    <3> DEFINE S == [trig : 0..NTrig, data : [Boards -> 0..Torn]]
    <3>1. written \in Seq(S) /\ written[k].trig = k
      BY DEF AlignedOK, WrittenOK, WrittenType
    <3>2. k \in Nat /\ k >= 1 /\ written[k] \in S
      <4> HIDE DEF S
      <4>1. QED
        BY <3>1
    <3>3. k \in 0..NTrig
      BY <3>1, <3>2
    <3>4. QED
      BY <3>1, <3>2, <3>3, MergerAssumption DEF Trigs
  <2>2. InputOK
    BY DEF MergerOK, ObjectsOK
  <2> DEFINE tag == Tag(b, time[k])
  <2>3. ev[b][k] = "good" \/ (ev[b][k] = "late" /\ tag # Wrap - 1)
    BY <2>1
  <2>4. tag \in 0..(Wrap - 1) /\ Wrap \in Nat /\ Wrap > 0
    BY <2>1, <2>2, TagIs, MergerAssumption
  <2>5. InTime(b, k)
    <3>1. Offset["good"] = 0 /\ Offset["late"] = 1
      BY DEF Offset
    <3> HIDE DEF tag
    <3>2. (tag + 0) % Wrap = tag /\ (tag # Wrap - 1 => (tag + 1) % Wrap = tag + 1)
      BY <2>4
    <3>3. tag - ((tag + Offset[ev[b][k]]) % Wrap) \in -1..1
      BY <2>3, <2>4, <3>1, <3>2
    <3>4. QED
      BY <3>3 DEF InTime, tag
  <2>6. k \in Healthy(b)
    BY <2>1, <2>3, <2>5 DEF Healthy, Recorded
  <2>7. QED
    BY <2>6 DEF AlignedOK, DataOK
<1>2. QED
  BY <1>1, AlignedRuns, PTL

(***************************************************************************)
(* The merger stops at the first input that ends and not before: all the   *)
(* triggers up to there, and no other, are in the output, once each.  A    *)
(* stream without tail does not end the merging (PadmeMerger.cpp:421-437). *)
(***************************************************************************)
THEOREM MergedToTheEnd ==
  ASSUME Apart
  PROVE  Spec => []AllMerged
<1>1. AlignedOK => AllMerged
  BY DEF AlignedOK, AllMerged, WrittenOK, MergedOK, Common
<1>2. QED
  BY <1>1, AlignedRuns, PTL

(***************************************************************************)
(* When the merger ends it has read to their tails those inputs that have  *)
(* at most n_test_max events after the last merged one, and no other; the  *)
(* writers of these are left blocked (PadmeMerger.cpp:647-662).            *)
(***************************************************************************)
THEOREM InputsDrained ==
  ASSUME Apart
  PROVE  Spec => []StreamsDrained
<1>1. MergerOK /\ AlignedOK => StreamsDrained
  <2> SUFFICES ASSUME MergerOK, AlignedOK, pc = "done", \A b \in Boards : Steady(b)
               PROVE  /\ trig.finished <=> len - Len(written) <= MaxTests
                      /\ \A b \in Boards \ cut :
                           brd[b].finished <=> Cardinality(Left(b)) <= MaxTests
    BY DEF StreamsDrained
  <2>1. /\ tests \in Nat /\ tests <= MaxTests /\ MaxTests \in Nat
        /\ Drained \/ tests = MaxTests
        /\ IF trig.finished THEN len - Len(written) <= tests
           ELSE trig.pos = Len(written) + 1 + tests
        /\ \A b \in Boards \ cut : ReadOn(b)
    BY MergerAssumption DEF AlignedOK, DrainOK, Ended
  <2>2. Len(written) \in Nat /\ len \in Nat /\ trig.pos \in Nat /\ trig.pos <= len
    BY MergerAssumption
       DEF MergerOK, ObjectsOK, TrigOK, TrigType, InputOK, AlignedOK, WrittenOK, WrittenType
  <2>3. trig.finished <=> len - Len(written) <= MaxTests
    <3>1. CASE trig.finished
      BY <2>1, <2>2, <3>1
    <3>2. CASE ~trig.finished
      <4>1. tests = MaxTests
        BY <2>1, <3>2 DEF Drained
      <4>2. QED
        BY <2>1, <2>2, <3>2, <4>1
    <3>3. QED
      BY <3>1, <3>2
  <2>4. ASSUME NEW b \in Boards \ cut
        PROVE  brd[b].finished <=> Cardinality(Left(b)) <= MaxTests
    <3>1. /\ Cardinality(Left(b)) \in Nat /\ Cardinality(Given(b)) \in Nat
          /\ Cardinality(Given(b)) <= Cardinality(Left(b))
      BY LeftFinite DEF Given
    <3>2. CASE brd[b].finished
      BY <2>1, <3>1, <3>2 DEF ReadOn
    <3>3. CASE ~brd[b].finished
      <4>1. tests = MaxTests
        BY <2>1, <3>3 DEF Drained
      <4>2. Cardinality(Given(b)) = MaxTests + 1
        BY <2>1, <3>3, <4>1 DEF ReadOn
      <4>3. QED
        BY <2>1, <3>1, <3>3, <4>2
    <3>4. QED
      BY <3>2, <3>3
  <2>5. QED
    BY <2>3, <2>4
<1>2. QED
  BY <1>1, AlignedRuns, PTL
=============================================================================

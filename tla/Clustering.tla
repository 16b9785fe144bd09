----------------------------- MODULE Clustering -----------------------------
(***************************************************************************)
(* How PadmeReco groups the hits of one event of a detector into clusters. *)
(* There are six ways: ECalReconstruction's and SACReconstruction's own    *)
(* ("ecal", "sac"), PadmeVClusterization with the distance of a row of     *)
(* fingers ("veto") or of the calorimeter's cells ("cells"), and the two   *)
(* finders that work on crystals ("island", "radius").  All of them look   *)
(* for the most energetic hit that is left, the seed, and collect what     *)
(* belongs to it; they differ in what does.                                *)
(*                                                                         *)
(* A hit is its cell <<row, column>> (the digits of its channel id), its   *)
(* energy and its time.  Positions and times of clusters are left out.     *)
(***************************************************************************)
EXTENDS Integers, Sequences, FiniteSetsExt, SequencesExt

CONSTANTS
  Algos,        \* the algorithms to run
  Events,       \* the hits of an event, in the order BuildHits leaves them
  NRows, NCols, \* the crystals of the calorimeter
  HitThr, SeedThr,     \* fClEnThrForHit or fEThreshold, fClEnThrForSeed or ...Seed
  DtMax, TLow, THigh,  \* fClusterDtMax, fClusterTLowForHit, fClusterTHighForHit
  CellMax,      \* fClDeltaCellMax
  CrySize, Radius,     \* the pitch of the crystals and the radius
  MaxEvHits,    \* the 3000 of cTime, cEnergy, cChID and cUsed
  MaxHits,      \* NMaxHitsInCl, the rows of clusMatrix, CLUSTER_N_MAX_CRYSTALS_IN_CLUSTER
  MaxClusters   \* NMaxCl of ECal and of SAC, CLUSTERHANDLER_N_MAX_CLUSTERS

AlgoKinds == {"ecal", "sac", "veto", "cells", "island", "radius"}

ASSUME ClusteringAssumption ==
  /\ Algos \subseteq AlgoKinds
  /\ {NRows, NCols, CellMax, CrySize, Radius, DtMax} \subseteq Nat \ {0}
  /\ {MaxEvHits, MaxHits, MaxClusters} \subseteq Nat \ {0}
  /\ {HitThr, SeedThr, TLow, THigh} \subseteq Int /\ 0 <= SeedThr
  /\ Events \subseteq Seq([cell : (0..NRows - 1) \X (0..NCols - 1), e : Int, t : Int])

VARIABLES
  algo, hits,  \* the configuration and the event
  phase,       \* "hits", "seeds", "list", "done"; "overrun" is out of SAC's arrays
  used,        \* the hits in use (cUsed, fhUsed, the crystals' status)
  order,       \* island, radius: fCrystalList, crystals by the index of their hit
  matrix,      \* ecal, sac: clusMatrix, row after row
  cls          \* the clusters so far

clVars == <<algo, hits, phase, used, order, matrix, cls>>

Hits == DOMAIN hits
Energy(i) == hits[i].e
Cell(i) == hits[i].cell
Ascending(S) ==
  CHOOSE s \in [1..Cardinality(S) -> S] : \A i, j \in DOMAIN s : i < j => s[i] < s[j]
Total(s) ==
  LET sum[n \in 0..Len(s)] == IF n = 0 THEN 0 ELSE sum[n - 1] + Energy(s[n])
  IN  sum[Len(s)]
Near(i, s) == LET dt == hits[i].t - hits[s].t IN dt < DtMax /\ -dt < DtMax

Abs(n) == IF n < 0 THEN -n ELSE n
DRow(c, d) == Abs(c[1] - d[1])
DCol(c, d) == Abs(c[2] - d[2])
Beyond == -1
\* How far cells are apart, Beyond when they are too far to share a cluster.
Within(n, max) == IF n <= max THEN n ELSE Beyond
CellsApart(c, d) == Max({DRow(c, d), DCol(c, d)})
Distance(c, d) ==
  CASE algo = "veto" -> IF c[1] = d[1] THEN Within(DCol(c, d), CellMax) ELSE Beyond
    [] algo = "sac"  -> Within(CellsApart(c, d), 1)
    [] OTHER         -> Within(CellsApart(c, d), CellMax)

\* Mutant: the last hit above the threshold, instead of the most energetic.
MutFindSeed(S) ==
  LET good == {i \in S : Energy(i) > SeedThr} IN IF good = {} THEN 0 ELSE Max(good)

\* The first of the most energetic hits of a set above a threshold.
FindSeed(S) ==
  LET good == {i \in S : Energy(i) > SeedThr}
      max  == {i \in good : \A j \in good : Energy(j) <= Energy(i)}
  IN IF max = {} THEN 0 ELSE Min(max)

ClInit ==
  /\ algo \in Algos /\ hits \in Events
  /\ phase = "hits" /\ used = {} /\ order = <<>> /\ matrix = <<>> /\ cls = <<>>

\* Without a seed, or without room for a cluster, the search is over.
NoSeed(after) ==
  /\ phase' = after
  /\ UNCHANGED <<algo, hits, used, order, matrix, cls>>

-----------------------------------------------------------------------------
(* BuildSimpleECalClusters and BuildSimpleSACClusters *)

Simple == algo \in {"ecal", "sac"}

\* The calorimeter makes no clusters of more hits than its arrays hold.
Refused == algo = "ecal" /\ Len(hits) > MaxEvHits

\* Weak hits are out of use from the start, in the calorimeter only.
FillArrays ==
  /\ phase = "hits" /\ Simple
  /\ phase' = IF hits = <<>> \/ Refused THEN "done" ELSE "seeds"
  /\ used' = IF algo = "ecal" /\ ~Refused THEN {i \in Hits : Energy(i) < HitThr} ELSE {}
  /\ UNCHANGED <<algo, hits, order, matrix, cls>>

\* Mutant: only the cells next to the seed's, as for a row of fingers.
MutBelongs(s) == {i \in Hits \ used : Near(i, s) /\ Distance(Cell(s), Cell(i)) = 1}

Belongs(s) == {i \in Hits \ used : Near(i, s) /\ Distance(Cell(s), Cell(i)) # Beyond}

Upto(s, n) == SubSeq(s, 1, Min({n, Len(s)}))
Collect(s) ==
  IF algo = "ecal" THEN Upto(Ascending(Belongs(s)), MaxHits) ELSE Ascending(Belongs(s))

\* clusMatrix[row][0], clusMatrix[row][1], ...: what does not fit in a row goes on
\* in the next (SAC only); what was not written is the index of the first hit.
PutRow(m, row, s) ==
  LET from == row * MaxHits
  IN [k \in 1..Max({Len(m), from + Len(s)}) |->
        IF k - from \in DOMAIN s THEN s[k - from] ELSE IF k \in DOMAIN m THEN m[k] ELSE 1]

\* SAC stops filling its arrays at their end but goes on to the last hit, and
\* writes the rows of clusMatrix whatever their number and length.
Outside(s) ==
  /\ algo = "sac"
  /\ \/ Len(hits) > MaxEvHits
     \/ s # 0 /\ Len(cls) * MaxHits + Len(Collect(s)) > MaxClusters * MaxHits

\* What the program does then is undefined: nothing is said of it from here on.
Overrun == phase = "seeds" /\ Outside(FindSeed(Hits \ used)) /\ NoSeed("overrun")

SimpleCluster ==
  /\ phase = "seeds" /\ Simple
  /\ LET s   == FindSeed(Hits \ used)
         got == Collect(s)
     IN /\ s # 0 /\ ~Outside(s)
        /\ used' = used \cup ToSet(got)
        /\ matrix' = PutRow(matrix, Len(cls), got)
        /\ cls' = Append(cls, [seed |-> s, n |-> Len(got), energy |-> Total(got), list |-> <<>>])
        /\ phase' = IF algo = "ecal" /\ Len(cls') = MaxClusters THEN "list" ELSE "seeds"
  /\ UNCHANGED <<algo, hits, order>>

SimpleEnds ==
  /\ phase = "seeds" /\ Simple
  /\ FindSeed(Hits \ used) = 0 /\ ~Outside(0)
  /\ NoSeed("list")

\* The lists of hits are read back from the array.
Listed(c, m) ==
  [k \in DOMAIN c |-> [c[k] EXCEPT !.list = SubSeq(m, (k - 1) * MaxHits + 1, (k - 1) * MaxHits + c[k].n)]]

ListHits ==
  /\ phase = "list"
  /\ phase' = "done"
  /\ cls' = Listed(cls, matrix)
  /\ UNCHANGED <<algo, hits, used, order, matrix>>

-----------------------------------------------------------------------------
(* PadmeVClusterization::Reconstruct *)

Base == algo \in {"veto", "cells"}

RemoveOutOfTimeHits ==
  /\ phase = "hits" /\ Base
  /\ phase' = "seeds"
  /\ used' = {i \in Hits : hits[i].t < TLow \/ hits[i].t > THigh \/ Energy(i) < HitThr}
  /\ UNCHANGED <<algo, hits, order, matrix, cls>>

FromSeed(s, i) == Distance(Cell(s), Cell(i))

\* Mutant: the hits away from the seed are taken as they come.
MutSortedByDistance(S, s) == {Ascending(S)}

\* std::sort by distance leaves hits at the same distance in any order.
SortedByDistance(S, s) == {q \in SetToSeqs(S) : IsSorted(q, LAMBDA i, j : FromSeed(s, i) <= FromSeed(s, j))}

\* A hit away from the seed joins if it is next to one that has joined.
Join(got, i, s) ==
  IF \E k \in DOMAIN got : got[k] # s /\ Distance(Cell(got[k]), Cell(i)) = 1
  THEN Append(got, i) ELSE got

JoinFar(near, far, s) ==
  LET joined[n \in 0..Len(far)] ==
        IF n = 0 THEN near ELSE Join(joined[n - 1], far[n], s)
  IN  joined[Len(far)]

\* The seed is one of the near hits, so a cluster is never empty.
BaseCluster ==
  /\ phase = "seeds" /\ Base
  /\ LET s    == FindSeed(Hits \ used)
         good == {i \in Hits \ used : Energy(i) >= HitThr /\ Near(i, s)}
         near == {i \in good : FromSeed(s, i) \in {0, 1}}
         far  == {i \in good : FromSeed(s, i) > 1}
     IN /\ s # 0
        /\ \E q \in SortedByDistance(far, s) :
             LET got == JoinFar(Ascending(near), q, s)
             IN /\ used' = used \cup ToSet(got)
                /\ cls' = Append(cls, [seed |-> s, n |-> Len(got), energy |-> Total(got), list |-> got])
  /\ UNCHANGED <<algo, hits, phase, order, matrix>>

BaseEnds == phase = "seeds" /\ Base /\ FindSeed(Hits \ used) = 0 /\ NoSeed("done")

-----------------------------------------------------------------------------
(* BuildECalIslandRadiusClusters, on crystals *)

OnCrystals == algo \in {"island", "radius"}

\* CreateCrystal returns the crystal that is there: the last hit of a cell sets it.
Crystals == {i \in Hits : \A j \in Hits : Cell(j) = Cell(i) => j <= i}
CrystalAt(c) == {i \in Crystals : Cell(i) = c}

\* SortEnergy: std::sort leaves equal energies in any order.
MakeCrystals ==
  /\ phase = "hits" /\ OnCrystals
  /\ phase' = "seeds"
  /\ \E q \in SetToSeqs(Crystals) :
       IsSorted(q, LAMBDA i, j : Energy(i) >= Energy(j)) /\ order' = q
  /\ UNCHANGED <<algo, hits, used, matrix, cls>>

GetSeed == SelectInSeq(order, LAMBDA i : i \notin used /\ Energy(i) > SeedThr)

\* Mutant: the crystal is not marked as used.
MutAddCrystal(w, i) ==
  IF Len(w.list) < MaxHits
  THEN [used |-> w.used, list |-> Append(w.list, i), energy |-> w.energy + Energy(i)]
  ELSE w

\* A cluster being made: the crystals in use, its list, its energy.
AddCrystal(w, i) ==
  IF Len(w.list) < MaxHits
  THEN [used |-> w.used \cup {i}, list |-> Append(w.list, i), energy |-> w.energy + Energy(i)]
  ELSE w

Right == <<0, 1>>
Up == <<1, 0>>
Left == <<0, -1>>
Down == <<-1, 0>>
Shift(c, d) == <<c[1] + d[1], c[2] + d[2]>>

Works == [used : SUBSET Hits, list : Seq(Hits), energy : Int]

\* The crystal there, if it is not in use and its energy is below another's.
Downhill(w, i, d) ==
  {j \in CrystalAt(Shift(Cell(i), d)) \ w.used : Energy(j) > HitThr /\ Energy(j) < Energy(i)}

\* A crystal that does not fit is not marked, but the search goes on around it.
ExpandIsland(w, i) ==
  LET expand[x \in Works \X Crystals] ==
        LET Visit(v, d) ==
              LET more == Downhill(v, x[2], d)
                  next == CHOOSE j \in more : TRUE
              IN  IF more = {} THEN v ELSE expand[<<AddCrystal(v, next), next>>]
        IN  Visit(Visit(Visit(Visit(x[1], Right), Up), Left), Down)
  IN  expand[<<w, i>>]

\* SetRadius: the box around a crystal, line after line, and what of it has its
\* centre within the radius.
Reach == Radius \div CrySize
Side == 2 * Reach + 1
Box == [k \in 1..Side * Side |-> <<((k - 1) \div Side) - Reach, ((k - 1) % Side) - Reach>>]
Neighbour(d) ==
  d # <<0, 0>> /\ (d[1] * CrySize) * (d[1] * CrySize) + (d[2] * CrySize) * (d[2] * CrySize) <= Radius * Radius

ExpandRadius(w, i) ==
  LET Free(v, d) == {j \in CrystalAt(Shift(Cell(i), d)) \ v.used : Neighbour(d) /\ Energy(j) > HitThr}
      Visit(v, d) == IF Free(v, d) = {} THEN v ELSE AddCrystal(v, CHOOSE j \in Free(v, d) : TRUE)
      visited[n \in 0..Side * Side] == IF n = 0 THEN w ELSE Visit(visited[n - 1], Box[n])
  IN  visited[Side * Side]

\* The energy of a new ECalCluster is -1.
NoCrystals == [used |-> used, list |-> <<>>, energy |-> -1]

CrystalCluster ==
  /\ phase = "seeds" /\ OnCrystals
  /\ GetSeed # 0 /\ Len(cls) < MaxClusters
  /\ LET s == order[GetSeed]
         w == AddCrystal(NoCrystals, s)
         c == IF algo = "island" THEN ExpandIsland(w, s) ELSE ExpandRadius(w, s)
     IN /\ used' = c.used
        /\ cls' = Append(cls, [seed |-> s, n |-> Len(c.list), energy |-> c.energy, list |-> c.list])
  /\ UNCHANGED <<algo, hits, phase, order, matrix>>

CrystalsEnd ==
  /\ phase = "seeds" /\ OnCrystals
  /\ GetSeed = 0 \/ Len(cls) = MaxClusters
  /\ NoSeed("done")

ClNext ==
  \/ FillArrays \/ SimpleCluster \/ SimpleEnds \/ Overrun \/ ListHits
  \/ RemoveOutOfTimeHits \/ BaseCluster \/ BaseEnds
  \/ MakeCrystals \/ CrystalCluster \/ CrystalsEnd

ClSpec == ClInit /\ [][ClNext]_clVars

-----------------------------------------------------------------------------
(* Properties *)

Members(x) == ToSet(x.list)
Done == phase = "done"
Full(x) == algo \in {"ecal", "island", "radius"} /\ x.n = MaxHits
Limited == algo \in {"ecal", "island", "radius"} /\ Len(cls) = MaxClusters

\* SAC does not check that a cluster's hits fit in a row of clusMatrix.  What is
\* in the row is the cluster's own all the same; what goes on in the next row is
\* written over by the next cluster.
Fits(x) == algo = "sac" => x.n <= MaxHits
InRow(x) == IF algo = "sac" THEN Upto(x.list, MaxHits) ELSE x.list

(***************************************************************************)
(* No hit is listed twice, in one cluster or in two, and the energy of a   *)
(* cluster is that of the hits it lists; a cluster of crystals has one     *)
(* unit less.  The exceptions are SAC's clusters with more hits than a row *)
(* of clusMatrix: only the first of their lists, a row of them, are theirs *)
(* alone, and the sum need not be that of the list.                        *)
(***************************************************************************)
HitsAddUp ==
  Done =>
    /\ \A k \in DOMAIN cls :
         /\ Cardinality(ToSet(InRow(cls[k]))) = Len(InRow(cls[k]))
         /\ Fits(cls[k]) => cls[k].energy = Total(cls[k].list) - (IF OnCrystals THEN 1 ELSE 0)
    /\ \A j, k \in DOMAIN cls : j # k => ToSet(InRow(cls[j])) \cap ToSet(InRow(cls[k])) = {}

\* The hits that may be in a cluster.
Eligible ==
  {i \in Hits :
     CASE algo = "ecal" -> Energy(i) >= HitThr
       [] Base          -> Energy(i) >= HitThr /\ hits[i].t \in TLow..THigh
       [] OnCrystals    -> i \in Crystals
       [] OTHER         -> TRUE}

Leads(x) ==
  /\ x.seed \in Members(x) \/ (algo = "ecal" /\ Full(x))
  /\ \A i \in Members(x) : Energy(i) <= Energy(x.seed)

(***************************************************************************)
(* The seeds come in the order of their energies, each is in its cluster   *)
(* and none of the cluster has more energy, and every hit fit to be a seed *)
(* ends in a cluster.  The exceptions: the cluster of the calorimeter that *)
(* is full before the loop over the hits gets to the seed, the clusters    *)
(* after the last allowed, all of them when the calorimeter has more hits  *)
(* than MaxEvHits, what SAC lists of a cluster longer than a row, and a    *)
(* hit whose crystal a later one has set.                                  *)
(***************************************************************************)
SeedsLead ==
  Done =>
    /\ \A j, k \in DOMAIN cls : j < k => Energy(cls[j].seed) >= Energy(cls[k].seed)
    /\ \A k \in DOMAIN cls : Fits(cls[k]) => Leads(cls[k])
    /\ ~Limited /\ ~Refused /\ (\A k \in DOMAIN cls : Fits(cls[k])) =>
         \A i \in Eligible : Energy(i) > SeedThr => \E k \in DOMAIN cls : i \in Members(cls[k])

Apart(i, j) == CellsApart(Cell(i), Cell(j))
Finger(i) == Cell(i)[2]

\* Of some hits, those that can be in a cluster with the seed s; those around it
\* up to a distance; those on its row, and of these the ones without a gap between.
Timely(s, left) ==
  {i \in left : /\ Near(i, s)
                /\ algo = "sac" \/ Energy(i) >= HitThr
                /\ Base => hits[i].t \in TLow..THigh}
Square(s, left, n) == {i \in Timely(s, left) : Apart(s, i) <= n}
Row(s, left) == {i \in Timely(s, left) : Cell(i)[1] = Cell(s)[1]}
Between(s, i) ==
  {f \in 0..NCols - 1 : (Finger(s) < f /\ f < Finger(i)) \/ (Finger(i) < f /\ f < Finger(s))}
Stretch(s, left) ==
  {i \in Row(s, left) : /\ Apart(s, i) <= CellMax
                        /\ Between(s, i) \subseteq {Finger(j) : j \in Row(s, left)}}

\* What can be reached in S from s by steps of a relation.
Reachable(s, S, Steps) ==
  {i \in S : \A T \in SUBSET S : s \in T /\ (\A p \in Steps : p[1] \in T => p[2] \in T) => i \in T}
Links(S) == {p \in S \X S : Apart(p[1], p[2]) <= 1}
Falls(S) ==
  {p \in S \X S : /\ DRow(Cell(p[1]), Cell(p[2])) + DCol(Cell(p[1]), Cell(p[2])) = 1
                  /\ HitThr < Energy(p[2]) /\ Energy(p[2]) < Energy(p[1])}

Disc(s, left) ==
  LET Squared(n) == (n * CrySize) * (n * CrySize)
  IN {s} \cup {i \in left : /\ Energy(i) > HitThr
                            /\ Squared(DRow(Cell(s), Cell(i))) + Squared(DCol(Cell(s), Cell(i))) <= Radius * Radius}

Fills(x, region) == Members(x) \subseteq region /\ (Full(x) \/ Members(x) = region)

Shape(x, left) ==
  CASE algo = "ecal"   -> Fills(x, Square(x.seed, left, CellMax))
    [] algo = "sac"    -> Fills(x, Square(x.seed, left, 1))
    [] algo = "veto"   -> Fills(x, Stretch(x.seed, left))
    [] algo = "island" -> Fills(x, Reachable(x.seed, left, Falls(left)))
    [] algo = "radius" -> Fills(x, Disc(x.seed, left))
    [] algo = "cells"  -> /\ Square(x.seed, left, 1) \subseteq Members(x)
                          /\ Members(x) \subseteq Square(x.seed, left, CellMax)
                          /\ Members(x) = Reachable(x.seed, Members(x), Links(Members(x)))
                          /\ \A i \in Square(x.seed, left, CellMax) \ Members(x), j \in Members(x) \ {x.seed} :
                               Apart(x.seed, j) < Apart(x.seed, i) => Apart(i, j) # 1

\* What the clusters before the k-th leave.
Before(c, k) == UNION {Members(c[j]) : j \in 1..k - 1}
LeftBefore(c, k) == (IF OnCrystals THEN Crystals ELSE Hits) \ Before(c, k)

(***************************************************************************)
(* What each algorithm's clusters are, said without its loops, marks and   *)
(* order of visiting: of the hits the clusters before have left,           *)
(* ecal, sac  all that are near the seed in time and cells;                *)
(* veto       those near in time on the fingers next to the seed's, as far *)
(*            as no finger without a hit is between, up to CellMax;        *)
(* cells      hits in the window, every one linked to the seed, with all   *)
(*            the seed's neighbours, and none left out that is next to a   *)
(*            member nearer to the seed;                                   *)
(* island     those a path of falling energy leads to from the seed;       *)
(* radius     those with their centre within the radius.                   *)
(* Full clusters have some of it.  Of SAC's this is said up to the first   *)
(* that is longer than a row of clusMatrix.                                *)
(***************************************************************************)
ShapesAsMeant ==
  Done => \A k \in DOMAIN cls : (\A j \in 1..k : Fits(cls[j])) => Shape(cls[k], LeftBefore(cls, k))

\* More than the arrays of SAC hold: hits, seeds, or hits around a seed.
Strong == {i \in Hits : Energy(i) > SeedThr}
Excess ==
  \/ Len(hits) > MaxEvHits
  \/ Cardinality(Strong) > MaxClusters
  \/ \E s \in Strong : Cardinality(Square(s, Hits, 1)) > MaxHits

(***************************************************************************)
(* The search for clusters comes to its end: every step takes a hit that   *)
(* was not in use, or leads to the next phase for good.  It runs out of    *)
(* its arrays only in SAC, and only on an event with more hits, seeds or   *)
(* hits around a seed than there is room for.                              *)
(***************************************************************************)
Later(p) ==
  CASE p = "hits"  -> {"seeds", "done"}
    [] p = "seeds" -> {"list", "done", "overrun"}
    [] p = "list"  -> {"done"}
    [] OTHER       -> {}
TakesHits == used \subseteq used' /\ used' \subseteq Hits /\ used' # used
SearchEnds ==
  [][/\ phase' \in Later(phase) \/ (phase' = phase /\ TakesHits)
     /\ phase' = "overrun" => algo = "sac" /\ Excess]_clVars

=============================================================================

---------------------------- MODULE MCClustering ----------------------------
(* Events for Clustering: any one to three hits of a few kinds on five cells *)
(* (so also two of one cell), four hits on different cells, one of them      *)
(* stronger than the others, which is the first or the last, and events with *)
(* more hits around a seed than a row takes, and with more than all arrays.  *)
EXTENDS Clustering

Hit(c, e, t) == [cell |-> c, e |-> e, t |-> t]

\* Too weak, a hit, a seed, a late seed and one out of time.
Kinds == {<<1, 0>>, <<3, 0>>, <<4, 0>>, <<5, 9>>, <<5, 30>>}
FewCells == {<<0, 0>>, <<0, 1>>, <<0, 2>>, <<0, 4>>, <<1, 2>>}
FewHits == SeqOf({Hit(c, k[1], k[2]) : c \in FewCells, k \in Kinds}, 3)

MoreCells == FewCells \cup {<<0, 3>>, <<2, 2>>}
Apiece == {q \in [1..4 -> MoreCells] : \A i, j \in 1..4 : i # j => q[i] # q[j]}
FourHits ==
  {[i \in 1..4 |-> Hit(q[i], IF i = best THEN 5 ELSE IF i = half THEN 4 ELSE 3, 0)] :
     q \in Apiece, best \in {1, 4}, half \in {2, 3}}

\* Four hits next to each other and a fifth, which is the first or the last.
Around == {<<0, 1>>, <<0, 2>>, <<1, 1>>, <<1, 2>>}
LongRows ==
  {LET row == [i \in 1..4 |-> Hit(q[i], IF i = best THEN 5 ELSE 3, 0)]
   IN IF first THEN <<Hit(c, e, 0)>> \o row ELSE Append(row, Hit(c, e, 0)) :
     q \in {p \in SetToSeqs(Around) : p[1] = <<0, 1>>}, best \in {1, 4},
     c \in {<<0, 0>>, <<0, 4>>}, e \in {4, 6}, first \in BOOLEAN}
TooMany == {Append(ev, Hit(<<2, 2>>, e, 0)) : ev \in LongRows, e \in {3, 5}}

SomeEvents == FewHits \cup FourHits \cup LongRows \cup TooMany
=============================================================================

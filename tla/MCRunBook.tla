------------------------------ MODULE MCRunBook ------------------------------
(* Three servers, one after the other or at once, at two sites.            *)
EXTENDS RunBook, TLC

CONSTANTS s1, s2, s3, x1, x2, good, other, bad

TheServers == {s1, s2, s3}
TheSites == {x1, x2}
TheSetups == {good, other, bad}
GoodSetups == {good, other}
Symmetry == Permutations(TheServers) \cup Permutations(TheSites) \cup Permutations(GoodSetups)
==============================================================================

---------------------------- MODULE MCRunControl ----------------------------
(* Instances of RunControl for TLC. *)
EXTENDS RunControl, TLC

CONSTANTS b1, b2, l1

OneBoard  == {b1}
TwoBoards == {b1, b2}
NoLevel1  == {}
OneLevel1 == {l1}

AllLocal  == {}
BoardsRemote == Daqs \cup Zsups
=============================================================================

------------------------------ MODULE MCMerger ------------------------------
(* Instances of Merger for TLC. *)
EXTENDS Merger, TLC

CONSTANTS b1, b2

TwoBoards == {b1, b2}
SomeCuts  == {{}, {b1}}
=============================================================================

---------------------------- MODULE SegmentedLog ----------------------------
(***************************************************************************)
(* What the output files of an acquisition program promise, whichever      *)
(* program writes them: one log of events, 1, 2, 3, ..., cut into segments *)
(* that are written one after the other.  Only the last segment may grow,  *)
(* a sealed one never changes again, and no event is left out, repeated or *)
(* moved by the cut.                                                       *)
(***************************************************************************)
EXTENDS Integers, Sequences

VARIABLES segs,     \* the segments, [events, sealed]
          next      \* the next event of the log

vars == <<segs, next>>

LastOf(s) == s[Len(s)]

\* There is a segment and it is still being written.
Growing == segs # <<>> /\ ~LastOf(segs).sealed

Init == segs = <<>> /\ next = 1

\* A new segment is begun when the one before it is sealed.
Begin == /\ ~Growing
         /\ segs' = Append(segs, [events |-> <<>>, sealed |-> FALSE])
         /\ UNCHANGED next

\* The next event goes to the end of the last segment.
Extend == /\ Growing
          /\ segs' = [segs EXCEPT ![Len(segs)].events = Append(@, next)]
          /\ next' = next + 1

\* The last segment gets its tail.
Seal == /\ Growing
        /\ segs' = [segs EXCEPT ![Len(segs)].sealed = TRUE]
        /\ UNCHANGED next

Next == Begin \/ Extend \/ Seal

Spec == Init /\ [][Next]_vars
=============================================================================

------------------------------- MODULE Merger -------------------------------
(***************************************************************************)
(* PadmeMerger's main loop: the events of the boards are put together with *)
(* the trigger they belong to by comparing two clocks, each of which rolls *)
(* over, and are written to the Level1 streams.                            *)
(*                                                                         *)
(* What happened in the experiment (time, ev, len, cut, junk) is chosen at *)
(* the start; the merger sees of it only clock tags, in the order of the   *)
(* streams.  Triggers happen on an edge of the trigger's clock, so that    *)
(* their own tags are exact; a board counts the cycles of its own clock,   *)
(* which is not in phase with it.  Clock cycles and tolerances are in a    *)
(* common unit of time.                                                    *)
(***************************************************************************)
EXTENDS Integers, Sequences, FiniteSetsExt

CONSTANTS
  Boards,    \* the boards whose streams are merged
  NOut,      \* NOutputStreams
  Tick,      \* a cycle of a board's clock (8.5 ns)
  Wrap,      \* the period of a board's counter (2^30), in its cycles
  TrigWrap,  \* the period of the trigger's counter (2^40 cycles)
  Tol,       \* INTIME_TOLERANCE_NS (15 ns)
  MaxTests,  \* n_test_max
  NTrig,     \* bound: how many triggers happen
  Gaps,      \* bound: the times between triggers
  Phases,    \* bound: the phases of the boards' clocks
  Kinds,     \* bound: how a board may record a trigger, see EvKinds
  Odd,       \* bound: how many of the boards' events are not good ones
  Lens,      \* bound: how many of the triggers reach the trigger's stream
  Cuts,      \* bound: the boards whose streams may end without a tail
  Junk       \* bound: the tags an incomplete event may seem to have

(***************************************************************************)
(* none: not at all                                                        *)
(* good: all its groups have the same time tag                             *)
(* late: a group is one cycle behind the first one, which is tolerated     *)
(* bad:  a group is further away: the event is of no use                   *)
(***************************************************************************)
EvKinds == {"none", "good", "late", "bad"}

ASSUME MergerAssumption ==
  /\ {NOut, Tick, Wrap, TrigWrap} \subseteq Nat \ {0}
  /\ {Tol, MaxTests, NTrig, Odd} \subseteq Nat
  /\ Gaps \subseteq Nat /\ Phases \subseteq Nat
  /\ Kinds \subseteq EvKinds
  /\ Lens \subseteq 0..NTrig
  /\ Cuts \subseteq SUBSET Boards /\ Junk \subseteq 0..(Wrap - 1)

VARIABLES
  time,      \* time[k]: when trigger k happened
  ev,        \* ev[b][k]: how board b recorded trigger k
  phase,     \* the phases of the boards' clocks
  len,       \* how many events the trigger's stream has
  cut,       \* the boards whose stream ends without a file tail
  junk,      \* the tag of the last event, for those that end inside an event
  pc,        \* read, align, write, tails, drain, done, aborted, hung
  trig,      \* the Trigger object
  brd,       \* the ADCBoard objects
  todo,      \* the boards still to be compared with the trigger
  cur,       \* CurrentOutputStream
  written,   \* the events sent to Level1, by trigger (NumberOfEvents and their data)
  tests      \* n_test

input == <<time, ev, phase, len, cut, junk>>
vars == <<input, pc, trig, brd, todo, cur, written, tests>>

Trigs == 1..NTrig

\* The place of an event of which the stream has only a part.
Torn == NTrig + 1

-----------------------------------------------------------------------------
(* The clocks. *)

Tag(b, t) == ((t + phase[b]) \div Tick) % Wrap

(* Mutant: no compensation of the roll-over. *)
MutElapsed(new, old, period) == new - old

Elapsed(new, old, period) == IF new < old THEN new - old + period ELSE new - old

(* fClockCounter and fTotalClockCounter after an event with this tag. *)
Counted(r, tag, period) ==
  [r EXCEPT !.total = IF r.first THEN 0 ELSE r.total + Elapsed(tag, r.clock, period),
            !.clock = tag,
            !.first = FALSE]

Offset == [good |-> 0, late |-> 1, bad |-> 2]

(* The groups' tags are compared as they are, roll-over or not. *)
InTime(b, k) ==
  LET tag   == Tag(b, time[k])
      group == (tag + Offset[ev[b][k]]) % Wrap
  IN  tag - group \in -1..1

Recorded(b) == {k \in Trigs : ev[b][k] # "none"}

\* The events NextEvent can still return.
Rest(b) == {k \in Recorded(b) : k > brd[b].pos /\ InTime(b, k)}

TrigNext ==
  IF trig.finished \/ trig.pos = len
  THEN [trig EXCEPT !.finished = TRUE]
  ELSE Counted([trig EXCEPT !.pos = @ + 1], time[trig.pos + 1] % TrigWrap, TrigWrap)

(* Mutant: an event that was not used is forgotten. *)
MutBoardNext(b) ==
  LET r == [brd[b] EXCEPT !.missing = FALSE] IN
    IF Rest(b) # {} /\ ~r.finished
    THEN Counted([r EXCEPT !.pos = Min(Rest(b))], Tag(b, time[Min(Rest(b))]), Wrap)
    ELSE [r EXCEPT !.finished = @ \/ b \notin cut]

(***************************************************************************)
(* NextEvent: an event that was early for its trigger is looked at again;  *)
(* one whose groups disagree is skipped.  At the end of a stream without a *)
(* tail the read fails, which nobody checks: the buffer still holds the    *)
(* last event, with what there is of an incomplete one over it, and it is  *)
(* taken for a new one, again and again.                                   *)
(***************************************************************************)
BoardNext(b) ==
  LET r == brd[b] IN
    IF r.finished THEN r
    ELSE IF r.missing THEN [r EXCEPT !.missing = FALSE]
    ELSE IF Rest(b) # {}
         THEN Counted([r EXCEPT !.pos = Min(Rest(b))], Tag(b, time[Min(Rest(b))]), Wrap)
    ELSE IF b \in DOMAIN junk /\ r.pos # Torn
         THEN Counted([r EXCEPT !.pos = Torn], junk[b], Wrap)
    ELSE IF b \in cut THEN r
    ELSE [r EXCEPT !.finished = TRUE]

(***************************************************************************)
(* What NextEvent does not return from.  It exits if the groups of the     *)
(* first event disagree, and if a stream without tail has nothing but its  *)
(* header (Hopeless).  A later event whose groups disagree is read for     *)
(* ever if the stream ends there (Endless).  What is in the buffer after   *)
(* an incomplete event may be no event at all, or one whose groups         *)
(* disagree (Broken).                                                      *)
(***************************************************************************)
Hopeless(b) ==
  /\ brd[b].first
  /\ IF Recorded(b) = {} THEN b \in cut \ DOMAIN junk ELSE ~InTime(b, Min(Recorded(b)))

AtEnd(b) == b \in cut /\ Rest(b) = {} /\ ~brd[b].missing

SpoiledEnd(b) == Recorded(b) # {} /\ ~InTime(b, Max(Recorded(b)))

Endless(b) ==
  AtEnd(b) /\ b \notin DOMAIN junk /\ SpoiledEnd(b) /\ ~brd[b].first

Broken(b) == AtEnd(b) /\ b \in DOMAIN junk /\ brd[b].pos # Torn

-----------------------------------------------------------------------------
(* The main loop. *)

DeltaT(b) == brd[b].total * Tick - trig.total

(* Mutant: one input at its end is enough. *)
MutDrained == trig.finished \/ \E b \in Boards : brd[b].finished

Drained == trig.finished /\ \A b \in Boards : brd[b].finished

\* Where the main loop calls NextEvent of b.
Reads(b) ==
  \/ pc = "read"
  \/ pc = "align" /\ b \in todo /\ DeltaT(b) < -Tol
  \/ pc = "drain" /\ ~Drained /\ tests < MaxTests

Returns(b) == ~Hopeless(b) /\ ~Endless(b)

Abort ==
  /\ \E b \in Boards : Reads(b) /\ (Hopeless(b) \/ Broken(b))
  /\ pc' = "aborted"
  /\ UNCHANGED <<input, trig, brd, todo, cur, written, tests>>

Hang ==
  /\ \E b \in Boards : Reads(b) /\ (Endless(b) \/ (Broken(b) /\ ~brd[b].first))
  /\ pc' = "hung"
  /\ UNCHANGED <<input, trig, brd, todo, cur, written, tests>>

(* The next event of the trigger and of every board; the first of them to  *)
(* reach the end of the run ends it for all.                               *)
Read ==
  /\ pc = "read"
  /\ \A b \in Boards : Returns(b)
  /\ trig' = TrigNext
  /\ brd' = [b \in Boards |-> BoardNext(b)]
  /\ todo' = Boards
  /\ pc' = IF trig'.finished \/ \E b \in Boards : brd'[b].finished
           THEN "tails" ELSE "align"
  /\ UNCHANGED <<input, cur, written, tests>>

(* Mutant: the loop is not left at the end of the run. *)
MutTooEarly(b) ==
  /\ pc = "align" /\ b \in todo
  /\ DeltaT(b) < -Tol /\ Returns(b)
  /\ brd' = [brd EXCEPT ![b] = BoardNext(b)]
  /\ UNCHANGED <<input, pc, trig, todo, cur, written, tests>>

(* "this should be impossible but we check for it anyway" *)
TooEarly(b) ==
  /\ pc = "align" /\ b \in todo
  /\ DeltaT(b) < -Tol /\ Returns(b)
  /\ brd' = [brd EXCEPT ![b] = BoardNext(b)]
  /\ todo' = IF brd'[b].finished THEN todo \ {b} ELSE todo
  /\ UNCHANGED <<input, pc, trig, cur, written, tests>>

(* Mutant: a late board is not set missing. *)
MutCompared(b) ==
  /\ pc = "align" /\ b \in todo
  /\ DeltaT(b) >= -Tol
  /\ todo' = todo \ {b}
  /\ UNCHANGED <<input, pc, trig, brd, cur, written, tests>>

Compared(b) ==
  /\ pc = "align" /\ b \in todo
  /\ DeltaT(b) >= -Tol
  /\ brd' = [brd EXCEPT ![b].missing = DeltaT(b) > Tol]
  /\ todo' = todo \ {b}
  /\ UNCHANGED <<input, pc, trig, cur, written, tests>>

AllCompared ==
  /\ pc = "align" /\ todo = {}
  /\ pc' = IF \E b \in Boards : brd[b].finished THEN "tails" ELSE "write"
  /\ UNCHANGED <<input, trig, brd, todo, cur, written, tests>>

Event == [trig |-> trig.pos,
          data |-> [b \in Boards |-> IF brd[b].missing THEN 0 ELSE brd[b].pos]]

Write ==
  /\ pc = "write" /\ pc' = "read"
  /\ written' = Append(written, Event)
  /\ cur' = (cur + 1) % NOut
  /\ UNCHANGED <<input, trig, brd, todo, tests>>

(* The file tails are sent to Level1 before the inputs are drained. *)
Tails ==
  /\ pc = "tails" /\ pc' = "drain"
  /\ UNCHANGED <<input, trig, brd, todo, cur, written, tests>>

Drain ==
  /\ pc = "drain"
  /\ ~Drained /\ tests < MaxTests
  /\ \A b \in Boards : Returns(b)
  /\ trig' = TrigNext
  /\ brd' = [b \in Boards |-> BoardNext(b)]
  /\ tests' = tests + 1
  /\ UNCHANGED <<input, pc, todo, cur, written>>

Leave ==
  /\ pc = "drain"
  /\ Drained \/ tests = MaxTests
  /\ pc' = "done"
  /\ UNCHANGED <<input, trig, brd, todo, cur, written, tests>>

-----------------------------------------------------------------------------
FreshTrig  == [pos |-> 0, first |-> TRUE, clock |-> 0, total |-> 0, finished |-> FALSE]
FreshBoard == [pos |-> 0, first |-> TRUE, clock |-> 0, total |-> 0, finished |-> FALSE,
               missing |-> FALSE]

(* When the triggers happen, if they are so far apart. *)
TimeOf(gap) ==
  LET t[k \in Trigs] == gap[k] + IF k = 1 THEN 0 ELSE t[k - 1] IN t

Init ==
  /\ time \in {TimeOf(gap) : gap \in [Trigs -> Gaps]}
  /\ ev \in [Boards -> [Trigs -> Kinds]]
  /\ Cardinality({x \in Boards \X Trigs : ev[x[1]][x[2]] # "good"}) <= Odd
  /\ phase \in [Boards -> Phases]
  /\ len \in Lens
  /\ cut \in Cuts
  /\ junk \in UNION {[torn -> Junk] : torn \in SUBSET cut}
  /\ pc = "read"
  /\ trig = FreshTrig
  /\ brd = [b \in Boards |-> FreshBoard]
  /\ todo = {} /\ cur = 0 /\ written = << >> /\ tests = 0

Next ==
  \/ Abort \/ Hang \/ Read
  \/ \E b \in Boards : TooEarly(b) \/ Compared(b)
  \/ AllCompared \/ Write \/ Tails \/ Drain \/ Leave

Spec == Init /\ [][Next]_vars

(* One thread; the writers of the FIFOs never stop without closing them.   *)
FairSpec == Spec /\ WF_vars(Next)

-----------------------------------------------------------------------------
(* The events of a board whose groups agree. *)
Healthy(b) == {k \in Recorded(b) : InTime(b, k)}

(***************************************************************************)
(* What the merger relies on: the board records the first trigger, from    *)
(* which all times are counted, and no two of its good events are a whole  *)
(* period of its counter apart.                                            *)
(***************************************************************************)
Steady(b) ==
  /\ Recorded(b) = {} \/ 1 \in Healthy(b)
  /\ \A j, k \in Healthy(b) :
       (j < k /\ \A i \in Healthy(b) : i <= j \/ i >= k)
         => (time[k] + phase[b]) \div Tick - (time[j] + phase[b]) \div Tick < Wrap

(***************************************************************************)
(* The data written with a trigger was recorded at that trigger, however   *)
(* many triggers the board missed, events it spoiled and roll-overs of     *)
(* either counter came before (lines 441-471).  Nothing is said of an      *)
(* event of which the stream has only a part.                              *)
(***************************************************************************)
Aligned ==
  \A b \in Boards : Steady(b) =>
    \A k \in DOMAIN written :
      \/ written[k].data[b] \in {0, written[k].trig}
      \/ written[k].data[b] = Torn /\ b \in DOMAIN junk

(***************************************************************************)
(* A board is missing from an event only if it has no data for it whose    *)
(* groups are within the tolerance: ADCBoard.cc:187, "verify they are all  *)
(* in time (0x0002 clock cycles tolerance i.e. ~17ns)".  The exception is  *)
(* a group one cycle behind the first when its counter has just rolled     *)
(* over: the tags are compared as they are, and the event is skipped.      *)
(***************************************************************************)
Complete ==
  \A b \in Boards : Steady(b) =>
    \A k \in DOMAIN written :
      LET t == written[k].trig IN
        \/ ev[b][t] = "good"
        \/ ev[b][t] = "late" /\ Tag(b, time[t]) # Wrap - 1
        => written[k].data[b] # 0

(***************************************************************************)
(* The merger stops at the first input that ends and not before: all the   *)
(* triggers up to there, and no other, are in the output, once each.  A    *)
(* stream without tail does not end the merging.                           *)
(***************************************************************************)
Ended == pc \in {"tails", "drain", "done"}

AllMerged ==
  /\ \A k \in DOMAIN written : written[k].trig = k
  /\ Ended /\ (\A b \in Boards : Steady(b))
       => Len(written) = Min({len} \cup {Max({0} \cup Healthy(b)) : b \in Boards \ cut})

(***************************************************************************)
(* When the merger ends it leaves no writer blocked on its FIFO, whichever *)
(* of the others ended without a tail, but those with more events after    *)
(* the last merged one than it is ready to read (n_test_max, lines         *)
(* 647-662).                                                               *)
(***************************************************************************)
Left(b) == {k \in Healthy(b) : k > Len(written)}

StreamsDrained ==
  pc = "done" /\ (\A b \in Boards : Steady(b))
    => /\ trig.finished <=> len - Len(written) <= MaxTests
       /\ \A b \in Boards \ cut : brd[b].finished <=> Cardinality(Left(b)) <= MaxTests

(* The last event of a stream without tail is read again and again, and    *)
(* does not catch up with the trigger.                                     *)
Stuck(b) == pc = "align" /\ b \in todo /\ Rest(b) = {} /\ DeltaT(b) < -Tol

(***************************************************************************)
(* The merger comes to its end, whatever the boards recorded; a board that *)
(* is behind its trigger is skipped forward "to try to recover"            *)
(* (PadmeMerger.cpp:455).  Only a stream without tail can keep it there:   *)
(* one left behind by its trigger, or one that ends in a spoiled event or  *)
(* inside one, which NextEvent may read for ever.                          *)
(***************************************************************************)
MergerEnds ==
  <>[](\/ pc \in {"done", "aborted"}
       \/ \E b \in cut : Stuck(b)
       \/ pc = "hung" /\ \E b \in cut : b \in DOMAIN junk \/ SpoiledEnd(b))
=============================================================================

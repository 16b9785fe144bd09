--------------------------- MODULE ZeroSuppression ---------------------------
(***************************************************************************)
(* What the data of one board goes through: create_pevent packs what the   *)
(* digitizer acquired, ZSUP's apply_zero_suppression finds the channels in *)
(* it and drops those without signal, Level1's UnpackEvent finds groups    *)
(* and channels again, and RootIO saves them.  Nothing in an event says    *)
(* where a channel begins: each program works it out of masks and sizes.   *)
(*                                                                         *)
(* A word of an event is a record: low is what it says if it is taken for  *)
(* the head of a group (the size in its low bits), id tells whose word it  *)
(* is, off whether the sample in it is below the threshold.  Masks are     *)
(* sets.  All operators are pure.                                          *)
(***************************************************************************)
EXTENDS Integers, Sequences, FiniteSetsExt, SequencesExt

CONSTANTS
  NGroups,     \* the groups of a board (4)
  ChPerGroup,  \* the channels of a group (8)
  NSamples,    \* the samples of a channel (1024), a word each
  TrLen,       \* the words of a group's trigger samples
  Zs1Head, Zs1Tail, Zs1NAbove,  \* zs1_head, zs1_tail, zs1_nabovethr
  Zs2Tail, Zs2MinRms            \* zs2_tail, zs2_minrms_ch

ASSUME ZsAssumption ==
  /\ {NGroups, ChPerGroup, NSamples} \subseteq Nat \ {0}
  /\ {TrLen, Zs1Head, Zs1Tail, Zs1NAbove, Zs2Tail, Zs2MinRms} \subseteq Nat
  /\ Zs1Head + Zs1Tail <= NSamples /\ Zs2Tail <= NSamples

HeadLen == 6
Groups == 0..NGroups - 1
Channels == 0..NGroups * ChPerGroup - 1
GroupOf(c) == c \div ChPerGroup
\* The loops over the bits of a mask, from the lowest.
Ascending(mask) ==
  CHOOSE s \in [1..Cardinality(mask) -> mask] : \A i, j \in DOMAIN s : i < j => s[i] < s[j]

-----------------------------------------------------------------------------
(* PEvent.c *)

GroupHead(g, tr) == [low |-> IF tr THEN 2 + TrLen ELSE 2, id |-> <<"head", g>>, off |-> FALSE, tr |-> tr]
Word(low, id, off) == [low |-> low, id |-> id, off |-> off, tr |-> FALSE]

(***************************************************************************)
(* What board b acquired in event n: the groups present, with samples of   *)
(* the trigger signal (tr), which was long or not; the channels enabled    *)
(* (channel_enable_mask), whatever their groups; the samples of the        *)
(* channels that have any (ChSize).  low is what the low bits of a first   *)
(* sample, or of what is behind the event, happen to be.                   *)
(***************************************************************************)
ChannelWords(a, c) ==
  [i \in 1..NSamples |-> Word(IF i = 1 THEN a.low ELSE 1, <<a.n, a.b, "sample", c, i>>, a.samples[c][i])]

TriggerTag(a, g) == <<a.n, a.b, "ttt", g>>

GroupWords(a, g) ==
  <<GroupHead(g, a.tr)>> \o [i \in 1..(IF a.tr THEN TrLen ELSE 0) |-> Word(1, <<a.n, a.b, "trig", g>>, a.long)]
                    \o <<Word(1, TriggerTag(a, g), FALSE)>>

Active(a) == {c \in a.enabled : GroupOf(c) \in a.groups /\ c \in DOMAIN a.samples}

(***************************************************************************)
(* The header's mode and algorithm are those of the DAQ's own              *)
(* configuration, where the run control leaves the default, 102.           *)
(***************************************************************************)
CreatePEvent(a) ==
  LET gs == Ascending(a.groups)
      cs == Ascending(Active(a))
      body == FlattenSeq([i \in DOMAIN gs |-> GroupWords(a, gs[i])])
                \o FlattenSeq([i \in DOMAIN cs |-> ChannelWords(a, cs[i])])
  IN  [board |-> a.b, groups |-> a.groups, mode |-> 1, algr |-> 2, auto |-> a.tr /\ a.long /\ a.groups # {},
       active |-> Active(a), accepted |-> Active(a), size |-> HeadLen + Len(body), body |-> body, low |-> a.low]

-----------------------------------------------------------------------------
(* Finding one's way in an event. *)

\* What is behind the end of an event in the buffer is left from others.
At(ev, i) == IF i \in DOMAIN ev.body THEN ev.body[i] ELSE Word(ev.low, <<"beyond">>, FALSE)

(* Where the k-th group ends, if there are that many, one after the other. *)
GroupEnds(ev, k) ==
  LET end[i \in 0..k] == IF i = 0 THEN 0 ELSE end[i-1] + At(ev, end[i-1] + 1).low
  IN  end

ChannelAt(ev, start) == [i \in 1..NSamples |-> At(ev, start + i)]

(* The k-th channel begins behind the groups and the k-1 channels before.  *)
KthChannel(ev, start, k) == ChannelAt(ev, start + (k - 1) * NSamples)

-----------------------------------------------------------------------------
(* ZSUP.c *)

(* The loop's overThr, nOverThr and nMaxOverThr, after i samples. *)
Scan(s) ==
  LET scan[i \in 0..NSamples - Zs1Head - Zs1Tail] ==
        IF i = 0 THEN [run |-> 0, longest |-> 0]
        ELSE LET run == IF s[Zs1Head + i].off THEN scan[i-1].run + 1 ELSE 0
             IN  [run |-> run, longest |-> IF run > scan[i-1].longest THEN run ELSE scan[i-1].longest]
  IN  scan[NSamples - Zs1Head - Zs1Tail]

(* The head's samples give mean and rms; a sample off in the head is what  *)
(* makes the rms bad.                                                      *)
Algorithm1(s) ==
  \/ \E i \in 1..Zs1Head : s[i].off
  \/ Scan(s).longest >= Zs1NAbove

(* The rms grows with the number of samples off the baseline. *)
Algorithm2(s) == Cardinality({i \in 1..NSamples - Zs2Tail : s[i].off}) >= Zs2MinRms

(* An unknown algorithm accepts all. *)
Accepts(algr, s) ==
  /\ algr = 1 => Algorithm1(s)
  /\ algr = 2 => Algorithm2(s)

(***************************************************************************)
(* The mask's bits are tested with && instead of &: bit i counts if it or  *)
(* any higher one is set.                                                  *)
(***************************************************************************)
GroupCount(groups) == Cardinality({i \in Groups : \E g \in groups : g >= i})

(* A channel is accepted or not, and written or not, in mode 0 only if     *)
(* accepted.  Input and output sizes are printed if they do not fit, and   *)
(* the event is written all the same.                                      *)
Suppress(mode, algr, ev) ==
  LET start == GroupEnds(ev, GroupCount(ev.groups))[GroupCount(ev.groups)]
      act == Ascending(ev.active)
      ok == {k \in DOMAIN act : Accepts(algr, KthChannel(ev, start, k))}
      kept == Ascending(IF mode = 1 THEN DOMAIN act ELSE ok)
      body == [i \in 1..start |-> At(ev, i)]
                \o FlattenSeq([j \in DOMAIN kept |-> KthChannel(ev, start, kept[j])])
  IN  [ev EXCEPT !.mode = mode, !.algr = algr, !.accepted = {act[k] : k \in ok},
                 !.size = HeadLen + Len(body), !.body = body]

(* Mutant: an autopass event is suppressed like any other. *)
MutZsup(zs, ev) == IF zs.algr = 0 THEN ev ELSE Suppress(zs.mode, zs.algr, ev)

Zsup(zs, ev) ==
  IF zs.algr = 0 THEN ev ELSE Suppress(IF ev.auto THEN 1 ELSE zs.mode, zs.algr, ev)

-----------------------------------------------------------------------------
(* Level1: ADCBoard::UnpackEvent_v03 and RootIO::FillRawEvent *)

(* The channels that are in the event, for Level1 and for RootIO. *)
Stored(ev) == IF ev.mode = 1 THEN ev.active ELSE ev.accepted

(* ADCEvent before its first event. *)
EmptyADCEvent ==
  [board |-> 0, groups |-> {}, mode |-> 0, algr |-> 0, active |-> {}, accepted |-> {}, fits |-> TRUE,
   ttt |-> [g \in Groups |-> <<>>], samples |-> [c \in Channels |-> <<>>]]

Ids(s) == [i \in DOMAIN s |-> s[i].id]

(***************************************************************************)
(* The ADCEvent keeps of the event before whatever this one has no group   *)
(* or no channel for.  fits: the cursor ended where the event does.        *)
(***************************************************************************)
Unpack(ev, old) ==
  LET gs == Ascending(ev.groups)
      cs == Ascending(Stored(ev))
      end == GroupEnds(ev, Len(gs))
      tag(i) == LET head == At(ev, end[i-1] + 1)
                IN  At(ev, end[i-1] + 2 + (IF head.tr THEN TrLen ELSE 0)).id
      start == end[Len(gs)]
  IN  [board |-> ev.board, groups |-> ev.groups, mode |-> ev.mode, algr |-> ev.algr,
       active |-> ev.active, accepted |-> ev.accepted,
       ttt |-> [g \in Groups |-> IF g \in ev.groups THEN tag(CHOOSE i \in DOMAIN gs : gs[i] = g) ELSE old.ttt[g]],
       samples |-> [c \in Channels |-> IF c \in Stored(ev)
                                       THEN Ids(KthChannel(ev, start, CHOOSE k \in DOMAIN cs : cs[k] = c))
                                       ELSE old.samples[c]],
       fits |-> HeadLen + start + Len(cs) * NSamples = ev.size]

(* A group none of whose channels is saved is not saved either. *)
FillBoard(adc, sn) ==
  [board |-> adc.board, sn |-> sn, algr |-> adc.algr, active |-> adc.active, accepted |-> adc.accepted,
   ttt |-> [g \in {GroupOf(c) : c \in Stored(adc)} |-> adc.ttt[g]],
   samples |-> [c \in Stored(adc) |-> adc.samples[c]]]

-----------------------------------------------------------------------------
(* What should come out, said without cursors. *)

(* A channel has signal: its head is noisy, or some Zs1NAbove samples in a *)
(* row between head and tail are off; algorithm 2: see there.              *)
HasSignal(algr, off) ==
  CASE algr = 1 -> \/ \E i \in 1..Zs1Head : off[i]
                   \/ \E i \in Zs1Head..NSamples - Zs1Tail - Zs1NAbove :
                        \A j \in 1..Zs1NAbove : off[i + j]
    [] algr = 2 -> Cardinality({i \in 1..NSamples - Zs2Tail : off[i]}) >= Zs2MinRms
    [] OTHER    -> TRUE

(* What RootIO should save of an acquisition, with serial number sn. *)
Expected(zs, a, sn) ==
  LET good == {c \in Active(a) : HasSignal(zs.algr, a.samples[c])}
      kept == IF zs.mode = 1 \/ zs.algr = 0 \/ (a.tr /\ a.long) THEN Active(a) ELSE good
  IN  [board |-> a.b, sn |-> sn, algr |-> IF zs.algr = 0 THEN 2 ELSE zs.algr, active |-> Active(a), accepted |-> good,
       ttt |-> [g \in {GroupOf(c) : c \in kept} |-> TriggerTag(a, g)],
       samples |-> [c \in kept |-> [i \in 1..NSamples |-> <<a.n, a.b, "sample", c, i>>]]]

==============================================================================

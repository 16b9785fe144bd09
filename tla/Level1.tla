-------------------------------- MODULE Level1 --------------------------------
(***************************************************************************)
(* PadmeLevel1: the loop that reads one merger stream, puts the pieces of  *)
(* an event together, unpacks its boards and saves it to ROOT files,       *)
(* changing files on the way.                                              *)
(*                                                                         *)
(* The stream carries what the boards acquired (Contents), packed by the   *)
(* DAQs, suppressed by the ZSUPs and sent by the merger; ZeroSuppression   *)
(* says how.  The merger may be killed at any point, which leaves Level1   *)
(* with a stream that ends anywhere, even inside a board.                  *)
(*                                                                         *)
(* Bounds: NEvents events; the merger sends an event when the one before   *)
(* has been read, which changes nothing for the reader of a pipe.          *)
(***************************************************************************)
EXTENDS ZeroSuppression, TLC

CONSTANTS
  NBoards,   \* number_of_boards; board b has id and serial number b
  Setups,    \* bound: the configurations, see SetupType
  Contents,  \* bound: the samples of the boards' channels, those that have any
  NEvents    \* bound: how many events the merger sends

Boards == 1..NBoards

(***************************************************************************)
(* zs:      mode and algorithm of zero_suppression                         *)
(* groups:  the groups enabled in each board (group_enable_mask)           *)
(* enabled: its enabled channels, whatever their groups                    *)
(* tr, low: see ChannelWords                                               *)
(* perFile: NEventsPerFile, 0 for no limit                                 *)
(* exists:  the numbers of the files that exist already                    *)
(* date:    the tag that the start time in the file head looks like: tail  *)
(*          up to January 2021, then header                                *)
(***************************************************************************)
SetupType ==
  [zs : [mode : 0..1, algr : 0..15], groups : [Boards -> SUBSET Groups],
   enabled : [Boards -> SUBSET Channels], tr : BOOLEAN, low : Nat,
   perFile : Nat, exists : SUBSET Nat, date : {"tail", "header"}]

ASSUME Level1Assumption ==
  /\ {NBoards, NEvents} \subseteq Nat \ {0}
  /\ Setups \subseteq SetupType
  /\ \A c \in Contents : \A b \in Boards :
       DOMAIN c[b] \subseteq Channels /\ c[b] \in [DOMAIN c[b] -> [1..NSamples -> BOOLEAN]]

VARIABLES
  setup,
  stream,   \* what the merger wrote and Level1 did not read yet
  sent,     \* how many events the merger sent
  over,     \* how the stream was closed: no, tail, cut
  pending,  \* what the events are that were sent and are not saved yet
  pc,       \* run, done, aborted
  turn,     \* changes when a stream is read at its end, so that this is a step
  word,     \* the tag in buff: what a read that fails leaves there
  found,    \* header_found
  head,     \* event_number and missing_adcboards
  trig,     \* trigger_found, and the trigger data last read
  nbrd,     \* adcboard_counter
  buf,      \* the boards' buffers
  adc,      \* the boards' ADCEvents
  files,    \* the events in each output file
  saved     \* the event that was saved last

source == <<setup, stream, sent, over>>
output == <<pending, adc, files, saved>>
vars == <<source, pc, turn, word, found, head, trig, nbrd, buf, output>>

-----------------------------------------------------------------------------
(* DAQs, ZSUPs and merger. *)

Acquired(e, b) ==
  [n |-> e.n, b |-> b, groups |-> setup.groups[b], enabled |-> setup.enabled[b], tr |-> setup.tr, low |-> setup.low,
   long |-> e.long, samples |-> e.samples[b]]

Present(e) == Ascending(Boards \ e.missing)

MergerEvent(e) ==
  <<[tag |-> "header", n |-> e.n, missing |-> e.missing], [tag |-> "trigger", n |-> e.n]>>
    \o [i \in DOMAIN Present(e) |->
          [tag |-> "board", ev |-> Zsup(setup.zs, CreatePEvent(Acquired(e, Present(e)[i])))]]

Send ==
  /\ over = "no" /\ stream = <<>> /\ sent < NEvents
  /\ \E missing \in SUBSET Boards, long \in BOOLEAN, samples \in Contents :
       LET e == [n |-> sent + 1, missing |-> missing, long |-> long, samples |-> samples] IN
         /\ long => setup.tr
         /\ stream' = MergerEvent(e)
         /\ pending' = Append(pending, e)
  /\ sent' = sent + 1
  /\ UNCHANGED <<setup, over, pc, turn, word, found, head, trig, nbrd, buf, adc, files, saved>>

CloseStream ==
  /\ over = "no" /\ stream = <<>>
  /\ over' = "tail"
  /\ stream' = <<[tag |-> "tail", n |-> sent]>>
  /\ UNCHANGED <<setup, sent, pc, turn, word, found, head, trig, nbrd, buf, output>>

(* A piece of a board's data: the rest of the buffer is from other events. *)
Torn(item) == [item EXCEPT !.ev.body = <<>>]

(* The merger is killed between two events, or within the last one sent.   *)
Cut ==
  /\ over = "no"
  /\ over' = "cut"
  /\ \E k \in (IF stream # <<>> /\ stream[1].tag = "header" THEN 1 ELSE 0)..Len(stream) :
       \/ stream' = SubSeq(stream, 1, k)
       \/ /\ k > 0 /\ stream[k].tag = "board"
          /\ stream' = SubSeq(stream, 1, k - 1) \o <<Torn(stream[k])>>
  /\ UNCHANGED <<setup, sent, pc, turn, word, found, head, trig, nbrd, buf, output>>

-----------------------------------------------------------------------------
(* The main loop. *)

(***************************************************************************)
(* The tag Level1 looks at.  Nobody checks if a read fails: at the end of  *)
(* a stream buff keeps what was read last, and is looked at again.         *)
(***************************************************************************)
Tag == CASE stream # <<>> -> stream[1].tag
         [] stream = <<>> /\ over = "cut" -> word
         [] OTHER -> "none"

AtEnd == stream = <<>>
Item == stream[1]
Consume == stream' = Tail(stream)
ReadOn == IF AtEnd THEN turn' = ~turn /\ UNCHANGED stream ELSE Consume /\ UNCHANGED turn

Unpacked(i) == Unpack(buf[i], adc[i])
CanUnpack == \A i \in 1..nbrd : Unpacked(i).fits

(* The serial number is that of the i-th board in the file's head. *)
RawEvent ==
  [n |-> head.n, missing |-> head.missing, trig |-> trig.n,
   boards |-> [i \in 1..nbrd |-> FillBoard(Unpacked(i), i)]]

Filled == [files EXCEPT ![Len(files)] = Append(@, head.n)]

(* Mutant: the limit is noticed one event too late. *)
MutFileFull == setup.perFile > 0 /\ Len(files[Len(files)]) >= setup.perFile

FileFull == setup.perFile > 0 /\ Len(files[Len(files)]) + 1 >= setup.perFile
NameTaken == Len(files) \in setup.exists

(* UnpackEvent of all boards and FillRawEvent. *)
Save ==
  /\ adc' = [i \in Boards |-> IF i <= nbrd THEN Unpacked(i) ELSE adc[i]]
  /\ saved' = RawEvent
  /\ files' = IF FileFull /\ ~NameTaken THEN Append(Filled, <<>>) ELSE Filled
  /\ pending' = IF pending = <<>> THEN <<>> ELSE Tail(pending)

(* A new header or the tail first save the event before, if there is one.  *)
SavePrevious ==
  IF found THEN CanUnpack /\ ~(FileFull /\ NameTaken) /\ Save ELSE UNCHANGED output

\* Bound: two phantoms, see PhantomEvents, are enough.
Enough == AtEnd /\ Tag = "header" /\ Len(FlattenSeq(files)) >= 2

EventHeader ==
  /\ pc = "run" /\ Tag = "header"
  /\ ~Enough
  /\ SavePrevious
  /\ head' = IF AtEnd THEN head ELSE [n |-> Item.n, missing |-> Item.missing]
  /\ found' = TRUE
  /\ trig' = [trig EXCEPT !.found = FALSE]
  /\ nbrd' = 0
  /\ word' = IF AtEnd THEN word ELSE "other"
  /\ ReadOn
  /\ UNCHANGED <<setup, sent, over, pc, buf>>

(* Mutant: the event before the tail is not saved. *)
MutEndOfFile ==
  /\ pc = "run" /\ Tag = "tail"
  /\ pc' = "done"
  /\ ReadOn
  /\ UNCHANGED <<setup, sent, over, word, found, head, trig, nbrd, buf, output>>

EndOfFile ==
  /\ pc = "run" /\ Tag = "tail"
  /\ SavePrevious
  /\ pc' = "done"
  /\ found' = FALSE
  /\ nbrd' = 0
  /\ trig' = [trig EXCEPT !.found = FALSE]
  /\ ReadOn
  /\ UNCHANGED <<setup, sent, over, word, head, buf>>

(* The cursor is not where the event ends: Level1 gives up the whole run.  *)
UnpackFails ==
  /\ pc = "run" /\ Tag \in {"header", "tail"}
  /\ found /\ ~CanUnpack
  /\ pc' = "aborted"
  /\ ReadOn
  /\ UNCHANGED <<setup, sent, over, word, found, head, trig, nbrd, buf, output>>

(***************************************************************************)
(* ChangeOutFile finds a file of that name.  Exit then closes the file     *)
(* that ChangeOutFile has closed and deleted: whether it gets through with *)
(* that or crashes, Level1 ends, and the event has been saved.             *)
(***************************************************************************)
FileExists ==
  /\ pc = "run" /\ Tag \in {"header", "tail"}
  /\ found /\ CanUnpack /\ FileFull /\ NameTaken
  /\ Save
  /\ pc' = "aborted"
  /\ ReadOn
  /\ UNCHANGED <<setup, sent, over, word, found, head, trig, nbrd, buf>>

TriggerInfo ==
  /\ pc = "run" /\ Tag = "trigger"
  /\ IF found /\ ~trig.found
     THEN trig' = [found |-> TRUE, n |-> Item.n] /\ UNCHANGED pc
     ELSE pc' = "aborted" /\ UNCHANGED trig
  /\ word' = "trigger"
  /\ ReadOn
  /\ UNCHANGED <<setup, sent, over, found, head, nbrd, buf, output>>

TooManyBoards == nbrd >= NBoards

(* Mutant: a board too many is dropped instead of giving up. *)
MutAdcBoard ==
  /\ pc = "run" /\ Tag = "board"
  /\ IF found /\ ~TooManyBoards
     THEN /\ nbrd' = nbrd + 1
          /\ buf' = IF AtEnd THEN [buf EXCEPT ![nbrd + 1].size = buf[nbrd].size]
                             ELSE [buf EXCEPT ![nbrd + 1] = Item.ev]
     ELSE UNCHANGED <<nbrd, buf>>
  /\ word' = "board"
  /\ ReadOn
  /\ UNCHANGED <<setup, sent, over, pc, found, head, trig, output>>

(* The next board's data go to the next buffer.  At the end of a cut       *)
(* stream this is the first line of the last board again, and a failed     *)
(* read of the rest.                                                       *)
AdcBoard ==
  /\ pc = "run" /\ Tag = "board"
  /\ IF found /\ ~TooManyBoards
     THEN /\ nbrd' = nbrd + 1
          /\ buf' = IF AtEnd THEN [buf EXCEPT ![nbrd + 1].size = buf[nbrd].size]
                             ELSE [buf EXCEPT ![nbrd + 1] = Item.ev]
          /\ UNCHANGED pc
     ELSE pc' = "aborted" /\ UNCHANGED <<nbrd, buf>>
  /\ word' = "board"
  /\ ReadOn
  /\ UNCHANGED <<setup, sent, over, found, head, trig, output>>

(* The loop says that it aborts, and goes on. *)
UnknownTag ==
  /\ pc = "run" /\ Tag = "other"
  /\ ReadOn
  /\ UNCHANGED <<setup, sent, over, pc, word, found, head, trig, nbrd, buf, output>>

-----------------------------------------------------------------------------
NoEvent == [board |-> 0, groups |-> {}, mode |-> 0, algr |-> 0, auto |-> FALSE, active |-> {},
            accepted |-> {}, size |-> 0, body |-> <<>>, low |-> 0]
Nothing == [n |-> 0, missing |-> {}, trig |-> 0, boards |-> <<>>]

(* Init's output file was opened, the stream's head was read.              *)
Init ==
  /\ setup \in Setups
  /\ stream = <<>> /\ sent = 0 /\ over = "no" /\ pending = <<>>
  /\ pc = IF 0 \in setup.exists THEN "aborted" ELSE "run"
  /\ turn = FALSE
  /\ word = setup.date
  /\ found = FALSE
  /\ head = [n |-> 0, missing |-> {}]
  /\ trig = [found |-> FALSE, n |-> 0]
  /\ nbrd = 0
  /\ buf = [i \in Boards |-> NoEvent]
  /\ adc = [i \in Boards |-> EmptyADCEvent]
  /\ files = <<<<>>>>
  /\ saved = Nothing

Writer == Send \/ CloseStream
Loop == EventHeader \/ EndOfFile \/ UnpackFails \/ FileExists \/ TriggerInfo \/ AdcBoard \/ UnknownTag

Next == Writer \/ Cut \/ Loop

Spec == Init /\ [][Next]_vars
(***************************************************************************)
(* Level1 runs: weak fairness of Loop, with what enables it written out    *)
(* (every step of Loop changes stream or turn).  The merger closes its     *)
(* streams at the end of the run; it need not be killed.                   *)
(***************************************************************************)
LoopReady == pc = "run" /\ Tag # "none" /\ ~Enough
LoopRuns == []<>~LoopReady \/ []<><<Loop>>_vars

FairSpec == Spec /\ WF_vars(CloseStream) /\ LoopRuns

-----------------------------------------------------------------------------
(* Properties. *)

Saved == FlattenSeq(files)

(***************************************************************************)
(* The stream was cut before its first event, on a date that looks like an *)
(* event header: Level1 takes it for one again and again, and saves empty  *)
(* events without end.                                                     *)
(***************************************************************************)
PhantomEvents == over = "cut" /\ sent = 0 /\ setup.date = "header"

(***************************************************************************)
(* What is saved is the oldest event not yet saved, with its own trigger,  *)
(* and of each board that is not missing exactly what the board acquired   *)
(* and zero suppression should keep, every sample and time tag in its      *)
(* place: nothing of another event or board, nothing of a channel that was *)
(* misread, and no event that was not complete.  Three programs count      *)
(* groups and channels for this (ZSUP.c:639, ADCBoard.cc:681, RootIO.cc:   *)
(* 241).  The serial number is right if no board before is missing.        *)
(***************************************************************************)
SavesOldest ==
  LET e == pending[1] IN
    /\ saved'.n = e.n /\ saved'.trig = e.n /\ saved'.missing = e.missing
    /\ Len(saved'.boards) = Len(Present(e))
    /\ \A i \in DOMAIN Present(e) :
         LET b == Present(e)[i]  s == saved'.boards[i] IN
           /\ s = Expected(setup.zs, Acquired(e, b), s.sn)
           /\ 1..b \cap e.missing = {} => s.sn = b

SavedIsAcquired == [][files' # files => PhantomEvents \/ SavesOldest]_vars

(***************************************************************************)
(* The files have the events in order, each but the last as many as were   *)
(* asked for, and the last never more; no file that was there before is    *)
(* opened (RootIO::FillRawEvent, ChangeOutFile, OpenOutFile).              *)
(***************************************************************************)
FilesKeepOrder ==
  /\ PhantomEvents \/ Saved = [i \in 1..Len(Saved) |-> i]
  /\ setup.perFile > 0 =>
       /\ \A i \in DOMAIN files : Len(files[i]) <= setup.perFile
       /\ \A i \in 1..Len(files) - 1 : Len(files[i]) = setup.perFile
  /\ \A i \in 2..Len(files) : i - 1 \notin setup.exists

\* Some group is off, and a group after it is on.
HasGap(groups) == \E g \in groups : \E h \in Groups \ groups : h < g

(***************************************************************************)
(* A run is lost to Level1 in three ways only: a file of the name exists;  *)
(* the enabled groups have a gap, so that ZSUP takes a channel for a group *)
(* (ZSUP.c:639); the merger died, which costs the event being read, even   *)
(* if it was complete.  A stream that was closed is saved in full.         *)
(***************************************************************************)
KnownLosses ==
  /\ pc = "done" /\ over = "tail" => Len(Saved) = sent
  /\ pc = "aborted" =>
       \/ 0 \in setup.exists
       \/ Len(files) \in setup.exists
       \/ setup.zs.algr # 0 /\ setup.low # 0 /\ \E b \in Boards : HasGap(setup.groups[b])
       \/ over = "cut" /\ Len(Saved) = sent - 1

(***************************************************************************)
(* Level1 ends, wherever the stream does, but in two cases: the merger     *)
(* died just after an event header, whose last word is no tag (the loop    *)
(* prints that it aborts, PadmeLevel1.cpp:247, for ever), and the phantoms *)
(* above.                                                                  *)
(***************************************************************************)
CutAfterHeader == over = "cut" /\ Tag = "other"
Level1Ends == <>(pc \in {"done", "aborted"} \/ CutAfterHeader \/ PhantomEvents)

(* The serial number saved with a board's data is the board's own: "Add    *)
(* board serial number", PadmeLevel1.cpp:274.                              *)
SerialNumbersTrue ==
  \A i \in DOMAIN saved.boards : saved.boards[i].sn = saved.boards[i].board

==============================================================================

----------------------------- MODULE OutputFiles -----------------------------
(***************************************************************************)
(* The output files of the acquisition programs: PadmeDAQ in its modes     *)
(* DAQ, FAKE and ZSUP, and PadmeTrig.  Each writes the events it accepts   *)
(* to a file with a head and a tail, counts them three times (per file, in *)
(* total, and in the tail), and goes on to a new file when the present one *)
(* is old, large or full enough, up to MaxFiles of them.                   *)
(*                                                                         *)
(* The four programs share the design and differ in when they look at      *)
(* their limits, what they count, and what stops them.  prog is the        *)
(* program that runs; a step common to all is an operator the program's    *)
(* own action is made of.  Names have a resolution of one second and a     *)
(* file is never overwritten.                                              *)
(*                                                                         *)
(* Abstracted: an event is its number and its size; what a failed write    *)
(* left of its record, and the count of events read, are left out.         *)
(***************************************************************************)
EXTENDS Integers, Sequences, FiniteSets, Functions

CONSTANTS
  MaxFiles,      \* MAX_N_OUTPUT_FILES
  MaxDuration,   \* Config->file_max_duration, in seconds
  MaxSize,       \* Config->file_max_size
  MaxEvents,     \* Config->file_max_events
  TotalTime,     \* Config->total_daq_time, 0: run until stopped
  HeadSize, TailSize,    \* sizes of a file's head and tail
  EvSizes,       \* the sizes an event may have
  TrigSize,      \* the size of a trigger's event
  MaxBatch,      \* most events in one read of a device
  Faults,        \* "device", "write", "kill": what may go wrong
  MaxClock,      \* bound: the time at which the clock stops
  MaxSeen        \* bound: the number of events accepted

ASSUME OutputConstants ==
  /\ MaxFiles \in Nat \ {0} /\ MaxBatch \in Nat \ {0}
  /\ {MaxDuration, MaxSize, MaxEvents, TotalTime, HeadSize, TailSize, TrigSize} \subseteq Nat
  /\ {MaxClock, MaxSeen} \subseteq Nat
  /\ EvSizes \subseteq Nat

Programs == {"DAQ", "FAKE", "ZSUP", "TRIG"}
Files == 0 .. MaxFiles - 1
Ended == {"done", "failed", "killed"}

VARIABLES
  prog, mode,    \* the program and Config->output_mode
  pc,            \* where it is
  clock,         \* the time of day
  now, start,    \* t_now, t_daqstart
  left,          \* events of the read buffer still to be handled
  fileIndex,     \* the program's file counter
  report,        \* its arrays fileSize, fileEvents, fileTOpen, fileTClose
  total,         \* totalWriteSize, totalWriteEvents
  tooMany,       \* tooManyOutputFiles
  adcError,      \* adcError
  disk,          \* the files on disk
  seen,          \* events accepted for output
  break, quit,   \* BreakSignal; the quit file exists
  eos            \* the tail of the input stream has come (ZSUP)

told == <<break, quit, eos>>
books == <<fileIndex, report, total, disk, seen>>
flags == <<tooMany, adcError>>
times == <<now, start>>
fixed == <<prog, mode>>
vars == <<prog, mode, pc, clock, now, start, left, fileIndex, report, total,
          tooMany, adcError, disk, seen, break, quit, eos>>

Absent == [st |-> "absent", name |-> 0, evs |-> <<>>, size |-> 0, n |-> 0, tail |-> 0]
Opened(name, size) == [Absent EXCEPT !.st = "open", !.name = name, !.size = size]
NoReport == [size |-> 0, events |-> 0, tOpen |-> 0, tClose |-> 0]

\* O_EXCL: a file name in use is not opened again.
NameFree(name) == \A f \in Files : disk[f].st # "absent" => disk[f].name # name

\* Opens file fileIndex, named after the time, registers it and writes its head.
OpenFile(i, name, t) ==
  /\ disk' = [disk EXCEPT ![i] = Opened(name, HeadSize)]
  /\ report' = [report EXCEPT ![i] = [NoReport EXCEPT !.size = HeadSize, !.tOpen = t]]

\* Mutant: the size in the tail is the one before the tail.
MutSealFile(t) ==
  /\ disk' = [disk EXCEPT ![fileIndex].st = "sealed",
                          ![fileIndex].size = @ + TailSize,
                          ![fileIndex].n = report[fileIndex].events,
                          ![fileIndex].tail = report[fileIndex].size]
  /\ report' = [report EXCEPT ![fileIndex].size = @ + TailSize, ![fileIndex].tClose = t]
  /\ fileIndex' = fileIndex + 1

\* Writes the tail, which counts itself, and closes the file.
SealFile(t) ==
  /\ disk' = [disk EXCEPT ![fileIndex].st = "sealed",
                          ![fileIndex].size = @ + TailSize,
                          ![fileIndex].n = report[fileIndex].events,
                          ![fileIndex].tail = report[fileIndex].size + TailSize]
  /\ report' = [report EXCEPT ![fileIndex].size = @ + TailSize, ![fileIndex].tClose = t]
  /\ fileIndex' = fileIndex + 1

\* Mutant: the handle of the first file is kept.
MutWriteEvent(s) ==
  /\ seen' = seen + 1
  /\ disk' = [disk EXCEPT ![0].evs = Append(@, seen + 1), ![0].size = @ + s]
  /\ report' = [report EXCEPT ![fileIndex].size = @ + s, ![fileIndex].events = @ + 1]
  /\ total' = [size |-> total.size + s, events |-> total.events + 1]
  /\ UNCHANGED fileIndex

\* Writes one event of size s and counts it.
WriteEvent(s) ==
  /\ seen' = seen + 1
  /\ disk' = [disk EXCEPT ![fileIndex].evs = Append(@, seen + 1), ![fileIndex].size = @ + s]
  /\ report' = [report EXCEPT ![fileIndex].size = @ + s, ![fileIndex].events = @ + 1]
  /\ total' = [size |-> total.size + s, events |-> total.events + 1]
  /\ UNCHANGED fileIndex

\* Mutant: the number of events is not looked at.
MutFull(t) ==
  /\ mode = "FILE"
  /\ \/ t - report[fileIndex].tOpen >= MaxDuration
     \/ report[fileIndex].size >= MaxSize

\* Is it time for a new file?
Full(t) ==
  /\ mode = "FILE"
  /\ \/ t - report[fileIndex].tOpen >= MaxDuration
     \/ report[fileIndex].size >= MaxSize
     \/ report[fileIndex].events >= MaxEvents

TimeIsUp(t) == TotalTime > 0 /\ t - start >= TotalTime

\* Mutant: PadmeTrig and PadmeDAQ look at the time only.
MutStops(p, t) == break \/ TimeIsUp(t)

\* What ends the main loop of each program.
Stops(p, t) ==
  CASE p = "DAQ" -> break \/ quit \/ TimeIsUp(t)
    [] p = "FAKE" -> break \/ quit \/ TimeIsUp(t)
    [] p = "ZSUP" -> break
    [] p = "TRIG" -> quit \/ TimeIsUp(t)

\* Mutant: the tails of full files are not counted.
MutCheck(p) ==
  /\ pc = "check" /\ prog = p
  /\ now' = clock
  /\ IF Full(clock)
     THEN SealFile(clock) /\ UNCHANGED total /\ pc' = "open"
     ELSE /\ pc' = IF Stops(p, clock) THEN "final" ELSE "read"
          /\ UNCHANGED <<fileIndex, disk, report, total>>
  /\ UNCHANGED <<fixed, clock, start, left, flags, seen, told>>

\* The end of a pass of the main loop: close a file that is full, or go on.
Check(p) ==
  /\ pc = "check" /\ prog = p
  /\ now' = clock
  /\ IF Full(clock)
     THEN /\ SealFile(clock)
          /\ total' = [total EXCEPT !.size = @ + TailSize]
          /\ pc' = "open"
     ELSE /\ pc' = IF Stops(p, clock) THEN "final" ELSE "read"
          /\ UNCHANGED <<fileIndex, disk, report, total>>
  /\ UNCHANGED <<fixed, clock, start, left, flags, seen, told>>

\* Mutant: the next file is named after the start of the acquisition.
MutReopenName(p, counted) ==
  /\ pc = "open" /\ prog = p
  /\ IF fileIndex < MaxFiles
     THEN /\ UNCHANGED tooMany
          /\ IF NameFree(start)
             THEN /\ OpenFile(fileIndex, start, now)
                  /\ total' = IF counted THEN [total EXCEPT !.size = @ + HeadSize] ELSE total
                  /\ pc' = IF Stops(p, now) THEN "final" ELSE "read"
             ELSE pc' = "failed" /\ UNCHANGED <<disk, report, total>>
     ELSE /\ tooMany' = TRUE
          /\ pc' = "final"
          /\ UNCHANGED <<disk, report, total>>
  /\ UNCHANGED <<fixed, clock, times, left, fileIndex, adcError, seen, told>>

\* The next file after a full one; counted: is its head counted in the total?
Reopen(p, counted) ==
  /\ pc = "open" /\ prog = p
  /\ IF fileIndex < MaxFiles
     THEN /\ UNCHANGED tooMany
          /\ IF NameFree(now)
             THEN /\ OpenFile(fileIndex, now, now)
                  /\ total' = IF counted THEN [total EXCEPT !.size = @ + HeadSize] ELSE total
                  /\ pc' = IF Stops(p, now) THEN "final" ELSE "read"
             ELSE pc' = "failed" /\ UNCHANGED <<disk, report, total>>
     ELSE /\ tooMany' = TRUE
          /\ pc' = "final"
          /\ UNCHANGED <<disk, report, total>>
  /\ UNCHANGED <<fixed, clock, times, left, fileIndex, adcError, seen, told>>

\* After the loop: the last file is closed, unless it already is.
Close(p, t, counted) ==
  /\ pc = "final" /\ prog = p
  /\ now' = t
  /\ IF tooMany
     THEN UNCHANGED <<fileIndex, disk, report, total>>
     ELSE /\ SealFile(t)
          /\ total' = IF counted THEN [total EXCEPT !.size = @ + TailSize] ELSE total
  /\ pc' \in IF adcError THEN {"failed"}
             ELSE {"done"} \cup (IF "device" \in Faults THEN {"failed"} ELSE {})
  /\ UNCHANGED <<fixed, clock, start, left, flags, seen, told>>

\* One file is open and the program starts to work.
Start(p, name, counted) ==
  /\ prog = p
  /\ start' = clock
  /\ OpenFile(0, name, clock)
  /\ total' = [size |-> IF counted THEN HeadSize ELSE 0, events |-> 0]
  /\ pc' = "read"
  /\ UNCHANGED <<fixed, clock, now, left, fileIndex, flags, seen, told>>

-----------------------------------------------------------------------------
(* PadmeDAQ in DAQ mode.                                                   *)

\* Acquisition starts; the head of the first file is not counted in the total.
DaqOpen == pc = "start" /\ Start("DAQ", clock, FALSE)

\* The digitizer is read: some events, none, or an error that ends the loop.
DaqRead ==
  /\ pc = "read" /\ prog = "DAQ"
  /\ \/ /\ left' \in 0 .. MaxBatch
        /\ pc' = IF left' = 0 THEN "check" ELSE "event"
        /\ UNCHANGED adcError
     \/ /\ "device" \in Faults
        /\ adcError' = TRUE
        /\ pc' = "final"
        /\ UNCHANGED left
  /\ UNCHANGED <<fixed, clock, times, books, tooMany, told>>

\* One event of the buffer: written, rejected by create_pevent, or an error.
DaqEvent ==
  /\ pc = "event" /\ prog = "DAQ"
  /\ \/ /\ seen < MaxSeen
        /\ \E s \in EvSizes : WriteEvent(s)
        /\ left' = left - 1
        /\ pc' = IF left = 1 THEN "check" ELSE "event"
        /\ UNCHANGED adcError
     \/ /\ left' = left - 1
        /\ pc' = IF left = 1 THEN "check" ELSE "event"
        /\ UNCHANGED <<books, adcError>>
     \/ /\ "device" \in Faults
        /\ adcError' = TRUE
        /\ pc' = "final"
        /\ UNCHANGED <<books, left>>
  /\ UNCHANGED <<fixed, clock, times, tooMany, told>>

DaqCheck == Check("DAQ")
DaqReopen == Reopen("DAQ", TRUE)
DaqClose == Close("DAQ", clock, TRUE)

-----------------------------------------------------------------------------
(* PadmeDAQ in FAKE mode: one made-up event for each pass of the loop.     *)

FakeOpen == pc = "start" /\ Start("FAKE", clock, TRUE)

FakeEvent ==
  /\ pc = "read" /\ prog = "FAKE"
  /\ IF seen < MaxSeen THEN \E s \in EvSizes : WriteEvent(s) ELSE UNCHANGED books
  /\ pc' = "check"
  /\ UNCHANGED <<fixed, clock, times, left, flags, told>>

FakeCheck == Check("FAKE")
\* Neither the heads of later files nor the last tail are counted.
FakeReopen == Reopen("FAKE", FALSE)
FakeClose == Close("FAKE", clock, FALSE)

-----------------------------------------------------------------------------
(* PadmeDAQ in ZSUP mode.                                                  *)

\* The first file is created before the input stream is opened, named after
\* t_daqstart, which has no value yet: the name is that of any time.
ZsupCreate ==
  /\ pc = "start" /\ prog = "ZSUP"
  /\ \E name \in 0 .. MaxClock + 1 : disk' = [disk EXCEPT ![0] = Opened(name, 0)]
  /\ pc' = "head"
  /\ UNCHANGED <<fixed, clock, times, left, fileIndex, report, total, flags, seen, told>>

\* The head of the input stream has come and the head of the file is written.
ZsupOpen == pc = "head" /\ Start("ZSUP", disk[0].name, TRUE)

\* The stream does not start as it should.
ZsupBadHead ==
  /\ pc = "head" /\ "device" \in Faults
  /\ pc' = "failed"
  /\ UNCHANGED <<fixed, clock, times, left, books, flags, told>>

\* The next record of the stream: an event, the tail, or an unusable one.
ZsupRead ==
  /\ pc = "read" /\ prog = "ZSUP"
  /\ \/ /\ ~eos /\ seen < MaxSeen
        /\ \E s \in EvSizes : WriteEvent(s)
        /\ pc' = "check"
     \/ /\ eos
        /\ pc' = "final"
        /\ UNCHANGED books
     \/ /\ "device" \in Faults
        /\ pc' = "failed"
        /\ UNCHANGED books
  /\ UNCHANGED <<fixed, clock, times, left, flags, told>>

ZsupCheck == Check("ZSUP")
ZsupReopen == Reopen("ZSUP", TRUE)
ZsupClose == Close("ZSUP", clock, TRUE)

-----------------------------------------------------------------------------
(* PadmeTrig.                                                              *)

TrigOpen == pc = "start" /\ Start("TRIG", clock, TRUE)

\* A packet of triggers; a failed read ends the program on the spot.
TrigRead ==
  /\ pc = "read" /\ prog = "TRIG"
  /\ \/ /\ left' \in 0 .. MaxBatch
        /\ pc' = IF left' = 0 THEN "check" ELSE "event"
     \/ /\ "device" \in Faults
        /\ pc' = "failed"
        /\ UNCHANGED left
  /\ UNCHANGED <<fixed, clock, times, books, flags, told>>

\* Each trigger becomes an event of fixed size.
TrigEvent ==
  /\ pc = "event" /\ prog = "TRIG"
  /\ IF seen < MaxSeen
     THEN WriteEvent(TrigSize)
     ELSE UNCHANGED books
  /\ left' = left - 1
  /\ pc' = IF left = 1 THEN "check" ELSE "event"
  /\ UNCHANGED <<fixed, clock, times, flags, told>>

TrigCheck == Check("TRIG")
TrigReopen == Reopen("TRIG", TRUE)
\* The closing time is that of the last check.
TrigClose == Close("TRIG", now, TRUE)

-----------------------------------------------------------------------------
(* The environment and the faults.                                         *)

Tick == /\ clock < MaxClock
        /\ clock' = clock + 1
        /\ UNCHANGED <<fixed, pc, times, left, books, flags, told>>

\* SIGTERM or SIGINT is noted by the handler; PadmeTrig has none.
Signal == /\ pc \notin Ended /\ prog # "TRIG" /\ ~break
          /\ break' = TRUE
          /\ UNCHANGED <<fixed, pc, clock, times, left, books, flags, quit, eos>>

QuitFile == /\ ~quit /\ prog # "ZSUP"
            /\ quit' = TRUE
            /\ UNCHANGED <<fixed, pc, clock, times, left, books, flags, break, eos>>

StreamTail == /\ prog = "ZSUP" /\ ~eos
              /\ eos' = TRUE
              /\ UNCHANGED <<fixed, pc, clock, times, left, books, flags, break, quit>>

\* A write that fails ends the program without a tail.
WriteFails == /\ "write" \in Faults /\ pc \in {"head", "event", "check", "final"}
              /\ pc' = "failed"
              /\ UNCHANGED <<fixed, clock, times, left, books, flags, told>>

\* The next file is created and its head cannot be written.
HeadFails == /\ "write" \in Faults /\ pc = "open"
             /\ fileIndex < MaxFiles /\ NameFree(now)
             /\ disk' = [disk EXCEPT ![fileIndex] = Opened(now, 0)]
             /\ pc' = "failed"
             /\ UNCHANGED <<fixed, clock, times, left, fileIndex, report, total, flags, seen, told>>

\* The run control kills the process.
Killed == /\ "kill" \in Faults /\ pc \notin Ended
          /\ pc' = "killed"
          /\ UNCHANGED <<fixed, clock, times, left, books, flags, told>>

Init ==
  /\ prog \in Programs /\ mode \in {"FILE", "STREAM"}
  /\ pc = "start"
  /\ clock = 0 /\ now = 0 /\ start = 0
  /\ left = 0 /\ fileIndex = 0
  /\ report = [f \in Files |-> NoReport]
  /\ total = [size |-> 0, events |-> 0]
  /\ tooMany = FALSE /\ adcError = FALSE
  /\ disk = [f \in Files |-> Absent]
  /\ seen = 0
  /\ break = FALSE /\ quit = FALSE /\ eos = FALSE

DaqStep == DaqOpen \/ DaqRead \/ DaqEvent \/ DaqCheck \/ DaqReopen \/ DaqClose
FakeStep == FakeOpen \/ FakeEvent \/ FakeCheck \/ FakeReopen \/ FakeClose
ZsupStep == ZsupCreate \/ ZsupOpen \/ ZsupBadHead \/ ZsupRead \/ ZsupCheck
              \/ ZsupReopen \/ ZsupClose
TrigStep == TrigOpen \/ TrigRead \/ TrigEvent \/ TrigCheck \/ TrigReopen \/ TrigClose
ProgramStep == DaqStep \/ FakeStep \/ ZsupStep \/ TrigStep
Environment == Tick \/ Signal \/ QuitFile \/ StreamTail
                 \/ WriteFails \/ HeadFails \/ Killed

Next == ProgramStep \/ Environment

Spec == Init /\ [][Next]_vars
\* A program takes its steps: reads return and writes do not block for ever.
FairSpec == Spec /\ WF_vars(ProgramStep)

-----------------------------------------------------------------------------
(* Properties.                                                             *)

Unsealed == {f \in Files : disk[f].st = "open"}

\* A closed file tells the truth about itself: its tail and the program's
\* report agree with what is in it.  Files are closed in order, only the last
\* one may be without a tail, and none is when the program ends well
\* (DAQ.c:1033-1063, 1135-1172; PadmeTrig.c and ZSUP.c likewise).
ClosedFilesTell ==
  /\ \A f \in Files : disk[f].st = "sealed" =>
       /\ disk[f].n = Len(disk[f].evs) /\ disk[f].tail = disk[f].size
       /\ report[f].events = disk[f].n /\ report[f].size = disk[f].size
  /\ \A f \in Files : disk[f].st = "sealed" <=> f < fileIndex
  /\ Unsealed \subseteq {fileIndex}
  /\ pc = "done" => Unsealed = {}

SizeOnDisk == FoldFunctionOnSet(LAMBDA f, n : f.size + n, 0, disk, Files)
EventsOnDisk == FoldFunctionOnSet(LAMBDA f, n : Len(f.evs) + n, 0, disk, Files)
Created == {f \in Files : disk[f].st # "absent"}

\* The bytes a program does not count: DAQ the head of its first file, FAKE
\* the heads of the later ones and the tail of the last.
Uncounted ==
  CASE prog = "DAQ" -> IF disk[0].size > 0 THEN HeadSize ELSE 0
    [] prog = "FAKE" ->
         HeadSize * Cardinality(Created \ {0}) + (IF pc = "done" /\ ~tooMany THEN TailSize ELSE 0)
    [] OTHER -> 0

\* The totals reported to the database at the end agree with the files, up to
\* the bytes that are not counted, through every rotation (DAQ.c:812-819,
\* 1045, 1097, 1149, 1209; FAKE.c:182, 236, 277, 326).
TotalsTell ==
  /\ total.events = EventsOnDisk
  /\ pc # "failed" => total.size + Uncounted = SizeOnDisk

Chunk == IF prog \in {"DAQ", "TRIG"} THEN MaxBatch ELSE 1

\* Files follow each other without a gap, the next one bearing the time at
\* which the last one was closed, and none is overfilled by more than what was
\* read at once (DAQ.c:1020-1034, 1068-1080).
FilesJoin ==
  /\ \A f \in Files \ {0} : report[f].size > 0 =>
       /\ report[f - 1].tClose = report[f].tOpen
       /\ disk[f].name = report[f].tOpen
  /\ mode = "FILE" /\ MaxEvents > 0 =>
       \A f \in Files : Len(disk[f].evs) < MaxEvents + Chunk

\* A rotation is refused for its name only if the file just closed was opened
\* within the same second, or ZSUP had named its first file after that second
\* before it knew the time (Tools.c:133-140, DAQ.c:1075-1079, ZSUP.c:120).
OnlyHasteFails ==
  [][pc = "open" /\ pc' = "failed" /\ disk' = disk
       => \/ report[fileIndex - 1].tOpen = now
          \/ prog = "ZSUP" /\ disk[0].name = now]_vars

Segments == IF fileIndex < MaxFiles /\ disk[fileIndex].st # "absent"
            THEN fileIndex + 1 ELSE fileIndex

Segs == [i \in 1 .. Segments |-> [events |-> disk[i - 1].evs,
                                 sealed |-> disk[i - 1].st = "sealed"]]

Log == INSTANCE SegmentedLog WITH segs <- Segs, next <- seen + 1

\* Whatever the program, the limits and the faults, the files are a segmented
\* log of the accepted events: none lost, repeated or reordered by a rotation,
\* and no closed file touched again (DAQ.c:982-1105).
WritesLog == Log!Spec

\* A program that was told to stop ends (DAQ.c:1109-1116, FAKE.c:290-296,
\* ZSUP.c:248-290, PadmeTrig.c:936-941).
StopsWhenTold ==
  /\ prog # "ZSUP" /\ quit ~> pc \in Ended
  /\ prog \in {"DAQ", "FAKE"} /\ break ~> pc \in Ended
  /\ prog = "ZSUP" /\ eos ~> pc \in Ended
=============================================================================

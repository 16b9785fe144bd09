------------------------ MODULE OutputFiles_proofs ------------------------
(***************************************************************************)
(* Proofs about OutputFiles, for any limits, sizes, faults and number of   *)
(* files.                                                                  *)
(***************************************************************************)
EXTENDS OutputFiles, SequenceTheorems, FiniteSetTheorems, WellFoundedInduction, TLAPS

FileType == [st : {"absent", "open", "sealed"}, name : Int, evs : Seq(Int),
             size : Int, n : Int, tail : Int]
ReportType == [size : Int, events : Int, tOpen : Int, tClose : Int]
Points == Ended \cup {"start", "head", "read", "event", "check", "open", "final"}

FilesTypeOK ==
  /\ pc \in Points /\ tooMany \in BOOLEAN
  /\ {clock, now, seen} \subseteq Int
  /\ fileIndex \in 0..MaxFiles
  /\ report \in [Files -> ReportType]
  /\ disk \in [Files -> FileType]

(* A sealed file agrees with its tail and with the report.                 *)
Tells(f) ==
  /\ disk[f].n = Len(disk[f].evs) /\ disk[f].tail = disk[f].size
  /\ report[f].events = disk[f].n /\ report[f].size = disk[f].size

(* The file being written agrees with the report.                          *)
Writing ==
  /\ fileIndex \in Files /\ disk[fileIndex].st = "open"
  /\ report[fileIndex].events = Len(disk[fileIndex].evs)
  /\ report[fileIndex].size = disk[fileIndex].size

(***************************************************************************)
(* ClosedFilesTell is not inductive: that a file tells the truth when it   *)
(* is closed takes that it did so while it was written, and that a file is *)
(* open exactly where the program takes one to be.                         *)
(***************************************************************************)
FilesInv ==
  /\ \A f \in Files : disk[f].st = "sealed" => Tells(f)
  /\ \A f \in Files : disk[f].st = "sealed" <=> f < fileIndex
  /\ \A f \in Files : f > fileIndex => disk[f].st = "absent"
  /\ tooMany => pc \in Ended \cup {"final"}
  /\ pc \in {"read", "event", "check"} \/ (pc = "final" /\ ~tooMany) => Writing
  /\ pc \in {"start", "head"} => fileIndex = 0
  /\ pc = "head" => disk[0].st = "open" /\ disk[0].evs = <<>>
  /\ pc \in {"start", "open", "done"} \/ (pc = "final" /\ tooMany)
       => \A f \in Files : f >= fileIndex => disk[f].st = "absent"

Inv == FilesTypeOK /\ FilesInv

LEMMA ZeroIsFile == 0 \in Files /\ Files \subseteq Int /\ \A f \in Files : f >= 0 /\ f < MaxFiles
  BY OutputConstants DEF Files

LEMMA FilesInit == Init => Inv
  BY ZeroIsFile, OutputConstants
     DEF Init, Inv, FilesTypeOK, FilesInv, Points, ReportType, FileType, NoReport, Absent, Ended

-----------------------------------------------------------------------------
(* What the parts of a step do to the files. *)

LEMMA NewFile ==
  ASSUME NEW name \in Int, NEW size \in Int
  PROVE  /\ Opened(name, size) \in FileType
         /\ Opened(name, size).st = "open" /\ Opened(name, size).evs = <<>>
         /\ Opened(name, size).size = size
<1>1. Absent \in FileType /\ Absent.evs = <<>>
  BY DEF Absent, FileType
<1>2. QED
  BY <1>1 DEF Opened, FileType

LEMMA NewEvents ==
  ASSUME NEW d \in FileType, NEW e \in Seq(Int), NEW s \in Int
  PROVE  [d EXCEPT !.evs = e, !.size = s] \in FileType
  BY DEF FileType

LEMMA NewTail ==
  ASSUME NEW d \in FileType, NEW s \in Int, NEW n \in Int, NEW t \in Int
  PROVE  [d EXCEPT !.st = "sealed", !.size = s, !.n = n, !.tail = t] \in FileType
  BY DEF FileType

LEMMA NewReport ==
  ASSUME NEW r \in ReportType, NEW s \in Int, NEW x \in Int
  PROVE  /\ [r EXCEPT !.size = s, !.events = x] \in ReportType
         /\ [r EXCEPT !.size = s, !.tClose = x] \in ReportType
  BY DEF ReportType

(* A file is opened: the first, or the next after a closed one.            *)
LEMMA Opens ==
  ASSUME Inv, NEW name \in Int, NEW t \in Int, fileIndex \in Files,
         disk[fileIndex].st # "sealed",
         OpenFile(fileIndex, name, t), UNCHANGED fileIndex
  PROVE  /\ disk' \in [Files -> FileType] /\ report' \in [Files -> ReportType]
         /\ \A f \in Files \ {fileIndex} : disk'[f] = disk[f] /\ report'[f] = report[f]
         /\ disk'[fileIndex].evs = <<>>
         /\ Writing'
<1> USE DEF Inv, FilesTypeOK
<1>1. HeadSize \in Int /\ MaxFiles \in Int
  BY OutputConstants
<1>2. /\ Opened(name, HeadSize) \in FileType
      /\ Opened(name, HeadSize).st = "open" /\ Opened(name, HeadSize).evs = <<>>
      /\ Opened(name, HeadSize).size = HeadSize
  BY <1>1, NewFile
<1> DEFINE r == [NoReport EXCEPT !.size = HeadSize, !.tOpen = t]
<1>3. r \in ReportType /\ r.size = HeadSize /\ r.events = 0
  <2>1. NoReport \in ReportType /\ NoReport.events = 0
    BY DEF NoReport, ReportType
  <2>2. QED
    BY <1>1, <2>1 DEF ReportType
<1>4. disk' = [disk EXCEPT ![fileIndex] = Opened(name, HeadSize)] /\ report' = [report EXCEPT ![fileIndex] = r]
  BY DEF OpenFile
<1> HIDE DEF r
<1>5. QED
  BY <1>2, <1>3, <1>4 DEF Writing

(* An event is written to the open file.                                   *)
LEMMA Writes ==
  ASSUME Inv, Writing, NEW s \in Int, WriteEvent(s)
  PROVE  /\ disk' \in [Files -> FileType] /\ report' \in [Files -> ReportType]
         /\ seen' = seen + 1 /\ seen' \in Int /\ fileIndex' = fileIndex
         /\ \A f \in Files \ {fileIndex} : disk'[f] = disk[f] /\ report'[f] = report[f]
         /\ disk'[fileIndex].evs = Append(disk[fileIndex].evs, seen + 1)
         /\ Writing'
<1> USE DEF Inv, FilesTypeOK
<1> DEFINE d == disk[fileIndex]
           r == report[fileIndex]
           d2 == [d EXCEPT !.evs = Append(@, seen + 1), !.size = @ + s]
           r2 == [r EXCEPT !.size = @ + s, !.events = @ + 1]
<1>1. d \in FileType /\ r \in ReportType /\ fileIndex \in Files /\ seen \in Int
  BY DEF Writing
<1>2. /\ d2 \in FileType /\ d2.st = d.st /\ d2.evs = Append(d.evs, seen + 1)
      /\ d2.size = d.size + s /\ Len(d2.evs) = Len(d.evs) + 1
  <2>1. d.evs \in Seq(Int) /\ d.size + s \in Int
    BY <1>1 DEF FileType
  <2>2. Append(d.evs, seen + 1) \in Seq(Int) /\ Len(Append(d.evs, seen + 1)) = Len(d.evs) + 1
    BY <1>1, <2>1
  <2>3. d2 \in FileType
    BY <1>1, <2>1, <2>2, NewEvents
  <2>4. d2.st = d.st /\ d2.evs = Append(d.evs, seen + 1) /\ d2.size = d.size + s
    BY <1>1 DEF FileType
  <2>5. QED
    BY <2>2, <2>3, <2>4
<1>3. r2 \in ReportType /\ r2.size = r.size + s /\ r2.events = r.events + 1
  <2>1. r.size + s \in Int /\ r.events + 1 \in Int
    BY <1>1 DEF ReportType
  <2>2. r2 \in ReportType
    BY <1>1, <2>1, NewReport
  <2>3. QED
    BY <1>1, <2>2 DEF ReportType
<1>4. disk' = [disk EXCEPT ![fileIndex] = d2] /\ report' = [report EXCEPT ![fileIndex] = r2]
  BY DEF WriteEvent
<1>5. r.events = Len(d.evs) /\ r.size = d.size /\ d.st = "open"
  BY DEF Writing
<1>6. seen' = seen + 1 /\ seen' \in Int /\ fileIndex' = fileIndex
  BY <1>1 DEF WriteEvent
<1> HIDE DEF d2, r2
<1>7. disk'[fileIndex] = d2 /\ report'[fileIndex] = r2
  BY <1>1, <1>4
<1>8. Writing'
  BY <1>1, <1>2, <1>3, <1>5, <1>6, <1>7 DEF Writing
<1>9. QED
  BY <1>1, <1>2, <1>3, <1>4, <1>6, <1>7, <1>8

(* The open file gets its tail.                                            *)
LEMMA Seals ==
  ASSUME Inv, Writing, NEW i \in Files, fileIndex = i, NEW t \in Int, SealFile(t)
  PROVE  /\ disk' \in [Files -> FileType] /\ report' \in [Files -> ReportType]
         /\ fileIndex' = i + 1 /\ fileIndex' \in 0..MaxFiles
         /\ \A f \in Files \ {i} : disk'[f] = disk[f] /\ report'[f] = report[f]
         /\ disk'[i].st = "sealed" /\ disk'[i].evs = disk[i].evs
         /\ Tells(i)'
<1> USE DEF Inv, FilesTypeOK
<1> DEFINE d == disk[i]
           r == report[i]
           d2 == [d EXCEPT !.st = "sealed", !.size = @ + TailSize,
                           !.n = r.events, !.tail = r.size + TailSize]
           r2 == [r EXCEPT !.size = @ + TailSize, !.tClose = t]
<1>0. TailSize \in Int /\ MaxFiles \in Nat
  BY OutputConstants
<1>1. d \in FileType /\ r \in ReportType
  OBVIOUS
<1>2. /\ d2 \in FileType /\ d2.st = "sealed" /\ d2.evs = d.evs
      /\ d2.size = d.size + TailSize /\ d2.n = r.events /\ d2.tail = r.size + TailSize
  <2>1. d.size + TailSize \in Int /\ r.events \in Int /\ r.size + TailSize \in Int
    BY <1>0, <1>1 DEF FileType, ReportType
  <2>2. d2 \in FileType
    BY <1>1, <2>1, NewTail
  <2>3. QED
    BY <1>1, <2>2 DEF FileType
<1>3. r2 \in ReportType /\ r2.size = r.size + TailSize /\ r2.events = r.events
  <2>1. r.size + TailSize \in Int
    BY <1>0, <1>1 DEF ReportType
  <2>2. r2 \in ReportType
    BY <1>1, <2>1, NewReport
  <2>3. QED
    BY <1>1, <2>2 DEF ReportType
<1>4. disk' = [disk EXCEPT ![i] = d2] /\ report' = [report EXCEPT ![i] = r2] /\ fileIndex' = i + 1
  BY DEF SealFile
<1>5. r.events = Len(d.evs) /\ r.size = d.size
  BY DEF Writing
<1> HIDE DEF d2, r2
<1>6. disk'[i] = d2 /\ report'[i] = r2
  BY <1>4
<1>7. Tells(i)'
  BY <1>2, <1>3, <1>5, <1>6 DEF Tells
<1>8. i + 1 \in 0..MaxFiles
  BY <1>0 DEF Files
<1>9. QED
  BY <1>2, <1>3, <1>4, <1>6, <1>7, <1>8

-----------------------------------------------------------------------------
(* The steps. *)

(* A step that leaves the files alone and goes where they may be as they   *)
(* are.                                                                    *)
LEMMA FilesKept ==
  ASSUME Inv, UNCHANGED <<fileIndex, report, disk, seen>>,
         pc' \in Points, {clock', now'} \subseteq Int, tooMany' \in BOOLEAN,
         tooMany' => pc' \in Ended \cup {"final"},
         pc' \in {"read", "event", "check"} \/ (pc' = "final" /\ ~tooMany') => Writing,
         pc' \in {"start", "head"} => pc' = pc,
         pc' \in {"open", "done"} \/ (pc' = "final" /\ tooMany')
           => \A f \in Files : f >= fileIndex => disk[f].st = "absent"
  PROVE  Inv'
<1>1. FilesTypeOK'
  BY DEF Inv, FilesTypeOK
<1>2. Writing => Writing'
  BY DEF Writing
<1>3. \A f \in Files : Tells(f) => Tells(f)'
  BY DEF Tells
<1>4. FilesInv'
  BY <1>2, <1>3 DEF Inv, FilesInv
<1>5. QED
  BY <1>1, <1>4 DEF Inv

(* A step that opens file i, whatever becomes of the program then.         *)
LEMMA FileOpened ==
  ASSUME Inv, NEW i \in Files, fileIndex = i, UNCHANGED <<fileIndex, seen>>,
         disk[i].st # "sealed",
         \A f \in Files : f > i => disk[f].st = "absent",
         disk' \in [Files -> FileType], report' \in [Files -> ReportType],
         \A f \in Files \ {i} : disk'[f] = disk[f] /\ report'[f] = report[f],
         disk'[i].st = "open",
         pc' \in Points, {clock', now'} \subseteq Int, ~tooMany', tooMany' \in BOOLEAN,
         pc' \in {"read", "final"} => Writing',
         pc' \in {"read", "final", "failed", "killed"} \/ (pc' = "head" /\ i = 0 /\ disk'[0].evs = <<>>)
  PROVE  Inv'
<1>1. FilesTypeOK'
  BY DEF Inv, FilesTypeOK
<1>2. \A f \in Files \ {i} : Tells(f) => Tells(f)'
  BY DEF Tells
<1>3. FilesInv'
  BY <1>2, ZeroIsFile DEF Inv, FilesInv, FilesTypeOK, Ended
<1>4. QED
  BY <1>1, <1>3 DEF Inv

LEMMA CheckStep ==
  ASSUME Inv, NEW p, Check(p)
  PROVE  Inv'
<1>0. Writing /\ ~tooMany /\ fileIndex \in Files /\ pc = "check" /\ clock \in Int
  BY DEF Check, Inv, FilesTypeOK, FilesInv, Writing, Ended
<1>1. CASE ~Full(clock)
  BY <1>0, <1>1, FilesKept DEF Check, flags, Points, Inv, FilesTypeOK
<1>2. CASE Full(clock)
  <2> DEFINE i == fileIndex
  <2>1. /\ SealFile(clock) /\ pc' = "open"
        /\ UNCHANGED <<clock, seen, tooMany>> /\ now' = clock
    BY <1>2 DEF Check, flags
  <2>2. /\ disk' \in [Files -> FileType] /\ report' \in [Files -> ReportType]
        /\ fileIndex' = fileIndex + 1 /\ fileIndex' \in 0..MaxFiles
        /\ \A f \in Files \ {fileIndex} : disk'[f] = disk[f] /\ report'[f] = report[f]
        /\ \A j \in Files : j = fileIndex => Tells(j)' /\ disk'[j].st = "sealed"
    BY <1>0, <2>1, Seals
  <2>3. FilesTypeOK'
    BY <2>1, <2>2 DEF Inv, FilesTypeOK, Points
  <2>4. \A f \in Files \ {fileIndex} : Tells(f) => Tells(f)'
    BY <2>2 DEF Tells
  <2>5. FilesInv'
    BY <1>0, <2>1, <2>2, <2>4, ZeroIsFile DEF Inv, FilesInv, Ended
  <2>6. QED
    BY <2>3, <2>5 DEF Inv
<1>3. QED
  BY <1>1, <1>2

LEMMA ReopenStep ==
  ASSUME Inv, NEW p, NEW counted, Reopen(p, counted)
  PROVE  Inv'
<1>0. /\ pc = "open" /\ ~tooMany /\ tooMany \in BOOLEAN /\ fileIndex \in 0..MaxFiles /\ {clock, now, seen} \subseteq Int
      /\ \A f \in Files : f >= fileIndex => disk[f].st = "absent"
      /\ UNCHANGED <<clock, now, fileIndex, seen>>
  BY DEF Reopen, Inv, FilesTypeOK, FilesInv, Ended, times
<1>1. CASE fileIndex < MaxFiles /\ NameFree(now)
  <2>1. fileIndex \in Files /\ disk[fileIndex].st = "absent"
    BY <1>0, <1>1, OutputConstants DEF Files
  <2>2. /\ OpenFile(fileIndex, now, now) /\ ~tooMany' /\ tooMany' \in BOOLEAN
        /\ pc' \in {"final", "read"}
    <3>1. OpenFile(fileIndex, now, now) /\ UNCHANGED tooMany
      BY <1>1 DEF Reopen
    <3>2. pc' \in {"final", "read"}
      BY <1>1 DEF Reopen
    <3>3. QED
      BY <1>0, <3>1, <3>2
  <2>3. QED
    BY <1>0, <2>1, <2>2, Opens, FileOpened DEF Points, Writing
<1>2. CASE ~(fileIndex < MaxFiles /\ NameFree(now))
  BY <1>0, <1>2, FilesKept DEF Reopen, Points, Ended, Inv, FilesTypeOK
<1>3. QED
  BY <1>1, <1>2

LEMMA CloseStep ==
  ASSUME Inv, NEW p, NEW t \in Int, NEW counted, Close(p, t, counted)
  PROVE  Inv'
<1>0. /\ pc = "final" /\ clock \in Int /\ tooMany \in BOOLEAN /\ seen \in Int
      /\ UNCHANGED <<clock, seen, tooMany>> /\ now' = t /\ pc' \in {"done", "failed"}
  BY DEF Close, Inv, FilesTypeOK, flags
<1>1. CASE tooMany
  <2>1. UNCHANGED <<fileIndex, disk, report>>
    BY <1>1 DEF Close
  <2>2. \A f \in Files : f >= fileIndex => disk[f].st = "absent"
    BY <1>0, <1>1 DEF Inv, FilesInv
  <2>3. QED
    BY <1>0, <1>1, <2>1, <2>2, FilesKept DEF Points, Ended
<1>2. CASE ~tooMany
  <2>0. Writing /\ SealFile(t)
    BY <1>0, <1>2 DEF Close, Inv, FilesInv
  <2>2. /\ disk' \in [Files -> FileType] /\ report' \in [Files -> ReportType]
        /\ fileIndex' = fileIndex + 1 /\ fileIndex' \in 0..MaxFiles
        /\ \A f \in Files \ {fileIndex} : disk'[f] = disk[f] /\ report'[f] = report[f]
        /\ \A j \in Files : j = fileIndex => Tells(j)' /\ disk'[j].st = "sealed"
    BY <2>0, Seals DEF Writing
  <2>3. FilesTypeOK'
    BY <1>0, <2>2 DEF FilesTypeOK, Points, Ended
  <2>4. \A f \in Files \ {fileIndex} : Tells(f) => Tells(f)'
    BY <2>2 DEF Tells
  <2>5. FilesInv'
    BY <1>0, <1>2, <2>0, <2>2, <2>4, ZeroIsFile DEF Inv, FilesInv, FilesTypeOK, Writing, Ended
  <2>6. QED
    BY <2>3, <2>5 DEF Inv
<1>3. QED
  BY <1>1, <1>2

LEMMA StartStep ==
  ASSUME Inv, NEW p, NEW name \in Int, NEW counted, Start(p, name, counted),
         pc \in {"start", "head"}
  PROVE  Inv'
<1>0. /\ OpenFile(0, name, clock) /\ pc' = "read"
      /\ UNCHANGED <<clock, now, fileIndex, seen, tooMany>>
  BY DEF Start, flags
<1>1. /\ fileIndex = 0 /\ 0 \in Files /\ {clock, now} \subseteq Int /\ disk[0].st # "sealed"
      /\ \A f \in Files : f > 0 => disk[f].st = "absent"
      /\ ~tooMany /\ tooMany \in BOOLEAN
  BY ZeroIsFile DEF Inv, FilesTypeOK, FilesInv, Ended
<1>2. /\ disk' \in [Files -> FileType] /\ report' \in [Files -> ReportType]
      /\ \A f \in Files \ {0} : disk'[f] = disk[f] /\ report'[f] = report[f]
      /\ Writing'
  BY <1>0, <1>1, Opens
<1>3. disk'[0].st = "open"
  BY <1>0, <1>1, <1>2 DEF Writing
<1>4. QED
  BY <1>0, <1>1, <1>2, <1>3, FileOpened DEF Points

LEMMA WriteStep ==
  ASSUME Inv, pc \in {"read", "event"}, NEW s \in Int, WriteEvent(s),
         UNCHANGED <<clock, now, tooMany>>, pc' \in {"read", "event", "check"}
  PROVE  Inv'
<1>0. Writing /\ ~tooMany /\ fileIndex \in Files /\ clock \in Int /\ now \in Int
  BY DEF Inv, FilesTypeOK, FilesInv, Writing, Ended
<1>1. /\ disk' \in [Files -> FileType] /\ report' \in [Files -> ReportType]
      /\ seen' \in Int /\ fileIndex' = fileIndex
      /\ \A f \in Files \ {fileIndex} : disk'[f] = disk[f] /\ report'[f] = report[f]
      /\ Writing'
  BY <1>0, Writes
<1>2. FilesTypeOK'
  BY <1>0, <1>1 DEF Inv, FilesTypeOK, Points
<1>3. \A f \in Files \ {fileIndex} : Tells(f) => Tells(f)'
  BY <1>1 DEF Tells
<1>4. FilesInv'
  BY <1>0, <1>1, <1>3, ZeroIsFile DEF Inv, FilesInv, Ended, Writing
<1>5. QED
  BY <1>2, <1>4 DEF Inv

LEMMA WrittenSizes == EvSizes \subseteq Int /\ TrigSize \in Int
  BY OutputConstants

LEMMA NextStep == Inv /\ [Next]_vars => Inv'
<1> SUFFICES ASSUME Inv, [Next]_vars PROVE Inv'
  OBVIOUS
<1>0. /\ pc \in Points /\ {clock, now, seen} \subseteq Int /\ tooMany \in BOOLEAN
      /\ pc \in {"read", "event", "check"} => Writing /\ ~tooMany
      /\ pc = "final" /\ ~tooMany => Writing
      /\ pc \in {"start", "open", "done"} \/ (pc = "final" /\ tooMany)
           => \A f \in Files : f >= fileIndex => disk[f].st = "absent"
      /\ tooMany => pc \in Ended \cup {"final"}
  BY DEF Inv, FilesTypeOK, FilesInv, Ended
<1> USE DEF books, flags, times
<1>1. CASE DaqRead \/ TrigRead
  BY <1>0, <1>1, FilesKept DEF DaqRead, TrigRead, Points, Ended
<1>2. CASE DaqEvent
  <2>1. CASE UNCHANGED books
    BY <1>0, <1>2, <2>1, FilesKept DEF DaqEvent, Points, Ended
  <2>2. CASE \E s \in EvSizes : WriteEvent(s) /\ pc' \in {"event", "check"}
    BY <1>2, <2>2, WriteStep, WrittenSizes DEF DaqEvent
  <2>3. QED
    BY <1>2, <2>1, <2>2 DEF DaqEvent
<1>3. CASE FakeEvent \/ ZsupRead \/ TrigEvent
  <2>1. CASE UNCHANGED books
    BY <1>0, <1>3, <2>1, FilesKept DEF FakeEvent, ZsupRead, TrigEvent, Points, Ended
  <2>2. CASE \E s \in EvSizes \cup {TrigSize} : WriteEvent(s) /\ pc' \in {"event", "check"}
    BY <1>3, <2>2, WriteStep, WrittenSizes DEF FakeEvent, ZsupRead, TrigEvent
  <2>3. QED
    BY <1>3, <2>1, <2>2 DEF FakeEvent, ZsupRead, TrigEvent
<1>4. CASE DaqCheck \/ FakeCheck \/ ZsupCheck \/ TrigCheck
  BY <1>4, CheckStep DEF DaqCheck, FakeCheck, ZsupCheck, TrigCheck
<1>5. CASE DaqReopen \/ FakeReopen \/ ZsupReopen \/ TrigReopen
  BY <1>5, ReopenStep DEF DaqReopen, FakeReopen, ZsupReopen, TrigReopen
<1>6. CASE DaqClose \/ FakeClose \/ ZsupClose \/ TrigClose
  BY <1>0, <1>6, CloseStep DEF DaqClose, FakeClose, ZsupClose, TrigClose
<1>7. CASE DaqOpen \/ FakeOpen \/ ZsupOpen \/ TrigOpen
  <2>1. disk[0].name \in Int
    BY ZeroIsFile DEF Inv, FilesTypeOK, FileType
  <2>2. QED
    BY <1>0, <1>7, <2>1, StartStep DEF DaqOpen, FakeOpen, ZsupOpen, TrigOpen
<1>8. CASE ZsupCreate
  <2>1. PICK name \in 0..MaxClock + 1 : disk' = [disk EXCEPT ![0] = Opened(name, 0)]
    BY <1>8 DEF ZsupCreate
  <2>2. /\ Opened(name, 0) \in FileType
        /\ Opened(name, 0).st = "open" /\ Opened(name, 0).evs = <<>>
    BY <2>1, NewFile, OutputConstants
  <2>3. /\ fileIndex = 0 /\ disk[0].st # "sealed" /\ ~tooMany
        /\ \A f \in Files : f > 0 => disk[f].st = "absent"
        /\ report \in [Files -> ReportType] /\ disk \in [Files -> FileType]
    BY <1>8, ZeroIsFile DEF ZsupCreate, Inv, FilesTypeOK, FilesInv, Ended
  <2>4. disk' \in [Files -> FileType] /\ disk'[0] = Opened(name, 0)
        /\ \A f \in Files \ {0} : disk'[f] = disk[f]
    BY <2>1, <2>2, <2>3, ZeroIsFile
  <2>5. QED
    BY <1>0, <1>8, <2>2, <2>3, <2>4, ZeroIsFile, FileOpened DEF ZsupCreate, Points
<1>9. CASE HeadFails
  <2>1. /\ fileIndex \in Files /\ disk[fileIndex].st = "absent" /\ ~tooMany
        /\ \A f \in Files : f > fileIndex => disk[f].st = "absent"
        /\ report \in [Files -> ReportType] /\ disk \in [Files -> FileType]
    BY <1>0, <1>9, OutputConstants DEF HeadFails, Inv, FilesTypeOK, Files, FilesInv, Ended
  <2>2. Opened(now, 0) \in FileType /\ Opened(now, 0).st = "open"
    BY <1>0, NewFile
  <2>3. /\ disk' \in [Files -> FileType] /\ disk'[fileIndex] = Opened(now, 0)
        /\ \A f \in Files \ {fileIndex} : disk'[f] = disk[f]
    BY <1>9, <2>1, <2>2 DEF HeadFails
  <2>4. QED
    BY <1>0, <1>9, <2>1, <2>2, <2>3, FileOpened DEF HeadFails, Points, Ended
<1>10. CASE ZsupBadHead \/ WriteFails \/ Killed
  BY <1>0, <1>10, FilesKept DEF ZsupBadHead, WriteFails, Killed, Points, Ended
<1>11. CASE Tick \/ Signal \/ QuitFile \/ StreamTail \/ UNCHANGED vars
  BY <1>0, <1>11, FilesKept DEF Tick, Signal, QuitFile, StreamTail, vars
<1>12. QED
  BY <1>1, <1>2, <1>3, <1>4, <1>5, <1>6, <1>7, <1>8, <1>9, <1>10, <1>11
     DEF Next, ProgramStep, Environment, DaqStep, FakeStep, ZsupStep, TrigStep

(* The files are as the program takes them to be, in every state.          *)
THEOREM FilesAsTaken == Spec => []Inv
  BY FilesInit, NextStep, PTL DEF Spec

(* ClosedFilesTell: a closed file agrees with its tail and the report,     *)
(* files are closed in order, only the last may be without a tail and none *)
(* is when the program ends well (DAQ.c:1033-1063, 1135-1172).             *)
THEOREM TailsTell == Spec => []ClosedFilesTell
<1>1. Inv => ClosedFilesTell
  <2> SUFFICES ASSUME Inv PROVE ClosedFilesTell
    OBVIOUS
  <2>1. \A f \in Files : disk[f].st = "open" => f = fileIndex
    BY ZeroIsFile DEF Inv, FilesTypeOK, FilesInv, FileType
  <2>2. pc = "done" => \A f \in Files : disk[f].st # "open"
    BY <2>1, ZeroIsFile DEF Inv, FilesTypeOK, FilesInv
  <2>3. \A f \in Files : disk[f].st = "sealed" => Tells(f)
    BY DEF Inv, FilesInv
  <2>4. \A f \in Files : disk[f].st = "sealed" <=> f < fileIndex
    BY DEF Inv, FilesInv
  <2>5. QED
    BY <2>1, <2>2, <2>3, <2>4 DEF ClosedFilesTell, Tells, Unsealed
<1>2. QED
  BY FilesAsTaken, <1>1, PTL

-----------------------------------------------------------------------------
(* The files are a segmented log. *)

SegType == [events : Seq(Int), sealed : BOOLEAN]
Seg(d, f) == [events |-> d[f].evs, sealed |-> d[f].st = "sealed"]

LEMMA SegIs ==
  ASSUME NEW d, NEW f
  PROVE  /\ Seg(d, f).events = d[f].evs
         /\ d[f].st # "sealed" => Seg(d, f) = [events |-> d[f].evs, sealed |-> FALSE]
         /\ d[f].st # "sealed" => ~Seg(d, f).sealed
         /\ d[f].st = "sealed" => Seg(d, f) = [events |-> d[f].evs, sealed |-> TRUE]
         /\ d[f].evs \in Seq(Int) => Seg(d, f) \in SegType
<1>1. CASE d[f].st = "sealed"
  BY <1>1 DEF Seg, SegType
<1>2. CASE d[f].st # "sealed"
  BY <1>2 DEF Seg, SegType
<1>3. QED
  BY <1>1, <1>2

LEMMA SegSame ==
  ASSUME NEW d, NEW e, NEW f, e[f].evs = d[f].evs, e[f].st = d[f].st
  PROVE  Seg(e, f) = Seg(d, f)
  BY DEF Seg

LEMMA GrowingSeg ==
  ASSUME NEW r \in SegType, NEW e \in Seq(Int), ~r.sealed
  PROVE  /\ [r EXCEPT !.events = e] = [events |-> e, sealed |-> FALSE]
         /\ [r EXCEPT !.sealed = TRUE] = [events |-> r.events, sealed |-> TRUE]
<1> DEFINE B == BOOLEAN
<1>1. r \in [events : Seq(Int), sealed : B] /\ TRUE \in B
  BY DEF SegType
<1>2. r.sealed = FALSE
  BY DEF SegType
<1> HIDE DEF B
<1>3. [r EXCEPT !.events = e] = [events |-> e, sealed |-> r.sealed]
  BY <1>1
<1>4. \A c \in B : [r EXCEPT !.sealed = c] = [events |-> r.events, sealed |-> c]
  BY <1>1
<1>5. QED
  BY <1>1, <1>2, <1>3, <1>4, Zenon

SegsFacts ==
  /\ Segments \in Nat /\ Segs \in Seq(SegType) /\ Len(Segs) = Segments
  /\ DOMAIN Segs = 1..Segments
  /\ \A k \in 1..Segments : k - 1 \in Files /\ Segs[k] = Seg(disk, k - 1)
  /\ Segments = fileIndex \/ (Segments = fileIndex + 1 /\ fileIndex \in Files)
  /\ fileIndex \in Nat

LEMMA SegsAre == Inv => SegsFacts
<1> SUFFICES ASSUME Inv PROVE SegsFacts
  OBVIOUS
<1>1. fileIndex \in 0..MaxFiles /\ MaxFiles \in Nat /\ disk \in [Files -> FileType]
  BY OutputConstants DEF Inv, FilesTypeOK
<1>2. /\ Segments \in Nat
      /\ Segments = fileIndex \/ (Segments = fileIndex + 1 /\ fileIndex \in Files)
  BY <1>1 DEF Segments, Files
<1>3. \A k \in 1..Segments : k - 1 \in Files
  BY <1>1, <1>2 DEF Files
<1>4. \A f \in Files : Seg(disk, f) \in SegType
  BY <1>1, SegIs DEF FileType
<1>5. Segs = [k \in 1..Segments |-> Seg(disk, k - 1)]
  BY DEF Segs, Seg
<1>6. QED
  BY <1>1, <1>2, <1>3, <1>4, <1>5 DEF SegsFacts

LEMMA SegsAreNext == Inv' => SegsFacts'
  BY SegsAre, PTL

(* The log goes on as long as the files are what they were.                *)
LEMMA SegsKept ==
  ASSUME Inv, Inv', UNCHANGED <<fileIndex, seen>>,
         \A f \in Files : disk'[f].st = disk[f].st /\ disk'[f].evs = disk[f].evs
  PROVE  UNCHANGED Log!vars
<1>1. Segments' = Segments
  BY OutputConstants DEF Segments, Files, Inv, FilesTypeOK
<1>2. \A k \in 1..Segments : Segs'[k] = Segs[k]
  BY <1>1, SegsAre, SegsAreNext, SegSame DEF SegsFacts
<1>3. Segs' = Segs
  BY <1>1, <1>2, SegsAre, SegsAreNext, SeqEqual DEF SegsFacts
<1>4. QED
  BY <1>3 DEF Log!vars

LEMMA LogBegins ==
  ASSUME Inv, Inv', NEW i \in Files, fileIndex = i, UNCHANGED <<fileIndex, seen>>,
         disk[i].st = "absent", disk'[i].st = "open", disk'[i].evs = <<>>,
         \A f \in Files \ {i} : disk'[f] = disk[f]
  PROVE  Log!Begin
<1> DEFINE new == [events |-> <<>>, sealed |-> FALSE]
<1>1. Segments = i /\ Segments' = i + 1 /\ i \in Nat
  BY ZeroIsFile DEF Segments, Files
<1>2. Segs' = Append(Segs, new)
  <2>1. new \in SegType /\ new = Seg(disk', i)
    BY SegIs DEF SegType
  <2> HIDE DEF new
  <2>2. /\ Append(Segs, new) \in Seq(SegType) /\ Len(Append(Segs, new)) = i + 1
        /\ \A k \in 1..i : Append(Segs, new)[k] = Segs[k]
        /\ Append(Segs, new)[i + 1] = new
    BY <1>1, <2>1, SegsAre, AppendProperties DEF SegsFacts
  <2>3. \A k \in 1..i : Segs'[k] = Segs[k]
    <3> SUFFICES ASSUME NEW k \in 1..i PROVE Segs'[k] = Segs[k]
      OBVIOUS
    <3>1. k \in 1..i + 1 /\ k - 1 # i
      BY <1>1
    <3>2. k - 1 \in Files /\ Segs[k] = Seg(disk, k - 1) /\ Segs'[k] = Seg(disk', k - 1)
      BY <1>1, <3>1, SegsAre, SegsAreNext DEF SegsFacts
    <3>3. QED
      BY <3>1, <3>2, SegSame
  <2>4. Segs'[i + 1] = new
    <3>1. i + 1 \in 1..Segments' /\ (i + 1) - 1 = i
      BY <1>1
    <3>2. QED
      BY <2>1, <3>1, SegsAreNext DEF SegsFacts
  <2>5. \A k \in 1..i + 1 : Segs'[k] = Append(Segs, new)[k]
    BY <1>1, <2>2, <2>3, <2>4
  <2>6. QED
    BY <1>1, <2>2, <2>5, SegsAreNext, SeqEqual DEF SegsFacts
<1>3. ~Log!Growing
  <2>1. CASE i = 0
    BY <1>1, <2>1, SegsAre, EmptySeq DEF Log!Growing, SegsFacts
  <2>2. CASE i > 0
    <3>1. i \in 1..Segments /\ i - 1 \in Files
      BY <1>1, <2>2, SegsAre DEF SegsFacts
    <3>2. disk[i - 1].st = "sealed" /\ Segs[i] = Seg(disk, i - 1) /\ Len(Segs) = i
      BY <1>1, <3>1, SegsAre DEF SegsFacts, Inv, FilesInv
    <3>3. LET last == Segs[Len(Segs)] IN last.sealed
      BY <3>2, SegIs
    <3>4. QED
      BY <3>3 DEF Log!Growing, Log!LastOf
  <2>3. QED
    BY <1>1, <2>1, <2>2
<1>4. QED
  BY <1>2, <1>3 DEF Log!Begin

(* The log grows where the program writes.                                 *)
Grows ==
  /\ Segments = fileIndex + 1 /\ Segments \in Nat /\ Log!Growing
  /\ Segs[Segments] = Seg(disk, fileIndex)
  /\ Seg(disk, fileIndex) = [events |-> disk[fileIndex].evs, sealed |-> FALSE]

LEMMA LogGrows == Inv /\ Writing => Grows
<1> SUFFICES ASSUME Inv, Writing PROVE Grows
  OBVIOUS
<1>1. Segments = fileIndex + 1 /\ fileIndex \in Nat
  BY ZeroIsFile DEF Segments, Writing, Files
<1>2. Seg(disk, fileIndex) = [events |-> disk[fileIndex].evs, sealed |-> FALSE]
  BY SegIs DEF Writing
<1>3. Segs[Segments] = Seg(disk, fileIndex) /\ Len(Segs) = Segments
  <2>1. Segments \in 1..Segments /\ Segments - 1 = fileIndex
    BY <1>1
  <2>2. QED
    BY <2>1, SegsAre DEF SegsFacts
<1>4. Log!Growing
  <2>1. Segs # <<>>
    BY <1>1, <1>3
  <2>2. QED
    BY <1>2, <1>3, <2>1 DEF Log!Growing, Log!LastOf
<1>5. QED
  BY <1>1, <1>2, <1>3, <1>4 DEF Grows

LEMMA LogGrowsNext == Inv' /\ Writing' => Grows'
  BY LogGrows, PTL

(* A change to the last file only is one to the last segment only.         *)
LEMMA LastSegment ==
  ASSUME Inv, Inv', Writing, NEW i \in Files, fileIndex = i, Segments' = Segments,
         \A f \in Files \ {i} : disk'[f] = disk[f]
  PROVE  Segs' = [Segs EXCEPT ![Len(Segs)] = Seg(disk', i)]
<1> DEFINE n == Segments
           new == [Segs EXCEPT ![n] = Seg(disk', i)]
<1>1. /\ n = i + 1 /\ n \in Nat /\ i \in Nat /\ Len(Segs) = n /\ Len(Segs') = n
      /\ Segs \in Seq(SegType) /\ Segs' \in Seq(SegType)
      /\ Segs \in [1..n -> SegType] /\ Segs' \in [1..n -> SegType]
  BY ZeroIsFile, LogGrows, SegsAre, SegsAreNext, LenProperties DEF Grows, SegsFacts
<1>2. \A k \in 1..n : k - 1 \in Files /\ Segs[k] = Seg(disk, k - 1) /\ Segs'[k] = Seg(disk', k - 1)
  BY SegsAre, SegsAreNext DEF SegsFacts
<1>3. \A k \in 1..n : Segs'[k] = new[k]
  <2> SUFFICES ASSUME NEW k \in 1..n PROVE Segs'[k] = new[k]
    OBVIOUS
  <2>1. CASE k = n
    BY <1>1, <1>2, <2>1
  <2>2. CASE k # n
    BY <1>1, <1>2, <2>2, SegSame
  <2>3. QED
    BY <2>1, <2>2
<1>4. Segs' = new
  BY <1>1, <1>3
<1>5. QED
  BY <1>1, <1>4

LEMMA LogExtends ==
  ASSUME Inv, Inv', Writing, NEW s \in Int, WriteEvent(s)
  PROVE  Log!Extend
<1>1. PICK i \in Files : fileIndex = i
  BY DEF Writing
<1>2. /\ Writing' /\ seen' = seen + 1 /\ seen \in Int /\ fileIndex' = fileIndex
      /\ \A f \in Files \ {i} : disk'[f] = disk[f]
      /\ disk'[i].evs = Append(disk[i].evs, seen + 1)
  BY <1>1, Writes DEF Inv, FilesTypeOK
<1>3. Segments' = Segments /\ Log!Growing
  BY <1>2, LogGrows, LogGrowsNext DEF Grows
<1>4. Segs' = [Segs EXCEPT ![Len(Segs)] = Seg(disk', i)]
  BY <1>1, <1>2, <1>3, LastSegment
<1>5. Seg(disk', i) = [Seg(disk, i) EXCEPT !.events = Append(@, seen + 1)]
  <2>1. Seg(disk, i) = [events |-> disk[i].evs, sealed |-> FALSE]
    BY <1>1, LogGrows DEF Grows
  <2>2. Seg(disk', i) = [events |-> disk'[i].evs, sealed |-> FALSE]
    BY <1>1, <1>2, LogGrowsNext DEF Grows
  <2>3. Seg(disk, i) \in SegType /\ ~Seg(disk, i).sealed /\ Seg(disk, i).events = disk[i].evs
    BY <1>1, SegIs DEF Writing, Inv, FilesTypeOK, FileType
  <2>4. Append(disk[i].evs, seen + 1) \in Seq(Int)
    BY <1>2 DEF Inv, FilesTypeOK, FileType
  <2>5. [Seg(disk, i) EXCEPT !.events = Append(disk[i].evs, seen + 1)]
          = [events |-> Append(disk[i].evs, seen + 1), sealed |-> FALSE]
    BY <2>3, <2>4, GrowingSeg, Zenon
  <2>6. QED
    BY <1>2, <2>2, <2>3, <2>5
<1>6. Segs[Len(Segs)] = Seg(disk, i)
  BY <1>1, LogGrows, SegsAre DEF Grows, SegsFacts
<1>7. Segs' = [Segs EXCEPT ![Len(Segs)].events = Append(@, seen + 1)]
  BY <1>4, <1>5, <1>6
<1>8. (seen + 1)' = (seen + 1) + 1
  BY <1>2
<1>9. QED
  BY <1>3, <1>7, <1>8 DEF Log!Extend

LEMMA LogSeals ==
  ASSUME Inv, Inv', Writing, UNCHANGED seen, NEW t \in Int, SealFile(t)
  PROVE  Log!Seal
<1>1. PICK i \in Files : fileIndex = i
  BY DEF Writing
<1>2. /\ fileIndex' = i + 1 /\ i \in Int
      /\ \A f \in Files \ {i} : disk'[f] = disk[f]
      /\ disk'[i].st = "sealed" /\ disk'[i].evs = disk[i].evs
  BY <1>1, Seals, ZeroIsFile
<1>3. Segments' = Segments
  <2>1. ~(fileIndex' < MaxFiles /\ disk'[fileIndex'].st # "absent")
    <3> SUFFICES ASSUME i + 1 < MaxFiles PROVE disk'[i + 1].st = "absent"
      BY <1>2
    <3>1. i + 1 \in Files /\ i + 1 > i /\ i + 1 # i
      BY <1>2, ZeroIsFile, OutputConstants DEF Files
    <3>2. QED
      BY <1>1, <1>2, <3>1 DEF Inv, FilesInv
  <2>2. Segments' = fileIndex'
    BY <2>1 DEF Segments
  <2>3. QED
    BY <1>1, <1>2, <2>2, LogGrows DEF Grows
<1>4. Segs' = [Segs EXCEPT ![Len(Segs)] = Seg(disk', i)]
  BY <1>1, <1>2, <1>3, LastSegment
<1>5. Seg(disk', i) = [Seg(disk, i) EXCEPT !.sealed = TRUE]
  <2>1. Seg(disk, i) = [events |-> disk[i].evs, sealed |-> FALSE]
    BY <1>1, LogGrows DEF Grows
  <2>2. Seg(disk', i) = [events |-> disk'[i].evs, sealed |-> TRUE]
    BY <1>2, SegIs
  <2>3. Seg(disk, i) \in SegType /\ ~Seg(disk, i).sealed /\ Seg(disk, i).events = disk[i].evs
    BY <1>1, SegIs DEF Writing, Inv, FilesTypeOK, FileType
  <2>4. disk[i].evs \in Seq(Int)
    BY DEF Inv, FilesTypeOK, FileType
  <2>5. [Seg(disk, i) EXCEPT !.sealed = TRUE] = [events |-> disk[i].evs, sealed |-> TRUE]
    BY <2>3, <2>4, GrowingSeg, Zenon
  <2>6. QED
    BY <1>2, <2>2, <2>3, <2>5
<1>6. Segs[Len(Segs)] = Seg(disk, i)
  BY <1>1, LogGrows, SegsAre DEF Grows, SegsFacts
<1>7. Segs' = [Segs EXCEPT ![Len(Segs)].sealed = TRUE]
  BY <1>4, <1>5, <1>6
<1>8. QED
  BY <1>7, LogGrows DEF Log!Seal, Grows

LEMMA LogInit == Init => Log!Init
<1> SUFFICES ASSUME Init PROVE Log!Init
  OBVIOUS
<1>1. Segments = 0 /\ seen = 0
  <2>1. disk[0] = Absent /\ fileIndex = 0 /\ seen = 0
    BY ZeroIsFile DEF Init
  <2>2. QED
    BY <2>1 DEF Segments, Absent
<1>2. Segs = <<>>
  BY <1>1, FilesInit, SegsAre, EmptySeq DEF SegsFacts
<1>3. QED
  BY <1>1, <1>2 DEF Log!Init

LEMMA CheckLogs == ASSUME Inv, Inv', NEW p, Check(p) PROVE [Log!Next]_Log!vars
<1>1. Writing /\ clock \in Int /\ UNCHANGED seen
  BY DEF Check, Inv, FilesTypeOK, FilesInv
<1>2. CASE Full(clock)
  BY <1>1, <1>2, LogSeals DEF Check, Log!Next
<1>3. CASE ~Full(clock)
  BY <1>1, <1>3, SegsKept DEF Check
<1>4. QED
  BY <1>2, <1>3

LEMMA ReopenLogs == ASSUME Inv, Inv', NEW p, NEW c, Reopen(p, c) PROVE [Log!Next]_Log!vars
<1>1. UNCHANGED <<fileIndex, seen>> /\ now \in Int /\ pc = "open" /\ fileIndex \in 0..MaxFiles
  BY DEF Reopen, Inv, FilesTypeOK
<1>2. CASE UNCHANGED disk
  BY <1>1, <1>2, SegsKept
<1>3. CASE fileIndex < MaxFiles /\ OpenFile(fileIndex, now, now)
  <2>1. PICK i \in Files : fileIndex = i
    BY <1>1, <1>3, OutputConstants DEF Files
  <2>2. disk[i].st = "absent"
    BY <1>1, <2>1, ZeroIsFile DEF Inv, FilesInv
  <2>3. /\ disk'[i].st = "open" /\ disk'[i].evs = <<>>
        /\ \A f \in Files \ {i} : disk'[f] = disk[f]
    BY <1>1, <1>3, <2>1, <2>2, Opens DEF Writing
  <2>4. QED
    BY <1>1, <2>1, <2>2, <2>3, LogBegins DEF Log!Next
<1>4. QED
  BY <1>2, <1>3 DEF Reopen

LEMMA CloseLogs ==
  ASSUME Inv, Inv', NEW p, NEW t \in Int, NEW c, Close(p, t, c)
  PROVE  [Log!Next]_Log!vars
<1>1. UNCHANGED seen /\ pc = "final"
  BY DEF Close
<1>2. CASE tooMany
  BY <1>1, <1>2, SegsKept DEF Close
<1>3. CASE ~tooMany
  BY <1>1, <1>3, LogSeals DEF Close, Inv, FilesInv, Log!Next
<1>4. QED
  BY <1>2, <1>3

LEMMA StartLogs ==
  ASSUME Inv, Inv', NEW p, NEW name \in Int, NEW c, Start(p, name, c), pc \in {"start", "head"}
  PROVE  [Log!Next]_Log!vars
<1>1. /\ 0 \in Files /\ fileIndex = 0 /\ clock \in Int
      /\ UNCHANGED <<fileIndex, seen>> /\ OpenFile(0, name, clock)
  BY ZeroIsFile DEF Start, Inv, FilesInv, FilesTypeOK
<1>2. /\ disk[0].st # "sealed"
      /\ pc = "start" => disk[0].st = "absent"
      /\ pc = "head" => disk[0].st = "open" /\ disk[0].evs = <<>>
  BY <1>1, ZeroIsFile DEF Inv, FilesInv
<1>3. /\ disk'[0].st = "open" /\ disk'[0].evs = <<>>
      /\ \A f \in Files \ {0} : disk'[f] = disk[f]
  BY <1>1, <1>2, Opens DEF Writing
<1>4. CASE pc = "start"
  BY <1>1, <1>2, <1>3, <1>4, LogBegins DEF Log!Next
<1>5. CASE pc = "head"
  BY <1>1, <1>2, <1>3, <1>5, SegsKept
<1>6. QED
  BY <1>4, <1>5

LEMMA LogStep == Inv /\ Inv' /\ [Next]_vars => [Log!Next]_Log!vars
<1> SUFFICES ASSUME Inv, Inv', [Next]_vars PROVE [Log!Next]_Log!vars
  OBVIOUS
<1>0. /\ {clock, now} \subseteq Int
      /\ pc \in {"read", "event"} => Writing
  BY DEF Inv, FilesTypeOK, FilesInv
<1> USE DEF books, flags, times
<1>1. CASE UNCHANGED books
  BY <1>1, SegsKept
<1>2. CASE pc \in {"read", "event"} /\ \E s \in EvSizes \cup {TrigSize} : WriteEvent(s)
  BY <1>0, <1>2, LogExtends, WrittenSizes DEF Log!Next
<1>3. CASE DaqRead \/ TrigRead \/ DaqEvent \/ FakeEvent \/ ZsupRead \/ TrigEvent
  BY <1>1, <1>2, <1>3 DEF DaqRead, TrigRead, DaqEvent, FakeEvent, ZsupRead, TrigEvent
<1>4. CASE DaqCheck \/ FakeCheck \/ ZsupCheck \/ TrigCheck
  BY <1>4, CheckLogs DEF DaqCheck, FakeCheck, ZsupCheck, TrigCheck
<1>5. CASE DaqReopen \/ FakeReopen \/ ZsupReopen \/ TrigReopen
  BY <1>5, ReopenLogs DEF DaqReopen, FakeReopen, ZsupReopen, TrigReopen
<1>6. CASE DaqClose \/ FakeClose \/ ZsupClose \/ TrigClose
  BY <1>0, <1>6, CloseLogs DEF DaqClose, FakeClose, ZsupClose, TrigClose
<1>7. CASE DaqOpen \/ FakeOpen \/ ZsupOpen \/ TrigOpen
  <2>1. disk[0].name \in Int
    BY ZeroIsFile DEF Inv, FilesTypeOK, FileType
  <2>2. QED
    BY <1>0, <1>7, <2>1, StartLogs DEF DaqOpen, FakeOpen, ZsupOpen, TrigOpen
<1>8. CASE ZsupCreate \/ HeadFails
  <2>1. PICK i \in Files, name \in Int : fileIndex = i /\ disk' = [disk EXCEPT ![i] = Opened(name, 0)]
    <3>1. CASE ZsupCreate
      <4>1. PICK name \in 0..MaxClock + 1 : disk' = [disk EXCEPT ![0] = Opened(name, 0)]
        BY <3>1 DEF ZsupCreate
      <4>2. fileIndex = 0 /\ name \in Int
        BY <3>1, OutputConstants DEF ZsupCreate, Inv, FilesInv
      <4>3. QED
        BY <4>1, <4>2, ZeroIsFile
    <3>2. CASE HeadFails
      <4>1. fileIndex \in Files /\ disk' = [disk EXCEPT ![fileIndex] = Opened(now, 0)]
        BY <1>0, <3>2, OutputConstants DEF HeadFails, Inv, FilesTypeOK, Files
      <4>2. QED
        BY <1>0, <4>1
    <3>3. QED
      BY <1>8, <3>1, <3>2
  <2>2. /\ disk[i].st = "absent" /\ UNCHANGED <<fileIndex, seen>>
        /\ disk \in [Files -> FileType]
    BY <1>8, <2>1, ZeroIsFile DEF ZsupCreate, HeadFails, Inv, FilesTypeOK, FilesInv
  <2>3. Opened(name, 0).st = "open" /\ Opened(name, 0).evs = <<>>
    BY <2>1, NewFile
  <2>4. QED
    BY <2>1, <2>2, <2>3, LogBegins DEF Log!Next
<1>9. CASE ZsupBadHead \/ WriteFails \/ Killed \/ Tick \/ Signal \/ QuitFile \/ StreamTail \/ UNCHANGED vars
  BY <1>1, <1>9
     DEF ZsupBadHead, WriteFails, Killed, Tick, Signal, QuitFile, StreamTail, vars
<1>10. QED
  BY <1>3, <1>4, <1>5, <1>6, <1>7, <1>8, <1>9
     DEF Next, ProgramStep, Environment, DaqStep, FakeStep, ZsupStep, TrigStep

(* WritesLog: the files implement SegmentedLog.  Opening a file begins a   *)
(* segment, an event extends it, a tail seals it; every other step leaves  *)
(* the log alone (DAQ.c:982-1105).                                         *)
THEOREM FilesAreALog == Spec => WritesLog
<1>1. Inv /\ Inv' /\ [Next]_vars => [Log!Next]_Log!vars
  BY LogStep
<1>2. QED
  BY LogInit, FilesAsTaken, <1>1, PTL DEF Spec, WritesLog, Log!Spec

-----------------------------------------------------------------------------
(* How the files follow each other. *)

Working == pc \in {"read", "event", "check"} \/ (pc = "final" /\ ~tooMany)

(* The files that were opened as the program takes it.                     *)
Used(f) == f < fileIndex \/ (f = fileIndex /\ Working)

Joined(f) ==
  /\ report[f - 1].tClose = report[f].tOpen
  /\ disk[f].name = report[f].tOpen

(***************************************************************************)
(* FilesJoin is not inductive: a file opened at the time at hand follows   *)
(* the one before it because that was closed at that time, and is the      *)
(* youngest because the clock does not go back.                            *)
(***************************************************************************)
JoinInv ==
  /\ prog \in Programs /\ now <= clock
  /\ \A f \in Files : disk[f].st = "absent" => report[f].size = 0
  /\ \A f \in Files \ {0} : Used(f) \/ report[f].size > 0 => Joined(f)
  /\ \A f, g \in Files : Used(g) /\ f <= g
       => report[f].tOpen <= report[g].tOpen /\ report[g].tOpen <= clock
  /\ pc = "open" => /\ fileIndex > 0 /\ report[fileIndex - 1].tClose = now
                    /\ \A f \in Files : f < fileIndex => report[f].tOpen <= now
  /\ 0 < fileIndex \/ Working => prog = "ZSUP" \/ disk[0].name = report[0].tOpen

(* The events of the buffer that are not yet handled are counted as if     *)
(* they were in the file.                                                  *)
FillInv ==
  /\ left \in Nat
  /\ pc = "event" => left > 0 /\ prog \in {"DAQ", "TRIG"}
  /\ \A f \in Files : disk[f].st = "absent" => disk[f].evs = <<>>
  /\ mode = "FILE" /\ MaxEvents > 0 =>
       /\ \A f \in Files : Len(disk[f].evs) < MaxEvents + Chunk
       /\ pc = "read" => Len(disk[fileIndex].evs) < MaxEvents
       /\ pc = "event" => Len(disk[fileIndex].evs) + left < MaxEvents + Chunk

LEMMA JoinInit == Init => JoinInv
<1> SUFFICES ASSUME Init PROVE JoinInv
  OBVIOUS
<1>1. \A f \in Files : report[f].size = 0
  BY DEF Init, NoReport
<1>2. fileIndex = 0 /\ pc = "start" /\ prog \in Programs /\ now = 0 /\ clock = 0
  BY DEF Init
<1>3. \A f \in Files : ~Used(f)
  BY <1>2, ZeroIsFile DEF Used, Working
<1>4. QED
  BY <1>1, <1>2, <1>3 DEF JoinInv, Working

(* The names and times of the files, which most steps leave alone.         *)
SameTimes(F) ==
  \A f \in F : /\ disk'[f].name = disk[f].name
               /\ report'[f].tOpen = report[f].tOpen
               /\ report'[f].tClose = report[f].tClose

(* A step that opens and closes nothing.                                   *)
LEMMA JoinKept ==
  ASSUME Inv, Inv', JoinInv, UNCHANGED <<prog, fileIndex>>, SameTimes(Files),
         now' <= clock', clock <= clock',
         \A f \in Files : disk'[f].st = disk[f].st,
         \A f \in Files : report'[f].size = report[f].size \/ (Working /\ f = fileIndex),
         Working' => Working,
         pc' = "open" => pc = "open" /\ now' = now
  PROVE  JoinInv'
<1>0. /\ {clock, now, clock', now'} \subseteq Int /\ fileIndex \in 0..MaxFiles
      /\ MaxFiles \in Nat
      /\ report \in [Files -> ReportType]
      /\ Working => fileIndex \in Files /\ disk[fileIndex].st = "open"
      /\ 0 \in Files
  BY ZeroIsFile, OutputConstants DEF Inv, FilesTypeOK, FilesInv, Working, Writing
<1>1. \A f \in Files : Used(f)' => Used(f)
  BY DEF Used
<1>2. \A f \in Files : disk'[f].st = "absent" => report'[f].size = 0
  BY <1>0 DEF JoinInv
<1>3. ASSUME NEW f \in Files \ {0}, Used(f)' \/ report'[f].size > 0 PROVE Joined(f)'
  <2>1. Used(f) \/ report[f].size > 0
    BY <1>1, <1>3 DEF Used
  <2>2. Joined(f)
    BY <2>1 DEF JoinInv
  <2>3. f - 1 \in Files
    BY ZeroIsFile, OutputConstants DEF Files
  <2>4. QED
    BY <2>2, <2>3 DEF Joined, SameTimes
<1>4. ASSUME NEW f \in Files, NEW g \in Files, Used(g)', f <= g
      PROVE  report'[f].tOpen <= report'[g].tOpen /\ report'[g].tOpen <= clock'
  <2>1. report[f].tOpen <= report[g].tOpen /\ report[g].tOpen <= clock
    BY <1>1, <1>4 DEF JoinInv
  <2>2. report[g].tOpen \in Int
    BY <1>0 DEF ReportType
  <2>3. QED
    BY <1>0, <2>1, <2>2 DEF SameTimes
<1>5. ASSUME pc' = "open"
      PROVE  /\ fileIndex > 0 /\ report'[fileIndex - 1].tClose = now'
             /\ \A f \in Files : f < fileIndex => report'[f].tOpen <= now'
  <2>1. /\ fileIndex > 0 /\ report[fileIndex - 1].tClose = now
        /\ \A f \in Files : f < fileIndex => report[f].tOpen <= now
    BY <1>5 DEF JoinInv
  <2>2. fileIndex - 1 \in Files
    BY <1>0, <2>1 DEF Files
  <2>3. QED
    BY <1>5, <2>1, <2>2 DEF SameTimes
<1>6. 0 < fileIndex \/ Working' => prog = "ZSUP" \/ disk'[0].name = report'[0].tOpen
  BY <1>0 DEF JoinInv, SameTimes
<1>7. prog' \in Programs
  BY DEF JoinInv
<1>8. QED
  BY <1>2, <1>3, <1>4, <1>5, <1>6, <1>7 DEF JoinInv

(* A file is opened at the time t, at which the one before it was closed.  *)
LEMMA JoinOpened ==
  ASSUME Inv, Inv', JoinInv, UNCHANGED <<prog, fileIndex, clock, now>>,
         NEW i \in Files, fileIndex = i, NEW t \in Int, t <= clock,
         SameTimes(Files \ {i}),
         \A f \in Files \ {i} : disk'[f] = disk[f] /\ report'[f] = report[f],
         report'[i].tOpen = t, disk'[i].st = "open",
         i > 0 => /\ report[i - 1].tClose = t /\ disk'[i].name = t
                  /\ \A f \in Files : f < i => report[f].tOpen <= t,
         i = 0 => prog = "ZSUP" \/ disk'[i].name = t,
         pc' # "open"
  PROVE  JoinInv'
<1>0. /\ {clock, now} \subseteq Int /\ report \in [Files -> ReportType]
      /\ 0 \in Files /\ Files \subseteq Int /\ \A f \in Files : f >= 0
      /\ \A f \in Files : f > i => disk[f].st = "absent"
  BY ZeroIsFile DEF Inv, FilesTypeOK, FilesInv
<1>1. \A f \in Files : Used(f)' => Used(f) \/ f = i
  BY DEF Used
<1>2. \A f \in Files : f < i => Used(f)
  BY DEF Used
<1>3. \A f \in Files : disk'[f].st = "absent" => report'[f].size = 0
  BY DEF JoinInv
<1>4. ASSUME NEW f \in Files \ {0}, Used(f)' \/ report'[f].size > 0 PROVE Joined(f)'
  <2>0. f - 1 \in Files /\ f - 1 < f /\ f > 0
    BY ZeroIsFile, OutputConstants DEF Files
  <2>1. CASE f = i
    <3>1. f - 1 # i
      BY <1>0, <2>0, <2>1
    <3>2. QED
      BY <2>0, <2>1, <3>1 DEF Joined, SameTimes
  <2>2. CASE f # i
    <3>1. Used(f) \/ report[f].size > 0
      BY <1>1, <1>4, <2>2
    <3>2. Joined(f)
      BY <3>1 DEF JoinInv
    <3>3. ~(f > i)
      <4>1. report[f].size > 0 => disk[f].st # "absent"
        BY DEF JoinInv
      <4>2. Used(f) => f <= i
        BY <1>0 DEF Used
      <4>3. QED
        BY <1>0, <3>1, <4>1, <4>2
    <3>4. f - 1 # i
      BY <1>0, <2>0, <3>3
    <3>5. QED
      BY <2>0, <2>2, <3>2, <3>4 DEF Joined, SameTimes
  <2>3. QED
    BY <2>1, <2>2
<1>5. ASSUME NEW f \in Files, NEW g \in Files, Used(g)', f <= g
      PROVE  report'[f].tOpen <= report'[g].tOpen /\ report'[g].tOpen <= clock'
  <2>1. g <= i
    BY <1>0, <1>5 DEF Used
  <2>2. CASE g = i
    <3>1. CASE f = i
      BY <2>2, <3>1
    <3>2. CASE f # i
      <4>1. f < i /\ 0 < i
        BY <1>0, <1>5, <2>1, <3>2
      <4>2. QED
        BY <2>2, <4>1
    <3>3. QED
      BY <3>1, <3>2
  <2>3. CASE g # i
    <3>1. g < i /\ f # i
      BY <1>0, <1>5, <2>1, <2>3
    <3>2. report[f].tOpen <= report[g].tOpen /\ report[g].tOpen <= clock
      BY <1>2, <1>5, <3>1 DEF JoinInv
    <3>3. QED
      BY <2>3, <3>1, <3>2
  <2>4. QED
    BY <2>2, <2>3
<1>6. prog = "ZSUP" \/ disk'[0].name = report'[0].tOpen
  <2>1. CASE i = 0
    BY <2>1
  <2>2. CASE i # 0
    BY <1>0, <2>2 DEF JoinInv
  <2>3. QED
    BY <2>1, <2>2
<1>7. prog' \in Programs /\ now' <= clock'
  BY DEF JoinInv
<1>8. QED
  BY <1>3, <1>4, <1>5, <1>6, <1>7 DEF JoinInv

(* The open file is closed at the time t.                                  *)
LEMMA JoinSealed ==
  ASSUME Inv, Inv', JoinInv, UNCHANGED <<prog, clock>>, Working,
         NEW i \in Files, fileIndex = i, fileIndex' = i + 1,
         SameTimes(Files \ {i}),
         \A f \in Files \ {i} : disk'[f] = disk[f] /\ report'[f] = report[f],
         disk'[i].name = disk[i].name, report'[i].tOpen = report[i].tOpen,
         now' <= clock, ~Working', disk'[i].st # "absent",
         pc' = "open" => now' = clock /\ report'[i].tClose = clock
  PROVE  JoinInv'
<1>0. /\ {clock, now, now'} \subseteq Int /\ report \in [Files -> ReportType]
      /\ 0 \in Files /\ Files \subseteq Int /\ \A f \in Files : f >= 0
      /\ \A f \in Files : f > i => disk[f].st = "absent"
  BY ZeroIsFile DEF Inv, FilesTypeOK, FilesInv
<1>1. \A f \in Files : Used(f)' => f <= i /\ Used(f)
  BY <1>0 DEF Used
<1>2. \A f \in Files : disk'[f].st = "absent" => report'[f].size = 0
  BY DEF JoinInv
<1>3. ASSUME NEW f \in Files \ {0}, Used(f)' \/ report'[f].size > 0 PROVE Joined(f)'
  <2>0. f - 1 \in Files /\ f - 1 < f /\ f > 0 /\ f \in Int /\ i \in Int
    BY ZeroIsFile, OutputConstants DEF Files
  <2>1. f <= i
    <3>1. CASE f > i
      <4>1. report[f].size = 0 /\ report'[f] = report[f] /\ ~Used(f)'
        BY <1>0, <1>1, <3>1 DEF JoinInv
      <4>2. QED
        BY <1>3, <4>1
    <3>2. QED
      BY <1>0, <3>1
  <2>2. Used(f)
    BY <1>0, <2>1 DEF Used
  <2>3. Joined(f)
    BY <2>2 DEF JoinInv
  <2>4. f - 1 # i
    BY <2>0, <2>1
  <2>5. QED
    BY <2>0, <2>3, <2>4 DEF Joined, SameTimes
<1>4. ASSUME NEW f \in Files, NEW g \in Files, Used(g)', f <= g
      PROVE  report'[f].tOpen <= report'[g].tOpen /\ report'[g].tOpen <= clock'
  <2>1. report[f].tOpen <= report[g].tOpen /\ report[g].tOpen <= clock
    BY <1>1, <1>4 DEF JoinInv
  <2>2. report'[f].tOpen = report[f].tOpen /\ report'[g].tOpen = report[g].tOpen
    BY DEF SameTimes
  <2>3. QED
    BY <2>1, <2>2
<1>5. ASSUME pc' = "open"
      PROVE  /\ fileIndex' > 0 /\ report'[fileIndex' - 1].tClose = now'
             /\ \A f \in Files : f < fileIndex' => report'[f].tOpen <= now'
  <2>1. fileIndex' > 0 /\ fileIndex' - 1 = i
    BY <1>0
  <2>2. ASSUME NEW f \in Files, f < fileIndex' PROVE report'[f].tOpen <= now'
    <3>1. Used(f)
      BY <1>0, <2>2 DEF Used
    <3>2. report[f].tOpen <= clock
      BY <1>0, <3>1 DEF JoinInv
    <3>3. QED
      BY <1>5, <3>2 DEF SameTimes
  <2>3. QED
    BY <1>5, <2>1, <2>2
<1>6. prog = "ZSUP" \/ disk'[0].name = report'[0].tOpen
  <2>1. prog = "ZSUP" \/ disk[0].name = report[0].tOpen
    BY DEF JoinInv
  <2>2. QED
    BY <1>0, <2>1 DEF SameTimes
<1>7. prog' \in Programs /\ now' <= clock'
  BY DEF JoinInv
<1>8. QED
  BY <1>2, <1>3, <1>4, <1>5, <1>6, <1>7 DEF JoinInv

(* A file is created and not yet taken for open.                           *)
LEMMA JoinCreated ==
  ASSUME Inv, Inv', JoinInv, UNCHANGED <<prog, clock, now, fileIndex, report>>,
         NEW i \in Files, fileIndex = i, disk[i].st = "absent",
         \A f \in Files \ {i} : disk'[f] = disk[f],
         disk'[i].st # "absent", ~Working', pc' # "open"
  PROVE  JoinInv'
<1>0. report[i].size = 0 /\ 0 \in Files
  BY ZeroIsFile DEF JoinInv
<1>1. \A f \in Files : Used(f)' => Used(f) /\ f < i
  BY DEF Used
<1>2. \A f \in Files : disk'[f].st = "absent" => report'[f].size = 0
  BY DEF JoinInv
<1>3. ASSUME NEW f \in Files \ {0}, Used(f)' \/ report'[f].size > 0 PROVE Joined(f)'
  <2>1. f # i
    BY <1>0, <1>1, <1>3, ZeroIsFile
  <2>2. Joined(f)
    BY <1>1, <1>3 DEF JoinInv
  <2>3. QED
    BY <2>1, <2>2 DEF Joined
<1>4. \A f, g \in Files : Used(g)' /\ f <= g
        => report'[f].tOpen <= report'[g].tOpen /\ report'[g].tOpen <= clock'
  BY <1>1 DEF JoinInv
<1>5. 0 < fileIndex' \/ Working' => prog = "ZSUP" \/ disk'[0].name = report'[0].tOpen
  BY <1>0, ZeroIsFile DEF JoinInv
<1>6. QED
  BY <1>2, <1>3, <1>4, <1>5 DEF JoinInv

(* What the parts of a step do to the names and times.                     *)
LEMMA WritesTimes ==
  ASSUME Inv, Writing, NEW s \in Int, WriteEvent(s)
  PROVE  /\ SameTimes(Files)
         /\ \A f \in Files : disk'[f].st = disk[f].st
         /\ \A f \in Files \ {fileIndex} : report'[f] = report[f]
<1>1. /\ disk' = [disk EXCEPT ![fileIndex].evs = Append(@, seen + 1), ![fileIndex].size = @ + s]
      /\ report' = [report EXCEPT ![fileIndex].size = @ + s, ![fileIndex].events = @ + 1]
      /\ disk \in [Files -> FileType] /\ report \in [Files -> ReportType]
      /\ fileIndex \in Files
  BY DEF WriteEvent, Inv, FilesTypeOK, Writing
<1>2. \A f \in Files : disk'[f].name = disk[f].name /\ disk'[f].st = disk[f].st
  BY <1>1 DEF FileType
<1>3. \A f \in Files : report'[f].tOpen = report[f].tOpen /\ report'[f].tClose = report[f].tClose
  BY <1>1 DEF ReportType
<1>4. QED
  BY <1>1, <1>2, <1>3 DEF SameTimes

LEMMA SealsTimes ==
  ASSUME Inv, Writing, NEW i \in Files, fileIndex = i, NEW t \in Int, SealFile(t)
  PROVE  /\ SameTimes(Files \ {i})
         /\ \A f \in Files \ {i} : disk'[f] = disk[f] /\ report'[f] = report[f]
         /\ disk'[i].name = disk[i].name /\ disk'[i].st = "sealed"
         /\ report'[i].tOpen = report[i].tOpen /\ report'[i].tClose = t
         /\ fileIndex' = i + 1
<1>1. /\ disk' = [disk EXCEPT ![i].st = "sealed", ![i].size = @ + TailSize,
                              ![i].n = report[i].events,
                              ![i].tail = report[i].size + TailSize]
      /\ report' = [report EXCEPT ![i].size = @ + TailSize, ![i].tClose = t]
      /\ disk \in [Files -> FileType] /\ report \in [Files -> ReportType]
      /\ fileIndex' = i + 1
  BY DEF SealFile, Inv, FilesTypeOK, Writing
<1>2. \A f \in Files \ {i} : disk'[f] = disk[f] /\ report'[f] = report[f]
  BY <1>1
<1>3. disk'[i].name = disk[i].name /\ disk'[i].st = "sealed"
  BY <1>1 DEF FileType
<1>4. report'[i].tOpen = report[i].tOpen /\ report'[i].tClose = t
  BY <1>1 DEF ReportType
<1>5. QED
  BY <1>1, <1>2, <1>3, <1>4 DEF SameTimes

LEMMA OpensTimes ==
  ASSUME Inv, NEW i \in Files, NEW name \in Int, NEW t \in Int, OpenFile(i, name, t)
  PROVE  /\ SameTimes(Files \ {i})
         /\ \A f \in Files \ {i} : disk'[f] = disk[f] /\ report'[f] = report[f]
         /\ disk'[i].name = name /\ disk'[i].st = "open" /\ disk'[i].evs = <<>>
         /\ report'[i].tOpen = t
<1> DEFINE r == [NoReport EXCEPT !.size = HeadSize, !.tOpen = t]
<1>0. HeadSize \in Int
  BY OutputConstants
<1>1. /\ Opened(name, HeadSize).st = "open" /\ Opened(name, HeadSize).evs = <<>>
      /\ Opened(name, HeadSize).name = name
  <2>1. Absent \in FileType
    BY DEF Absent, FileType
  <2>2. Opened(name, HeadSize).name = name
    BY <1>0, <2>1 DEF Opened, FileType
  <2>3. QED
    BY <1>0, <2>2, NewFile
<1>2. r.tOpen = t
  BY DEF NoReport
<1>3. /\ disk' = [disk EXCEPT ![i] = Opened(name, HeadSize)]
      /\ report' = [report EXCEPT ![i] = r]
      /\ disk \in [Files -> FileType] /\ report \in [Files -> ReportType]
  BY DEF OpenFile, Inv, FilesTypeOK
<1> HIDE DEF r
<1>4. QED
  BY <1>1, <1>2, <1>3 DEF SameTimes

LEMMA CheckJoins == ASSUME Inv, Inv', JoinInv, NEW p, Check(p) PROVE JoinInv'
<1>0. /\ pc = "check" /\ Writing /\ Working /\ clock \in Int /\ clock <= clock
      /\ now' = clock /\ UNCHANGED <<prog, clock, tooMany>>
  BY DEF Check, Inv, FilesTypeOK, FilesInv, Working, fixed, flags
<1>1. CASE ~Full(clock)
  <2>1. UNCHANGED <<fileIndex, disk, report>> /\ pc' # "open"
    BY <1>1 DEF Check
  <2>2. SameTimes(Files)
    BY <2>1 DEF SameTimes
  <2>3. QED
    BY <1>0, <2>1, <2>2, JoinKept
<1>2. CASE Full(clock)
  <2>1. SealFile(clock) /\ pc' = "open"
    BY <1>2 DEF Check
  <2>2. PICK i \in Files : fileIndex = i
    BY <1>0 DEF Writing
  <2>3. /\ SameTimes(Files \ {i})
        /\ \A f \in Files \ {i} : disk'[f] = disk[f] /\ report'[f] = report[f]
        /\ disk'[i].name = disk[i].name /\ disk'[i].st = "sealed"
        /\ report'[i].tOpen = report[i].tOpen /\ report'[i].tClose = clock
        /\ fileIndex' = i + 1
    BY <1>0, <2>1, <2>2, SealsTimes
  <2>4. ~Working'
    BY <2>1 DEF Working
  <2>5. QED
    BY <1>0, <2>1, <2>2, <2>3, <2>4, JoinSealed
<1>3. QED
  BY <1>1, <1>2

LEMMA ReopenJoins == ASSUME Inv, Inv', JoinInv, NEW p, NEW c, Reopen(p, c) PROVE JoinInv'
<1>0. /\ pc = "open" /\ fileIndex \in 0..MaxFiles /\ {clock, now} \subseteq Int
      /\ UNCHANGED <<prog, clock, now, fileIndex>>
      /\ fileIndex > 0 /\ report[fileIndex - 1].tClose = now
      /\ \A f \in Files : f < fileIndex => report[f].tOpen <= now
      /\ now <= clock /\ clock <= clock
  BY DEF Reopen, Inv, FilesTypeOK, JoinInv, times, fixed
<1>1. CASE fileIndex < MaxFiles /\ NameFree(now)
  <2>1. PICK i \in Files : fileIndex = i
    BY <1>0, <1>1, OutputConstants DEF Files
  <2>2. OpenFile(i, now, now) /\ pc' # "open"
    BY <1>1, <2>1 DEF Reopen
  <2>3. /\ SameTimes(Files \ {i})
        /\ \A f \in Files \ {i} : disk'[f] = disk[f] /\ report'[f] = report[f]
        /\ disk'[i].name = now /\ disk'[i].st = "open" /\ report'[i].tOpen = now
    BY <1>0, <2>2, OpensTimes
  <2>4. i # 0
    BY <1>0, <2>1
  <2>5. QED
    BY <1>0, <2>1, <2>2, <2>3, <2>4, JoinOpened
<1>2. CASE ~(fileIndex < MaxFiles /\ NameFree(now))
  <2>1. UNCHANGED <<disk, report>> /\ (pc' = "failed" \/ (pc' = "final" /\ tooMany'))
    BY <1>2 DEF Reopen
  <2>2. SameTimes(Files) /\ ~Working' /\ pc' # "open"
    BY <2>1 DEF SameTimes, Working
  <2>3. QED
    BY <1>0, <2>1, <2>2, JoinKept
<1>3. QED
  BY <1>1, <1>2

LEMMA CloseJoins ==
  ASSUME Inv, Inv', JoinInv, NEW p, NEW t \in Int, t <= clock, NEW c, Close(p, t, c)
  PROVE  JoinInv'
<1>0. /\ pc = "final" /\ now' = t /\ clock \in Int /\ clock <= clock
      /\ pc' \in {"done", "failed"} /\ UNCHANGED <<prog, clock, tooMany>>
  BY DEF Close, Inv, FilesTypeOK, fixed, flags
<1>1. ~Working' /\ pc' # "open"
  BY <1>0 DEF Working
<1>2. CASE tooMany
  <2>1. UNCHANGED <<fileIndex, disk, report>>
    BY <1>2 DEF Close
  <2>2. SameTimes(Files)
    BY <2>1 DEF SameTimes
  <2>3. QED
    BY <1>0, <1>1, <2>1, <2>2, JoinKept
<1>3. CASE ~tooMany
  <2>1. SealFile(t) /\ Writing /\ Working
    BY <1>0, <1>3 DEF Close, Inv, FilesInv, Working
  <2>2. PICK i \in Files : fileIndex = i
    BY <2>1 DEF Writing
  <2>3. /\ SameTimes(Files \ {i})
        /\ \A f \in Files \ {i} : disk'[f] = disk[f] /\ report'[f] = report[f]
        /\ disk'[i].name = disk[i].name /\ disk'[i].st = "sealed"
        /\ report'[i].tOpen = report[i].tOpen /\ fileIndex' = i + 1
    BY <2>1, <2>2, SealsTimes
  <2>4. QED
    BY <1>0, <1>1, <2>1, <2>2, <2>3, JoinSealed
<1>4. QED
  BY <1>2, <1>3

LEMMA StartJoins ==
  ASSUME Inv, Inv', JoinInv, NEW p, NEW name \in Int, NEW c, Start(p, name, c),
         pc \in {"start", "head"}, p = "ZSUP" \/ name = clock
  PROVE  JoinInv'
<1>0. /\ OpenFile(0, name, clock) /\ pc' # "open" /\ prog = p
      /\ fileIndex = 0 /\ 0 \in Files /\ clock \in Int /\ clock <= clock
      /\ UNCHANGED <<prog, clock, now, fileIndex>>
  BY ZeroIsFile DEF Start, Inv, FilesTypeOK, FilesInv, fixed
<1>1. /\ SameTimes(Files \ {0})
      /\ \A f \in Files \ {0} : disk'[f] = disk[f] /\ report'[f] = report[f]
      /\ disk'[0].name = name /\ disk'[0].st = "open" /\ report'[0].tOpen = clock
  BY <1>0, OpensTimes
<1>2. QED
  BY <1>0, <1>1, JoinOpened

LEMMA JoinStep == ASSUME Inv, Inv', JoinInv, [Next]_vars PROVE JoinInv'
<1>0. /\ {clock, now} \subseteq Int /\ now <= clock
      /\ pc \in {"read", "event"} => Writing /\ Working
  BY DEF Inv, FilesTypeOK, FilesInv, JoinInv, Working
<1> USE DEF books, flags, times, fixed, told
<1>1. ASSUME UNCHANGED <<prog, fileIndex, disk, report>>, now' <= clock', clock <= clock',
             Working' => Working, pc' = "open" => pc = "open" /\ now' = now
      PROVE  JoinInv'
  <2>1. SameTimes(Files)
    BY <1>1 DEF SameTimes
  <2>2. QED
    BY <1>1, <2>1, JoinKept
<1>2. ASSUME pc \in {"read", "event"}, UNCHANGED <<prog, clock, now>>, pc' # "open",
             NEW s \in EvSizes \cup {TrigSize}, WriteEvent(s)
      PROVE  JoinInv'
  <2>1. s \in Int
    BY WrittenSizes
  <2>2. /\ SameTimes(Files)
        /\ \A f \in Files : disk'[f].st = disk[f].st
        /\ \A f \in Files \ {fileIndex} : report'[f] = report[f]
        /\ fileIndex' = fileIndex
    BY <1>0, <1>2, <2>1, WritesTimes DEF WriteEvent
  <2>3. \A f \in Files : report'[f].size = report[f].size \/ (Working /\ f = fileIndex)
    BY <1>0, <1>2, <2>2
  <2>4. now' <= clock' /\ clock <= clock'
    BY <1>0, <1>2
  <2>5. QED
    BY <1>0, <1>2, <2>2, <2>3, <2>4, JoinKept
<1>3. CASE DaqRead \/ TrigRead \/ DaqEvent \/ FakeEvent \/ ZsupRead \/ TrigEvent
  <2>1. /\ pc \in {"read", "event"} /\ pc' # "open" /\ UNCHANGED <<prog, clock, now>>
        /\ UNCHANGED <<fileIndex, disk, report>> \/ \E s \in EvSizes \cup {TrigSize} : WriteEvent(s)
    BY <1>3 DEF DaqRead, TrigRead, DaqEvent, FakeEvent, ZsupRead, TrigEvent
  <2>2. now' <= clock' /\ clock <= clock'
    BY <1>0, <2>1
  <2>3. QED
    BY <1>0, <1>1, <1>2, <2>1, <2>2
<1>4. CASE DaqCheck \/ FakeCheck \/ ZsupCheck \/ TrigCheck
  BY <1>4, CheckJoins DEF DaqCheck, FakeCheck, ZsupCheck, TrigCheck
<1>5. CASE DaqReopen \/ FakeReopen \/ ZsupReopen \/ TrigReopen
  BY <1>5, ReopenJoins DEF DaqReopen, FakeReopen, ZsupReopen, TrigReopen
<1>6. CASE DaqClose \/ FakeClose \/ ZsupClose \/ TrigClose
  <2>1. clock <= clock
    BY <1>0
  <2>2. QED
    BY <1>0, <1>6, <2>1, CloseJoins DEF DaqClose, FakeClose, ZsupClose, TrigClose
<1>7. CASE DaqOpen \/ FakeOpen \/ ZsupOpen \/ TrigOpen
  <2>1. disk[0].name \in Int
    BY ZeroIsFile DEF Inv, FilesTypeOK, FileType
  <2>2. QED
    BY <1>0, <1>7, <2>1, StartJoins DEF DaqOpen, FakeOpen, ZsupOpen, TrigOpen
<1>8. CASE ZsupCreate \/ HeadFails
  <2>1. PICK i \in Files, name \in Int : fileIndex = i /\ disk' = [disk EXCEPT ![i] = Opened(name, 0)]
    <3>1. CASE ZsupCreate
      <4>1. PICK name \in 0..MaxClock + 1 : disk' = [disk EXCEPT ![0] = Opened(name, 0)]
        BY <3>1 DEF ZsupCreate
      <4>2. fileIndex = 0 /\ name \in Int
        BY <3>1, OutputConstants DEF ZsupCreate, Inv, FilesInv
      <4>3. QED
        BY <4>1, <4>2, ZeroIsFile
    <3>2. CASE HeadFails
      <4>1. fileIndex \in Files /\ disk' = [disk EXCEPT ![fileIndex] = Opened(now, 0)]
        BY <1>0, <3>2, OutputConstants DEF HeadFails, Inv, FilesTypeOK, Files
      <4>2. QED
        BY <1>0, <4>1
    <3>3. QED
      BY <1>8, <3>1, <3>2
  <2>2. /\ disk[i].st = "absent" /\ UNCHANGED <<prog, clock, now, fileIndex, report>>
        /\ disk \in [Files -> FileType] /\ pc' \in {"head", "failed"}
    BY <1>8, <2>1, ZeroIsFile DEF ZsupCreate, HeadFails, Inv, FilesTypeOK, FilesInv
  <2>3. Opened(name, 0).st = "open"
    BY NewFile
  <2>4. ~Working' /\ pc' # "open"
    BY <2>2 DEF Working
  <2>5. QED
    BY <2>1, <2>2, <2>3, <2>4, JoinCreated
<1>9. CASE ZsupBadHead \/ WriteFails \/ Killed
  <2>1. /\ UNCHANGED <<prog, fileIndex, disk, report, clock, now>>
        /\ pc' \in {"failed", "killed"}
    BY <1>9 DEF ZsupBadHead, WriteFails, Killed
  <2>2. ~Working' /\ pc' # "open" /\ now' <= clock' /\ clock <= clock'
    BY <1>0, <2>1 DEF Working
  <2>3. QED
    BY <1>1, <2>1, <2>2
<1>10. CASE Tick \/ Signal \/ QuitFile \/ StreamTail \/ UNCHANGED vars
  <2>1. /\ UNCHANGED <<prog, pc, tooMany, fileIndex, disk, report, now>>
        /\ clock' = clock \/ clock' = clock + 1
    BY <1>10 DEF Tick, Signal, QuitFile, StreamTail, vars
  <2>2. (Working' <=> Working) /\ now' <= clock' /\ clock <= clock'
    BY <1>0, <2>1 DEF Working
  <2>3. QED
    BY <1>1, <2>1, <2>2
<1>11. QED
  BY <1>3, <1>4, <1>5, <1>6, <1>7, <1>8, <1>9, <1>10
     DEF Next, ProgramStep, Environment, DaqStep, FakeStep, ZsupStep, TrigStep

(* How full the files are. *)

Limited == mode = "FILE" /\ MaxEvents > 0

LEMMA ChunkIs ==
  ASSUME prog \in Programs
  PROVE  /\ Chunk \in Nat /\ Chunk >= 1 /\ MaxEvents \in Nat /\ MaxBatch \in Nat
         /\ prog \in {"DAQ", "TRIG"} => Chunk = MaxBatch
  BY OutputConstants DEF Chunk, Programs

LEMMA FillInit == Init => FillInv
<1> SUFFICES ASSUME Init PROVE FillInv
  OBVIOUS
<1>1. \A f \in Files : disk[f].evs = <<>> /\ Len(disk[f].evs) = 0
  BY EmptySeq DEF Init, Absent
<1>2. left = 0 /\ pc = "start" /\ prog \in Programs
  BY DEF Init
<1>3. Chunk \in Nat /\ Chunk >= 1 /\ MaxEvents \in Nat
  BY <1>2, ChunkIs
<1>4. QED
  BY <1>1, <1>2, <1>3 DEF FillInv

(* A step that writes no event; a file it opens has none.                  *)
LEMMA FillKept ==
  ASSUME Inv, JoinInv, FillInv, UNCHANGED <<prog, mode>>,
         left' \in Nat, pc' = "event" => left' > 0 /\ prog \in {"DAQ", "TRIG"},
         \A f \in Files : \/ disk'[f].evs = <<>>
                          \/ disk'[f].evs = disk[f].evs /\ disk'[f].st = disk[f].st
                          \/ disk'[f].evs = disk[f].evs /\ disk'[f].st = "sealed",
         Limited /\ pc' = "read" => Len(disk'[fileIndex'].evs) < MaxEvents,
         Limited /\ pc' = "event" => Len(disk'[fileIndex'].evs) + left' < MaxEvents + Chunk
  PROVE  FillInv'
<1>1. Chunk' = Chunk /\ Chunk \in Nat /\ Chunk >= 1 /\ MaxEvents \in Nat
  BY ChunkIs DEF Chunk, JoinInv
<1>2. \A f \in Files : disk'[f].st = "absent" => disk'[f].evs = <<>>
  BY DEF FillInv
<1>3. ASSUME Limited, NEW f \in Files PROVE Len(disk'[f].evs) < MaxEvents + Chunk
  <2>1. CASE disk'[f].evs = <<>>
    <3>1. Len(disk'[f].evs) = 0
      BY <2>1, EmptySeq
    <3>2. QED
      BY <1>1, <3>1
  <2>2. CASE disk'[f].evs = disk[f].evs
    BY <1>3, <2>2 DEF FillInv, Limited
  <2>3. QED
    BY <2>1, <2>2
<1>4. QED
  BY <1>1, <1>2, <1>3 DEF FillInv, Limited

LEMMA FillWritten ==
  ASSUME Inv, JoinInv, FillInv, UNCHANGED <<prog, mode>>, pc \in {"read", "event"},
         NEW s \in EvSizes \cup {TrigSize}, WriteEvent(s),
         pc = "event" => left' = left - 1 /\ pc' = (IF left = 1 THEN "check" ELSE "event"),
         pc = "read" => left' = left /\ pc' = "check"
  PROVE  FillInv'
<1>0. Writing /\ s \in Int
  BY WrittenSizes DEF Inv, FilesInv
<1>1. PICK i \in Files : fileIndex = i
  BY <1>0 DEF Writing
<1>2. /\ fileIndex' = i /\ \A f \in Files \ {i} : disk'[f] = disk[f]
      /\ disk'[i].evs = Append(disk[i].evs, seen + 1) /\ Writing'
  BY <1>0, <1>1, Writes
<1>3. Len(disk'[i].evs) = Len(disk[i].evs) + 1 /\ Len(disk[i].evs) \in Nat
  <2>1. disk[i].evs \in Seq(Int) /\ seen + 1 \in Int
    BY DEF Inv, FilesTypeOK, FileType
  <2>2. QED
    BY <1>2, <2>1
<1>4. /\ Chunk' = Chunk /\ Chunk \in Nat /\ Chunk >= 1 /\ MaxEvents \in Nat
      /\ left \in Nat /\ left' \in Nat /\ pc' \in {"check", "event"}
      /\ pc' = "event" => left' = left - 1 /\ left' > 0 /\ pc = "event"
      /\ pc = "event" => left > 0 /\ prog \in {"DAQ", "TRIG"}
  <2>1. Chunk' = Chunk /\ Chunk \in Nat /\ Chunk >= 1 /\ MaxEvents \in Nat
    BY ChunkIs DEF Chunk, JoinInv
  <2>2. left \in Nat /\ (pc = "event" => left > 0 /\ prog \in {"DAQ", "TRIG"})
    BY DEF FillInv
  <2>3. QED
    BY <2>1, <2>2
<1>5. \A f \in Files : disk'[f].st = "absent" => disk'[f].evs = <<>>
  <2>1. disk'[i].st # "absent"
    BY <1>2 DEF Writing
  <2>2. QED
    BY <1>2, <2>1 DEF FillInv
<1>6. ASSUME Limited
      PROVE  /\ Len(disk'[i].evs) < MaxEvents + Chunk
             /\ pc' = "event" => Len(disk'[i].evs) + left' < MaxEvents + Chunk
  <2>1. CASE pc = "read"
    <3>1. Len(disk[i].evs) < MaxEvents /\ pc' # "event"
      BY <1>1, <1>6, <2>1 DEF FillInv, Limited
    <3>2. QED
      BY <1>3, <1>4, <3>1
  <2>2. CASE pc = "event"
    <3>1. Len(disk[i].evs) + left < MaxEvents + Chunk
      BY <1>1, <1>6, <2>2 DEF FillInv, Limited
    <3>2. QED
      BY <1>3, <1>4, <2>2, <3>1
  <2>3. QED
    BY <2>1, <2>2
<1>7. ASSUME Limited, NEW f \in Files PROVE Len(disk'[f].evs) < MaxEvents + Chunk
  <2>1. CASE f = i
    BY <1>6, <1>7, <2>1
  <2>2. CASE f # i
    BY <1>2, <1>7, <2>2 DEF FillInv, Limited
  <2>3. QED
    BY <2>1, <2>2
<1>8. QED
  BY <1>2, <1>4, <1>5, <1>6, <1>7 DEF FillInv, Limited

(* A file that is written to and not full has room for another read.       *)
LEMMA NotFull ==
  ASSUME Inv, pc = "check", ~Full(clock), Limited
  PROVE  Len(disk[fileIndex].evs) < MaxEvents
<1>1. Writing
  BY DEF Inv, FilesInv
<1>2. /\ report[fileIndex].events = Len(disk[fileIndex].evs)
      /\ Len(disk[fileIndex].evs) \in Nat /\ MaxEvents \in Nat
  BY <1>1, OutputConstants DEF Writing, Inv, FilesTypeOK, FileType
<1>3. ~(report[fileIndex].events >= MaxEvents)
  BY DEF Full, Limited
<1>4. QED
  BY <1>2, <1>3

LEMMA CheckFills == ASSUME Inv, JoinInv, FillInv, NEW p, Check(p) PROVE FillInv'
<1>0. /\ pc = "check" /\ Writing /\ left \in Nat /\ clock \in Int
      /\ UNCHANGED <<prog, mode, left>>
  BY DEF Check, Inv, FilesTypeOK, FilesInv, FillInv, fixed
<1>1. CASE ~Full(clock)
  <2>1. UNCHANGED <<fileIndex, disk>> /\ pc' # "event"
    BY <1>1 DEF Check
  <2>2. Limited => Len(disk[fileIndex].evs) < MaxEvents
    BY <1>0, <1>1, NotFull
  <2>3. QED
    BY <1>0, <2>1, <2>2, FillKept
<1>2. CASE Full(clock)
  <2>1. SealFile(clock) /\ pc' = "open"
    BY <1>2 DEF Check
  <2>2. \A i \in Files : i = fileIndex => disk'[i].st = "sealed" /\ disk'[i].evs = disk[i].evs
    BY <1>0, <2>1, Seals
  <2>3. \A f \in Files \ {fileIndex} : disk'[f] = disk[f]
    BY <1>0, <2>1, Seals DEF Writing
  <2>4. QED
    BY <1>0, <2>1, <2>2, <2>3, FillKept
<1>3. QED
  BY <1>1, <1>2

LEMMA ReopenFills == ASSUME Inv, JoinInv, FillInv, NEW p, NEW c, Reopen(p, c) PROVE FillInv'
<1>0. /\ fileIndex \in 0..MaxFiles /\ {clock, now} \subseteq Int /\ left \in Nat
      /\ UNCHANGED <<prog, mode, left, fileIndex>> /\ pc' # "event"
  BY DEF Reopen, Inv, FilesTypeOK, FillInv, fixed
<1>1. CASE fileIndex < MaxFiles /\ NameFree(now)
  <2>1. PICK i \in Files : fileIndex = i
    BY <1>0, <1>1, OutputConstants DEF Files
  <2>2. OpenFile(i, now, now)
    BY <1>1, <2>1 DEF Reopen
  <2>3. disk'[i].evs = <<>> /\ \A f \in Files \ {i} : disk'[f] = disk[f]
    BY <1>0, <2>2, OpensTimes
  <2>4. Limited => Len(disk'[i].evs) < MaxEvents
    BY <2>3, EmptySeq, OutputConstants DEF Limited
  <2>5. QED
    BY <1>0, <2>1, <2>3, <2>4, FillKept
<1>2. CASE ~(fileIndex < MaxFiles /\ NameFree(now))
  <2>1. UNCHANGED disk /\ pc' # "read"
    BY <1>2 DEF Reopen
  <2>2. QED
    BY <1>0, <2>1, FillKept
<1>3. QED
  BY <1>1, <1>2

LEMMA CloseFills ==
  ASSUME Inv, JoinInv, FillInv, NEW p, NEW t \in Int, NEW c, Close(p, t, c)
  PROVE  FillInv'
<1>0. /\ pc = "final" /\ left \in Nat /\ pc' \in {"done", "failed"}
      /\ UNCHANGED <<prog, mode, left>>
  BY DEF Close, FillInv, fixed
<1>1. CASE tooMany
  BY <1>0, <1>1, FillKept DEF Close
<1>2. CASE ~tooMany
  <2>1. SealFile(t) /\ Writing
    BY <1>0, <1>2 DEF Close, Inv, FilesInv
  <2>2. \A i \in Files : i = fileIndex => disk'[i].st = "sealed" /\ disk'[i].evs = disk[i].evs
    BY <2>1, Seals
  <2>3. \A f \in Files \ {fileIndex} : disk'[f] = disk[f]
    BY <2>1, Seals DEF Writing
  <2>4. QED
    BY <1>0, <2>2, <2>3, FillKept
<1>3. QED
  BY <1>1, <1>2

LEMMA StartFills ==
  ASSUME Inv, JoinInv, FillInv, NEW p, NEW name \in Int, NEW c, Start(p, name, c),
         pc \in {"start", "head"}
  PROVE  FillInv'
<1>0. /\ OpenFile(0, name, clock) /\ pc' = "read" /\ left \in Nat
      /\ fileIndex = 0 /\ 0 \in Files /\ clock \in Int
      /\ UNCHANGED <<prog, mode, left, fileIndex>>
  BY ZeroIsFile DEF Start, Inv, FilesTypeOK, FilesInv, FillInv, fixed
<1>1. disk'[0].evs = <<>> /\ \A f \in Files \ {0} : disk'[f] = disk[f]
  BY <1>0, OpensTimes
<1>2. Limited => Len(disk'[0].evs) < MaxEvents
  BY <1>1, EmptySeq, OutputConstants DEF Limited
<1>3. QED
  BY <1>0, <1>1, <1>2, FillKept

(* A device is read: what is in the buffer is bounded.                     *)
LEMMA ReadFills ==
  ASSUME Inv, JoinInv, FillInv, pc = "read", prog \in {"DAQ", "TRIG"},
         UNCHANGED <<prog, mode, fileIndex, disk>>,
         left' \in 0 .. MaxBatch, pc' = IF left' = 0 THEN "check" ELSE "event"
  PROVE  FillInv'
<1>1. Chunk = MaxBatch /\ MaxBatch \in Nat /\ MaxEvents \in Nat
  BY ChunkIs DEF JoinInv
<1>2. left' \in Nat /\ left' <= MaxBatch /\ (pc' = "event" => left' > 0) /\ pc' # "read"
  BY <1>1
<1>3. Limited => Len(disk[fileIndex].evs) + left' < MaxEvents + Chunk
  <2>1. Len(disk[fileIndex].evs) \in Nat
    BY DEF Inv, FilesInv, Writing, FilesTypeOK, FileType
  <2>2. QED
    BY <1>1, <1>2, <2>1 DEF FillInv, Limited
<1>4. QED
  BY <1>2, <1>3, FillKept

(* An event of the buffer is handled and not written.                      *)
LEMMA RejectFills ==
  ASSUME Inv, JoinInv, FillInv, pc = "event",
         UNCHANGED <<prog, mode, fileIndex, disk>>,
         left' = left - 1, pc' = IF left = 1 THEN "check" ELSE "event"
  PROVE  FillInv'
<1>1. /\ Chunk \in Nat /\ MaxEvents \in Nat
      /\ left \in Nat /\ left > 0 /\ prog \in {"DAQ", "TRIG"}
  BY ChunkIs DEF JoinInv, FillInv
<1>2. left' \in Nat /\ (pc' = "event" => left' > 0) /\ pc' # "read"
  BY <1>1
<1>3. Limited => Len(disk[fileIndex].evs) + left' < MaxEvents + Chunk
  <2>1. Len(disk[fileIndex].evs) \in Nat
    BY DEF Inv, FilesInv, Writing, FilesTypeOK, FileType
  <2>2. QED
    BY <1>1, <2>1 DEF FillInv, Limited
<1>4. QED
  BY <1>1, <1>2, <1>3, FillKept

LEMMA FillStep == ASSUME Inv, JoinInv, FillInv, [Next]_vars PROVE FillInv'
<1>0. left \in Nat /\ {clock, now} \subseteq Int
  BY DEF FillInv, Inv, FilesTypeOK
<1> USE DEF books, flags, times, fixed, told
<1>1. ASSUME UNCHANGED <<prog, mode, disk, left>>, pc' \notin {"read", "event"} PROVE FillInv'
  BY <1>0, <1>1, FillKept
<1>2. CASE DaqRead \/ TrigRead
  <2>1. \/ pc' \in {"final", "failed"} /\ UNCHANGED left
        \/ left' \in 0 .. MaxBatch /\ pc' = IF left' = 0 THEN "check" ELSE "event"
    BY <1>2 DEF DaqRead, TrigRead
  <2>2. UNCHANGED <<prog, mode, fileIndex, disk>> /\ pc = "read" /\ prog \in {"DAQ", "TRIG"}
    BY <1>2 DEF DaqRead, TrigRead
  <2>3. QED
    BY <1>1, <2>1, <2>2, ReadFills
<1>3. CASE DaqEvent \/ TrigEvent
  <2>1. pc = "event" /\ UNCHANGED <<prog, mode>>
    BY <1>3 DEF DaqEvent, TrigEvent
  <2>2. CASE UNCHANGED <<left, disk>> /\ pc' = "final"
    BY <1>1, <2>1, <2>2
  <2>3. CASE /\ left' = left - 1 /\ pc' = IF left = 1 THEN "check" ELSE "event"
             /\ UNCHANGED <<fileIndex, disk>>
    BY <2>1, <2>3, RejectFills
  <2>4. CASE /\ left' = left - 1 /\ pc' = IF left = 1 THEN "check" ELSE "event"
             /\ \E s \in EvSizes \cup {TrigSize} : WriteEvent(s)
    BY <2>1, <2>4, FillWritten
  <2>5. QED
    BY <1>3, <2>2, <2>3, <2>4 DEF DaqEvent, TrigEvent
<1>4. CASE FakeEvent \/ ZsupRead
  <2>1. pc = "read" /\ UNCHANGED <<prog, mode, left>>
    BY <1>4 DEF FakeEvent, ZsupRead
  <2>2. CASE UNCHANGED disk /\ pc' \notin {"read", "event"}
    BY <1>1, <2>1, <2>2
  <2>3. CASE pc' = "check" /\ \E s \in EvSizes \cup {TrigSize} : WriteEvent(s)
    BY <2>1, <2>3, FillWritten
  <2>4. QED
    BY <1>4, <2>2, <2>3 DEF FakeEvent, ZsupRead
<1>5. CASE DaqCheck \/ FakeCheck \/ ZsupCheck \/ TrigCheck
  BY <1>5, CheckFills DEF DaqCheck, FakeCheck, ZsupCheck, TrigCheck
<1>6. CASE DaqReopen \/ FakeReopen \/ ZsupReopen \/ TrigReopen
  BY <1>6, ReopenFills DEF DaqReopen, FakeReopen, ZsupReopen, TrigReopen
<1>7. CASE DaqClose \/ FakeClose \/ ZsupClose \/ TrigClose
  BY <1>0, <1>7, CloseFills DEF DaqClose, FakeClose, ZsupClose, TrigClose
<1>8. CASE DaqOpen \/ FakeOpen \/ ZsupOpen \/ TrigOpen
  <2>1. disk[0].name \in Int
    BY ZeroIsFile DEF Inv, FilesTypeOK, FileType
  <2>2. QED
    BY <1>0, <1>8, <2>1, StartFills DEF DaqOpen, FakeOpen, ZsupOpen, TrigOpen
<1>9. CASE ZsupCreate \/ HeadFails
  <2>1. PICK i \in Files, name \in Int : disk' = [disk EXCEPT ![i] = Opened(name, 0)]
    <3>1. CASE ZsupCreate
      <4>1. PICK name \in 0 .. MaxClock + 1 : disk' = [disk EXCEPT ![0] = Opened(name, 0)]
        BY <3>1 DEF ZsupCreate
      <4>2. name \in Int
        BY <4>1
      <4>3. QED
        BY <4>1, <4>2, ZeroIsFile
    <3>2. CASE HeadFails
      <4>1. fileIndex \in Files /\ disk' = [disk EXCEPT ![fileIndex] = Opened(now, 0)]
        BY <1>0, <3>2, OutputConstants DEF HeadFails, Inv, FilesTypeOK, Files
      <4>2. QED
        BY <1>0, <4>1
    <3>3. QED
      BY <1>9, <3>1, <3>2
  <2>2. UNCHANGED <<prog, mode, left>> /\ pc' \in {"head", "failed"}
    BY <1>9 DEF ZsupCreate, HeadFails
  <2>3. Opened(name, 0).evs = <<>> /\ disk \in [Files -> FileType]
    BY NewFile DEF Inv, FilesTypeOK
  <2>4. disk'[i].evs = <<>> /\ \A f \in Files \ {i} : disk'[f] = disk[f]
    BY <2>1, <2>3
  <2>5. QED
    BY <1>0, <2>2, <2>4, FillKept
<1>10. CASE ZsupBadHead \/ WriteFails \/ Killed
  BY <1>1, <1>10 DEF ZsupBadHead, WriteFails, Killed
<1>11. CASE Tick \/ Signal \/ QuitFile \/ StreamTail \/ UNCHANGED vars
  <2>1. UNCHANGED <<prog, mode, pc, left, fileIndex, disk>>
    BY <1>11 DEF Tick, Signal, QuitFile, StreamTail, vars
  <2>2. QED
    BY <2>1 DEF FillInv, Chunk
<1>12. QED
  BY <1>2, <1>3, <1>4, <1>5, <1>6, <1>7, <1>8, <1>9, <1>10, <1>11
     DEF Next, ProgramStep, Environment, DaqStep, FakeStep, ZsupStep, TrigStep

LEMMA FilesFollow == Spec => [](Inv /\ JoinInv /\ FillInv)
<1>1. Inv /\ Inv' /\ JoinInv /\ FillInv /\ [Next]_vars => JoinInv' /\ FillInv'
  BY JoinStep, FillStep
<1>2. QED
  BY <1>1, FilesAsTaken, JoinInit, FillInit, PTL DEF Spec

(***************************************************************************)
(* FilesJoin: the files follow each other without a gap, the next one      *)
(* bearing the time at which the last one was closed, and none is          *)
(* overfilled by more than what was read at once (DAQ.c:1020-1034,         *)
(* 1068-1080).                                                             *)
(***************************************************************************)
THEOREM NoGaps == Spec => []FilesJoin
<1>1. JoinInv /\ FillInv => FilesJoin
  BY DEF JoinInv, FillInv, FilesJoin, Joined
<1>2. QED
  BY <1>1, FilesFollow, PTL

(* The name of the next file is taken: only by the file just closed, or by *)
(* the first one of ZSUP.                                                  *)
LEMMA NameTaken ==
  ASSUME Inv, JoinInv, pc = "open", ~NameFree(now)
  PROVE  report[fileIndex - 1].tOpen = now \/ (prog = "ZSUP" /\ disk[0].name = now)
<1>0. /\ fileIndex \in 0..MaxFiles /\ MaxFiles \in Nat /\ fileIndex > 0 /\ now \in Int
      /\ report \in [Files -> ReportType]
      /\ \A f \in Files : f < fileIndex => report[f].tOpen <= now
      /\ \A f \in Files : f >= fileIndex => disk[f].st = "absent"
  BY OutputConstants DEF Inv, FilesTypeOK, FilesInv, JoinInv
<1>1. PICK f \in Files : disk[f].st # "absent" /\ disk[f].name = now
  BY DEF NameFree
<1>2. f < fileIndex /\ f \in Int
  BY <1>0, <1>1, ZeroIsFile
<1>3. fileIndex - 1 \in Files /\ fileIndex - 1 < fileIndex /\ f <= fileIndex - 1
  BY <1>0, <1>2 DEF Files
<1>4. CASE disk[f].name = report[f].tOpen
  <2>1. report[f].tOpen <= report[fileIndex - 1].tOpen
    BY <1>3 DEF JoinInv, Used
  <2>2. report[fileIndex - 1].tOpen <= now /\ report[fileIndex - 1].tOpen \in Int
    BY <1>0, <1>3 DEF ReportType
  <2>3. QED
    BY <1>0, <1>1, <1>4, <2>1, <2>2
<1>5. CASE disk[f].name # report[f].tOpen
  <2>1. f = 0
    BY <1>2, <1>5 DEF JoinInv, Used, Joined
  <2>2. prog = "ZSUP"
    BY <1>0, <1>5, <2>1 DEF JoinInv
  <2>3. QED
    BY <1>1, <2>1, <2>2
<1>6. QED
  BY <1>4, <1>5

(***************************************************************************)
(* OnlyHasteFails: a rotation is refused for its name only if the file     *)
(* just closed was opened within the same second, or ZSUP had named its    *)
(* first file after that second before it knew the time (Tools.c:133-140,  *)
(* DAQ.c:1075-1079, ZSUP.c:120).                                           *)
(***************************************************************************)
THEOREM RotationsGoOn == Spec => OnlyHasteFails
<1>1. ASSUME Inv, JoinInv, [Next]_vars, pc = "open", pc' = "failed", disk' = disk
      PROVE  \/ report[fileIndex - 1].tOpen = now
             \/ prog = "ZSUP" /\ disk[0].name = now
  <2>1. ~HeadFails
    <3> SUFFICES ASSUME HeadFails PROVE FALSE
      OBVIOUS
    <3>1. fileIndex \in Files /\ disk' = [disk EXCEPT ![fileIndex] = Opened(now, 0)]
      BY <1>1, OutputConstants DEF HeadFails, Inv, FilesTypeOK, Files
    <3>2. Opened(now, 0).st = "open" /\ disk \in [Files -> FileType]
      BY <1>1, NewFile DEF Inv, FilesTypeOK
    <3>3. disk[fileIndex].st = "absent"
      BY <1>1, <3>1, ZeroIsFile DEF Inv, FilesInv
    <3>4. disk'[fileIndex].st = "open"
      BY <3>1, <3>2
    <3>5. QED
      BY <1>1, <3>3, <3>4
  <2>2. PICK p, c : Reopen(p, c)
    BY <1>1, <2>1
       DEF Next, ProgramStep, Environment, DaqStep, FakeStep, ZsupStep, TrigStep,
           DaqOpen, DaqRead, DaqEvent, DaqCheck, DaqReopen, DaqClose,
           FakeOpen, FakeEvent, FakeCheck, FakeReopen, FakeClose,
           ZsupCreate, ZsupOpen, ZsupBadHead, ZsupRead, ZsupCheck, ZsupReopen, ZsupClose,
           TrigOpen, TrigRead, TrigEvent, TrigCheck, TrigReopen, TrigClose,
           Tick, Signal, QuitFile, StreamTail, WriteFails, Killed, vars,
           Check, Close, Start
  <2>3. ~NameFree(now)
    <3>1. CASE fileIndex < MaxFiles /\ NameFree(now)
      <4>1. pc' = IF Stops(p, now) THEN "final" ELSE "read"
        BY <2>2, <3>1 DEF Reopen
      <4>2. pc' = "failed"
        BY <1>1
      <4>3. CASE Stops(p, now)
        BY <4>1, <4>2, <4>3
      <4>4. CASE ~Stops(p, now)
        BY <4>1, <4>2, <4>4
      <4>5. QED
        BY <4>3, <4>4
    <3>2. CASE ~(fileIndex < MaxFiles)
      <4>1. pc' = "final"
        BY <2>2, <3>2 DEF Reopen
      <4>2. pc' = "failed"
        BY <1>1
      <4>3. QED
        BY <4>1, <4>2
    <3>3. QED
      BY <3>1, <3>2
  <2>4. QED
    BY <1>1, <2>3, NameTaken
<1>2. Inv /\ JoinInv /\ [Next]_vars
        => (pc = "open" /\ pc' = "failed" /\ disk' = disk
              => \/ report[fileIndex - 1].tOpen = now
                 \/ prog = "ZSUP" /\ disk[0].name = now)
  BY <1>1
<1>3. QED
  BY <1>2, FilesFollow, PTL DEF Spec, OnlyHasteFails

-----------------------------------------------------------------------------
(* Sums over the files, as the folds of the community modules make them:   *)
(* file by file, in an order that CHOOSE fixes.                            *)

Pick(s) == CHOOSE f \in s : TRUE

(* g[s] is the sum of w over the set s of files.                           *)
Sums(g, w) ==
  \A s \in SUBSET Files :
    g[s] = IF s = {} THEN 0 ELSE w[Pick(s)] + g[s \ {Pick(s)}]

LEMMA Induction ==
  ASSUME NEW N, N \subseteq Nat, 0 \in N, \A n \in N : n + 1 \in N
  PROVE  N = Nat
<1> SUFFICES ASSUME Nat \ N # {} PROVE FALSE
  OBVIOUS
<1>1. PICK n \in Nat \ N : \A m \in Nat \ N : ~ (<<m, n>> \in OpToRel(<, Nat))
  BY WFMin, NatLessThanWellFounded
<1>2. \A m \in Nat \ N : ~ (m < n)
  BY <1>1 DEF OpToRel
<1>3. n - 1 \in Nat /\ n - 1 < n
  OBVIOUS
<1>4. n - 1 \in N
  BY <1>2, <1>3
<1>5. QED
  BY <1>3, <1>4

LEMMA FilesFinite ==
  /\ IsFiniteSet(Files) /\ Cardinality(Files) \in Nat
  /\ \A s \in SUBSET Files : /\ IsFiniteSet(s) /\ Cardinality(s) \in Nat
                             /\ Cardinality(s) <= Cardinality(Files)
<1>1. IsFiniteSet(Files)
  BY OutputConstants, FS_Interval DEF Files
<1>2. QED
  BY <1>1, FS_Subset, FS_CardinalityType

LEMMA Picked ==
  ASSUME NEW s \in SUBSET Files, s # {}
  PROVE  /\ Pick(s) \in s /\ s \ {Pick(s)} \in SUBSET Files
         /\ Cardinality(s \ {Pick(s)}) = Cardinality(s) - 1
<1>1. Pick(s) \in s
  BY DEF Pick
<1>2. QED
  BY <1>1, FilesFinite, FS_RemoveElement

LEMMA FileByFile ==
  ASSUME NEW Good, {} \in Good,
         \A s \in SUBSET Files : s # {} /\ s \ {Pick(s)} \in Good => s \in Good
  PROVE  \A s \in SUBSET Files : s \in Good
<1> DEFINE N == {n \in Nat : \A s \in SUBSET Files : Cardinality(s) <= n => s \in Good}
<1>1. 0 \in N
  <2>1. ASSUME NEW s \in SUBSET Files, Cardinality(s) <= 0 PROVE s = {}
    BY <2>1, FilesFinite, FS_EmptySet
  <2>2. QED
    BY <2>1
<1>2. ASSUME NEW n \in N PROVE n + 1 \in N
  <2>1. ASSUME NEW s \in SUBSET Files, Cardinality(s) <= n + 1, s # {} PROVE s \in Good
    <3>1. /\ s \ {Pick(s)} \in SUBSET Files
          /\ Cardinality(s \ {Pick(s)}) = Cardinality(s) - 1
      BY <2>1, Picked
    <3>2. Cardinality(s \ {Pick(s)}) <= n
      BY <2>1, <3>1, FilesFinite
    <3>3. QED
      BY <2>1, <3>1, <3>2
  <2>2. QED
    BY <2>1
<1>3. N = Nat
  <2>1. N \subseteq Nat
    OBVIOUS
  <2> HIDE DEF N
  <2>2. QED
    BY <1>1, <1>2, <2>1, Induction
<1>4. Cardinality(Files) \in N
  BY <1>3, FilesFinite
<1>5. QED
  BY <1>4, FilesFinite

LEMMA SumExists ==
  ASSUME NEW w
  PROVE  \E g : Sums(g, w)
<1> DEFINE Upto(n, g) == \A s \in SUBSET Files : Cardinality(s) <= n =>
                           g[s] = IF s = {} THEN 0 ELSE w[Pick(s)] + g[s \ {Pick(s)}]
           N == {n \in Nat : \E g : Upto(n, g)}
<1>1. 0 \in N
  <2> DEFINE g == [s \in SUBSET Files |-> 0]
  <2>1. ASSUME NEW s \in SUBSET Files, Cardinality(s) <= 0 PROVE s = {}
    BY <2>1, FilesFinite, FS_EmptySet
  <2>2. Upto(0, g)
    BY <2>1
  <2>3. QED
    BY <2>2
<1>2. ASSUME NEW n \in N PROVE n + 1 \in N
  <2>1. PICK g : Upto(n, g)
    OBVIOUS
  <2> DEFINE h == [s \in SUBSET Files |-> IF Cardinality(s) <= n THEN g[s]
                                          ELSE w[Pick(s)] + g[s \ {Pick(s)}]]
  <2>2. ASSUME NEW s \in SUBSET Files, Cardinality(s) <= n + 1
        PROVE  h[s] = IF s = {} THEN 0 ELSE w[Pick(s)] + h[s \ {Pick(s)}]
    <3>1. CASE s = {}
      <4>1. Cardinality(s) <= n
        BY <3>1, FS_EmptySet
      <4>2. h[s] = g[s] /\ g[s] = 0
        BY <2>1, <3>1, <4>1
      <4>3. QED
        BY <3>1, <4>2
    <3>2. CASE s # {}
      <4>1. s \ {Pick(s)} \in SUBSET Files /\ Cardinality(s \ {Pick(s)}) <= n
        BY <2>2, <3>2, Picked, FilesFinite
      <4>2. h[s \ {Pick(s)}] = g[s \ {Pick(s)}]
        BY <4>1
      <4>3. h[s] = w[Pick(s)] + g[s \ {Pick(s)}]
        BY <2>1, <3>2
      <4>4. QED
        BY <3>2, <4>2, <4>3
    <3>3. QED
      BY <3>1, <3>2
  <2> HIDE DEF h
  <2>3. Upto(n + 1, h) /\ n + 1 \in Nat
    BY <2>2
  <2> HIDE DEF Upto
  <2>4. QED
    BY <2>3
<1>3. N = Nat
  <2>1. N \subseteq Nat
    OBVIOUS
  <2> HIDE DEF N
  <2>2. QED
    BY <1>1, <1>2, <2>1, Induction
<1>4. PICK g : Upto(Cardinality(Files), g)
  BY <1>3, FilesFinite
<1>5. Sums(g, w)
  BY <1>4, FilesFinite DEF Sums
<1>6. QED
  BY <1>5

(* Two sums differ by what they differ in at one file.                     *)
LEMMA SumChanges ==
  ASSUME NEW w \in [Files -> Int], NEW v \in [Files -> Int], NEW k \in Files,
         \A f \in Files \ {k} : v[f] = w[f],
         NEW g, Sums(g, w), NEW h, Sums(h, v)
  PROVE  g[Files] \in Int /\ h[Files] = g[Files] + v[k] - w[k]
<1> DEFINE D(s) == IF k \in s THEN v[k] - w[k] ELSE 0
           Good == {s \in SUBSET Files : g[s] \in Int /\ h[s] = g[s] + D(s)}
<1>1. {} \in Good
  <2>1. {} \in SUBSET Files /\ g[{}] = 0 /\ h[{}] = 0 /\ k \notin {}
    BY DEF Sums
  <2>2. QED
    BY <2>1
<1>2. ASSUME NEW s \in SUBSET Files, s # {}, s \ {Pick(s)} \in Good
      PROVE  s \in Good
  <2> DEFINE x == Pick(s)
  <2>1. x \in s /\ x \in Files
    BY <1>2, Picked
  <2>2. /\ g[s] = w[x] + g[s \ {x}] /\ h[s] = v[x] + h[s \ {x}]
        /\ w[x] \in Int /\ v[x] \in Int /\ v[k] \in Int /\ w[k] \in Int
    BY <1>2, <2>1 DEF Sums
  <2>3. g[s \ {x}] \in Int /\ h[s \ {x}] = g[s \ {x}] + D(s \ {x})
    BY <1>2
  <2>4. CASE x = k
    <3>1. D(s \ {x}) = 0 /\ D(s) = v[k] - w[k]
      BY <2>1, <2>4
    <3> HIDE DEF D, x
    <3>2. QED
      BY <2>2, <2>3, <2>4, <3>1
  <2>5. CASE x # k
    <3>1. D(s \ {x}) = D(s) /\ v[x] = w[x] /\ D(s) \in Int
      BY <2>1, <2>2, <2>5
    <3> HIDE DEF D, x
    <3>2. QED
      BY <2>2, <2>3, <2>5, <3>1
  <2>6. QED
    BY <2>4, <2>5
<1>3. Files \in Good
  <2> HIDE DEF Good
  <2>1. QED
    BY <1>1, <1>2, FileByFile
<1>4. QED
  BY <1>3

SizeOn(d) == FoldFunctionOnSet(LAMBDA f, n : f.size + n, 0, d, Files)
EventsOn(d) == FoldFunctionOnSet(LAMBDA f, n : Len(f.evs) + n, 0, d, Files)

LEMMA SizeIsSum ==
  ASSUME NEW d, NEW w \in [Files -> Int], \A f \in Files : w[f] = d[f].size
  PROVE  \E g : Sums(g, w) /\ SizeOn(d) = g[Files]
<1> DEFINE P(g) == g = [s \in SUBSET Files |->
                          IF s = {} THEN 0
                          ELSE d[CHOOSE x \in s : TRUE].size + g[s \ {CHOOSE x \in s : TRUE}]]
<1>1. SizeOn(d) = (CHOOSE g : P(g))[Files]
  BY DEF SizeOn, FoldFunctionOnSet, MapThenFoldSet
<1>2. \E g : P(g)
  <2>1. PICK g : Sums(g, w)
    BY SumExists
  <2> DEFINE h == [s \in SUBSET Files |-> g[s]]
  <2>2. ASSUME NEW s \in SUBSET Files
        PROVE  h[s] = IF s = {} THEN 0 ELSE d[Pick(s)].size + h[s \ {Pick(s)}]
    BY <2>1, Picked DEF Sums
  <2>3. P(h)
    BY <2>2 DEF Pick
  <2>4. QED
    BY <2>3
<1>3. PICK g : P(g) /\ SizeOn(d) = g[Files]
  BY <1>1, <1>2
<1>4. Sums(g, w)
  <2>1. ASSUME NEW s \in SUBSET Files
        PROVE  g[s] = IF s = {} THEN 0 ELSE d[Pick(s)].size + g[s \ {Pick(s)}]
    BY <1>3 DEF Pick
  <2>2. QED
    BY <2>1, Picked DEF Sums
<1>5. QED
  BY <1>3, <1>4

LEMMA EventsIsSum ==
  ASSUME NEW d, NEW w \in [Files -> Int], \A f \in Files : w[f] = Len(d[f].evs)
  PROVE  \E g : Sums(g, w) /\ EventsOn(d) = g[Files]
<1> DEFINE P(g) == g = [s \in SUBSET Files |->
                          IF s = {} THEN 0
                          ELSE Len(d[CHOOSE x \in s : TRUE].evs)
                               + g[s \ {CHOOSE x \in s : TRUE}]]
<1>1. EventsOn(d) = (CHOOSE g : P(g))[Files]
  BY DEF EventsOn, FoldFunctionOnSet, MapThenFoldSet
<1>2. \E g : P(g)
  <2>1. PICK g : Sums(g, w)
    BY SumExists
  <2> DEFINE h == [s \in SUBSET Files |-> g[s]]
  <2>2. ASSUME NEW s \in SUBSET Files
        PROVE  h[s] = IF s = {} THEN 0 ELSE Len(d[Pick(s)].evs) + h[s \ {Pick(s)}]
    BY <2>1, Picked DEF Sums
  <2>3. P(h)
    BY <2>2 DEF Pick
  <2>4. QED
    BY <2>3
<1>3. PICK g : P(g) /\ EventsOn(d) = g[Files]
  BY <1>1, <1>2
<1>4. Sums(g, w)
  <2>1. ASSUME NEW s \in SUBSET Files
        PROVE  g[s] = IF s = {} THEN 0 ELSE Len(d[Pick(s)].evs) + g[s \ {Pick(s)}]
    BY <1>3 DEF Pick
  <2>2. QED
    BY <2>1, Picked DEF Sums
<1>5. QED
  BY <1>3, <1>4

(* What is on disk changes by what one file does.                          *)
LEMMA DiskChanges ==
  ASSUME NEW d \in [Files -> FileType], NEW e \in [Files -> FileType],
         NEW k \in Files, \A f \in Files \ {k} : e[f] = d[f]
  PROVE  /\ SizeOn(d) \in Int /\ EventsOn(d) \in Int
         /\ SizeOn(e) = SizeOn(d) + e[k].size - d[k].size
         /\ EventsOn(e) = EventsOn(d) + Len(e[k].evs) - Len(d[k].evs)
<1> DEFINE w == [f \in Files |-> d[f].size]
           v == [f \in Files |-> e[f].size]
           l == [f \in Files |-> Len(d[f].evs)]
           m == [f \in Files |-> Len(e[f].evs)]
<1>1. /\ w \in [Files -> Int] /\ v \in [Files -> Int]
      /\ \A f \in Files : w[f] = d[f].size /\ v[f] = e[f].size
  BY DEF FileType
<1>2. /\ l \in [Files -> Int] /\ m \in [Files -> Int]
      /\ \A f \in Files : l[f] = Len(d[f].evs) /\ m[f] = Len(e[f].evs)
  BY DEF FileType
<1>3. /\ \A f \in Files \ {k} : v[f] = w[f]
      /\ \A f \in Files \ {k} : m[f] = l[f]
  OBVIOUS
<1> HIDE DEF w, v, l, m
<1>4. SizeOn(d) \in Int /\ SizeOn(e) = SizeOn(d) + e[k].size - d[k].size
  <2>1. PICK g : Sums(g, w) /\ SizeOn(d) = g[Files]
    BY <1>1, SizeIsSum
  <2>2. PICK h : Sums(h, v) /\ SizeOn(e) = h[Files]
    BY <1>1, SizeIsSum
  <2>3. g[Files] \in Int /\ h[Files] = g[Files] + v[k] - w[k]
    BY <1>1, <1>3, <2>1, <2>2, SumChanges
  <2>4. QED
    BY <1>1, <2>1, <2>2, <2>3
<1>5. EventsOn(d) \in Int /\ EventsOn(e) = EventsOn(d) + Len(e[k].evs) - Len(d[k].evs)
  <2>1. PICK g : Sums(g, l) /\ EventsOn(d) = g[Files]
    BY <1>2, EventsIsSum
  <2>2. PICK h : Sums(h, m) /\ EventsOn(e) = h[Files]
    BY <1>2, EventsIsSum
  <2>3. g[Files] \in Int /\ h[Files] = g[Files] + m[k] - l[k]
    BY <1>2, <1>3, <2>1, <2>2, SumChanges
  <2>4. QED
    BY <1>2, <2>1, <2>2, <2>3
<1>6. QED
  BY <1>4, <1>5

LEMMA NothingOnDisk ==
  ASSUME NEW d \in [Files -> FileType], \A f \in Files : d[f].size = 0 /\ d[f].evs = <<>>
  PROVE  SizeOn(d) = 0 /\ EventsOn(d) = 0
<1> DEFINE w == [f \in Files |-> 0]
<1>1. w \in [Files -> Int] /\ \A f \in Files : w[f] = d[f].size /\ w[f] = Len(d[f].evs)
  BY EmptySeq
<1>2. ASSUME NEW g, Sums(g, w) PROVE g[Files] = 0
  <2> DEFINE Good == {s \in SUBSET Files : g[s] = 0}
  <2>1. {} \in Good
    BY <1>2 DEF Sums
  <2>2. ASSUME NEW s \in SUBSET Files, s # {}, s \ {Pick(s)} \in Good PROVE s \in Good
    <3>1. g[s] = w[Pick(s)] + g[s \ {Pick(s)}] /\ Pick(s) \in Files
      BY <1>2, <2>2, Picked DEF Sums
    <3>2. QED
      BY <2>2, <3>1
  <2>3. QED
    <3> HIDE DEF Good
    <3>1. Files \in Good
      BY <2>1, <2>2, FileByFile
    <3> USE DEF Good
    <3>2. QED
      BY <3>1
<1> HIDE DEF w
<1>3. SizeOn(d) = 0
  BY <1>1, <1>2, SizeIsSum
<1>4. EventsOn(d) = 0
  BY <1>1, <1>2, EventsIsSum
<1>5. QED
  BY <1>3, <1>4

-----------------------------------------------------------------------------
(* The totals. *)

(***************************************************************************)
(* TotalsTell is inductive but for what the first file is before it is     *)
(* written to, and that the head the DAQ does not count is really there.   *)
(***************************************************************************)
TotalInv ==
  /\ total \in [size : Int, events : Int]
  /\ TotalsTell
  /\ \A f \in Files : disk[f].st = "absent" => disk[f] = Absent
  /\ pc \in {"start", "head"} => disk[0].size = 0 /\ total = [size |-> 0, events |-> 0]
  /\ pc = "head" => prog = "ZSUP"
  /\ prog = "DAQ" /\ disk[0].st # "absent" => disk[0].size >= HeadSize

Later == Cardinality(Created \ {0})

LEMMA OnDisk ==
  /\ SizeOnDisk = SizeOn(disk) /\ EventsOnDisk = EventsOn(disk)
  /\ SizeOnDisk' = SizeOn(disk') /\ EventsOnDisk' = EventsOn(disk')
  BY DEF SizeOnDisk, EventsOnDisk, SizeOn, EventsOn, FoldFunctionOnSet, MapThenFoldSet

(* What is not counted, program by program.                                *)
NotCounted ==
  /\ Later \in Nat /\ HeadSize * Later \in Int
  /\ prog = "DAQ" => Uncounted = IF disk[0].size > 0 THEN HeadSize ELSE 0
  /\ prog = "FAKE" /\ pc = "done" /\ ~tooMany => Uncounted = HeadSize * Later + TailSize
  /\ prog = "FAKE" /\ ~(pc = "done" /\ ~tooMany) => Uncounted = HeadSize * Later
  /\ prog \in {"ZSUP", "TRIG"} => Uncounted = 0

LEMMA HeadsCounted == HeadSize \in Nat /\ TailSize \in Nat /\ Later \in Nat /\ HeadSize * Later \in Int
<1>1. HeadSize \in Nat /\ TailSize \in Nat
  BY OutputConstants
<1>2. Later \in Nat
  BY FilesFinite, Created \ {0} \in SUBSET Files DEF Later, Created
<1>3. QED
  BY <1>1, <1>2

LEMMA UncountedIs == NotCounted
<1>1. prog = "DAQ" => Uncounted = IF disk[0].size > 0 THEN HeadSize ELSE 0
  BY DEF Uncounted
<1>2. prog = "FAKE" => Uncounted = HeadSize * Later + (IF pc = "done" /\ ~tooMany THEN TailSize ELSE 0)
  BY DEF Uncounted, Later
<1>3. prog \in {"ZSUP", "TRIG"} => Uncounted = 0
  BY DEF Uncounted
<1>4. prog = "FAKE" /\ pc = "done" /\ ~tooMany => Uncounted = HeadSize * Later + TailSize
  BY <1>2
<1>5. prog = "FAKE" /\ ~(pc = "done" /\ ~tooMany) => Uncounted = HeadSize * Later
  <2> SUFFICES ASSUME prog = "FAKE", ~(pc = "done" /\ ~tooMany) PROVE Uncounted = HeadSize * Later
    OBVIOUS
  <2>1. Uncounted = HeadSize * Later + 0
    BY <1>2
  <2>2. QED
    BY <2>1, HeadsCounted
<1>6. QED
  BY <1>1, <1>3, <1>4, <1>5, HeadsCounted DEF NotCounted

LEMMA UncountedNow == NotCounted'
  BY UncountedIs, PTL

(* No file begins.                                                         *)
LEMMA NoneCreated ==
  ASSUME NEW k \in Files, \A f \in Files \ {k} : disk'[f] = disk[f],
         disk[k].st = "absent" <=> disk'[k].st = "absent"
  PROVE  Later' = Later
<1>1. Created' = Created
  BY DEF Created
<1>2. QED
  BY <1>1 DEF Later

(* The first file begins.                                                  *)
LEMMA FirstCreated ==
  ASSUME \A f \in Files \ {0} : disk'[f] = disk[f]
  PROVE  Later' = Later
<1>1. (Created \ {0})' = Created \ {0}
  BY DEF Created
<1>2. QED
  BY <1>1 DEF Later

LEMMA OnlyFirst ==
  ASSUME \A f \in Files : f > 0 => disk[f].st = "absent"
  PROVE  Later = 0 /\ HeadSize * Later = 0
<1>1. Created \ {0} = {}
  <2>1. ASSUME NEW f \in Files, f # 0 PROVE disk[f].st = "absent"
    <3>1. f > 0
      BY <2>1, ZeroIsFile
    <3>2. QED
      BY <3>1
  <2>2. QED
    BY <2>1 DEF Created
<1>2. Later = 0
  BY <1>1, FS_EmptySet DEF Later
<1>3. QED
  BY <1>2, HeadsCounted

(* A file after the first begins.                                          *)
LEMMA OneCreated ==
  ASSUME NEW k \in Files \ {0}, \A f \in Files \ {k} : disk'[f] = disk[f],
         disk[k].st = "absent", disk'[k].st # "absent"
  PROVE  Later' = Later + 1 /\ HeadSize * Later' = HeadSize * Later + HeadSize
<1> DEFINE C == Created \ {0}
<1>1. (Created \ {0})' = C \cup {k} /\ k \notin C
  BY DEF Created
<1>2. C \in SUBSET Files /\ IsFiniteSet(C)
  BY FilesFinite DEF Created
<1>3. Cardinality(C \cup {k}) = Cardinality(C) + 1
  BY <1>1, <1>2, FS_AddElement
<1>4. Later' = Later + 1
  BY <1>1, <1>3 DEF Later
<1>5. QED
  BY <1>4, HeadsCounted

(* A step after which the books say what the one file that changed does.   *)
LEMMA TotalsMove ==
  ASSUME Inv, Inv', TotalInv, UNCHANGED prog, pc # "failed",
         NEW k \in Files, \A f \in Files \ {k} : disk'[f] = disk[f],
         disk'[k].st # "absent",
         total' \in [size : Int, events : Int],
         total'.events = total.events + Len(disk'[k].evs) - Len(disk[k].evs),
         Uncounted \in Int, Uncounted' \in Int,
         pc' = "failed" \/ total'.size + Uncounted' - total.size - Uncounted
                             = disk'[k].size - disk[k].size,
         pc' # "start",
         pc' = "head" => /\ disk'[0].size = 0 /\ total' = [size |-> 0, events |-> 0]
                         /\ prog = "ZSUP",
         prog = "DAQ" /\ k = 0 => disk'[0].size >= HeadSize
  PROVE  TotalInv'
<1>1. disk \in [Files -> FileType] /\ disk' \in [Files -> FileType]
  BY DEF Inv, FilesTypeOK
<1>2. /\ SizeOnDisk \in Int /\ EventsOnDisk \in Int
      /\ SizeOnDisk' = SizeOnDisk + disk'[k].size - disk[k].size
      /\ EventsOnDisk' = EventsOnDisk + Len(disk'[k].evs) - Len(disk[k].evs)
  BY <1>1, DiskChanges, OnDisk
<1>3. /\ total.size \in Int /\ total.events \in Int /\ total'.size \in Int
      /\ disk[k].size \in Int /\ disk'[k].size \in Int
      /\ Len(disk[k].evs) \in Int /\ Len(disk'[k].evs) \in Int
  BY <1>1 DEF TotalInv, FileType
<1>4. total.events = EventsOnDisk /\ total.size + Uncounted = SizeOnDisk
  BY DEF TotalInv, TotalsTell
<1>5. total'.events = EventsOnDisk'
  BY <1>2, <1>3, <1>4
<1>6. pc' # "failed" => total'.size + Uncounted' = SizeOnDisk'
  BY <1>2, <1>3, <1>4
<1>7. TotalsTell'
  BY <1>5, <1>6 DEF TotalsTell
<1>8. \A f \in Files : disk'[f].st = "absent" => disk'[f] = Absent
  BY DEF TotalInv
<1>9. prog' = "DAQ" /\ disk'[0].st # "absent" => disk'[0].size >= HeadSize
  BY ZeroIsFile DEF TotalInv
<1>10. QED
  BY <1>7, <1>8, <1>9 DEF TotalInv

(* A step that neither writes nor counts.                                  *)
LEMMA TotalsKept ==
  ASSUME Inv, TotalInv, UNCHANGED <<prog, disk, total>>,
         pc' \in {"start", "head"} => pc' = pc,
         pc' = "failed" \/ pc # "failed",
         pc' = "failed" \/ (pc' = "done" /\ ~tooMany' <=> pc = "done" /\ ~tooMany)
  PROVE  TotalInv'
<1>1. SizeOnDisk' = SizeOnDisk /\ EventsOnDisk' = EventsOnDisk
  BY OnDisk
<1>2. Created' = Created
  BY DEF Created
<1>3. pc' # "failed" => Uncounted' = Uncounted
  BY <1>2 DEF Uncounted
<1>4. TotalsTell'
  BY <1>1, <1>3 DEF TotalInv, TotalsTell
<1>5. QED
  BY <1>4 DEF TotalInv

LEMMA TotalInit == Init => TotalInv
<1> SUFFICES ASSUME Init PROVE TotalInv
  OBVIOUS
<1>1. Inv /\ disk \in [Files -> FileType] /\ 0 \in Files
  BY FilesInit, ZeroIsFile DEF Inv, FilesTypeOK
<1>2. \A f \in Files : disk[f] = Absent /\ disk[f].size = 0 /\ disk[f].evs = <<>> /\ disk[f].st = "absent"
  BY DEF Init, Absent
<1>3. SizeOnDisk = 0 /\ EventsOnDisk = 0
  BY <1>1, <1>2, NothingOnDisk, OnDisk
<1>4. Uncounted = 0
  <2>1. Created \ {0} = {} /\ Later = 0
    BY <1>2, FS_EmptySet DEF Created, Later
  <2>2. pc = "start" /\ prog \in {"DAQ", "FAKE", "ZSUP", "TRIG"}
    BY DEF Init, Programs
  <2>3. QED
    BY <1>1, <1>2, <2>1, <2>2, UncountedIs, HeadsCounted DEF NotCounted
<1>5. TotalsTell
  BY <1>3, <1>4 DEF TotalsTell, Init
<1>6. pc = "start" /\ total = [size |-> 0, events |-> 0]
  BY DEF Init
<1>7. QED
  BY <1>1, <1>2, <1>5, <1>6 DEF TotalInv

(* An event is written and counted.                                        *)
LEMMA WriteTotals ==
  ASSUME Inv, Inv', TotalInv, prog \in Programs, UNCHANGED <<prog, tooMany>>,
         pc \in {"read", "event"},
         NEW s \in Nat, WriteEvent(s), pc' \in {"read", "event", "check"}
  PROVE  TotalInv'
<1>0. /\ Writing /\ fileIndex \in Files /\ prog \in Programs
      /\ disk \in [Files -> FileType] /\ disk' \in [Files -> FileType]
  BY DEF Inv, FilesTypeOK, FilesInv, Writing
<1> DEFINE k == fileIndex
<1>1. /\ \A f \in Files \ {k} : disk'[f] = disk[f]
      /\ disk'[k].evs = Append(disk[k].evs, seen + 1)
      /\ disk[k].st = "open" /\ disk'[k].st = "open"
  BY <1>0, Writes DEF Writing
<1>2. disk'[k].size = disk[k].size + s /\ disk[k].size \in Int
  BY <1>0 DEF WriteEvent, FileType
<1>3. Len(disk'[k].evs) = Len(disk[k].evs) + 1 /\ Len(disk[k].evs) \in Nat
  BY <1>0, <1>1 DEF FileType
<1>4. total' = [size |-> total.size + s, events |-> total.events + 1]
  BY DEF WriteEvent
<1>5. /\ total'.size = total.size + s /\ total'.events = total.events + 1
      /\ total' \in [size : Int, events : Int]
      /\ total.size \in Int /\ total.events \in Int
  BY <1>4 DEF TotalInv
<1>6. Later' = Later
  BY <1>0, <1>1, NoneCreated
<1>7. prog = "DAQ" => disk[0].size >= HeadSize /\ disk'[0].size >= HeadSize
  <2>0. 0 \in Files /\ disk[0].size \in Int /\ HeadSize \in Int
    BY <1>0, ZeroIsFile, HeadsCounted DEF FileType
  <2>1. disk[0].st # "absent"
    <3>1. 0 < k => disk[0].st = "sealed"
      BY <2>0 DEF Inv, FilesInv
    <3>2. k = 0 \/ 0 < k
      BY <1>0, ZeroIsFile
    <3>3. QED
      BY <1>1, <3>1, <3>2
  <2>2. disk'[0].size = disk[0].size \/ disk'[0].size = disk[0].size + s
    BY <1>1, <1>2, <2>0
  <2>3. QED
    BY <2>0, <2>1, <2>2 DEF TotalInv
<1>8. Uncounted' = Uncounted /\ Uncounted \in Int
  <2>1. /\ ~(pc = "done" /\ ~tooMany) /\ ~(pc' = "done" /\ ~tooMany')
        /\ prog \in {"DAQ", "FAKE", "ZSUP", "TRIG"} /\ 0 \in Files /\ HeadSize \in Nat
        /\ disk[0].size \in Int /\ disk'[0].size \in Int
    BY <1>0, ZeroIsFile, HeadsCounted DEF Programs, FileType
  <2>2. CASE prog = "DAQ"
    <3>1. Uncounted = IF disk[0].size > 0 THEN HeadSize ELSE 0
      BY <2>2, UncountedIs DEF NotCounted
    <3>2. Uncounted' = IF disk'[0].size > 0 THEN HeadSize ELSE 0
      BY <2>2, UncountedNow DEF NotCounted
    <3>3. QED
      BY <1>7, <2>1, <2>2, <3>1, <3>2
  <2>3. CASE prog = "FAKE"
    BY <1>6, <2>1, <2>3, UncountedIs, UncountedNow DEF NotCounted
  <2>4. CASE prog \in {"ZSUP", "TRIG"}
    BY <2>4, UncountedIs, UncountedNow DEF NotCounted
  <2>5. QED
    BY <2>1, <2>2, <2>3, <2>4
<1>9. total'.events = total.events + Len(disk'[k].evs) - Len(disk[k].evs)
  BY <1>3, <1>5
<1>10. total'.size + Uncounted' - total.size - Uncounted = disk'[k].size - disk[k].size
  BY <1>2, <1>5, <1>8
<1> HIDE DEF k
<1>11. k \in Files
  BY <1>0 DEF k
<1>12. QED
  BY <1>1, <1>5, <1>7, <1>8, <1>9, <1>10, <1>11, TotalsMove

(* A file that has begun: the DAQ's first head is what it does not count.  *)
LEMMA FirstHead ==
  ASSUME NEW n \in Int, n >= HeadSize
  PROVE  (IF n > 0 THEN HeadSize ELSE 0) = HeadSize
  BY HeadsCounted

LEMMA FirstBegun ==
  ASSUME Inv, NEW k \in Files, fileIndex = k, disk[k].st # "absent"
  PROVE  disk[0].st # "absent"
<1>1. 0 < k => disk[0].st = "sealed"
  BY ZeroIsFile DEF Inv, FilesInv
<1>2. k = 0 \/ 0 < k
  BY ZeroIsFile
<1>3. QED
  BY <1>1, <1>2

(* The open file gets its tail, counted except by FAKE at its end.         *)
LEMMA SealTotals ==
  ASSUME Inv, Inv', TotalInv, prog \in Programs, UNCHANGED <<prog, tooMany>>,
         Writing, ~tooMany, pc \notin Ended, NEW t \in Int, SealFile(t),
         pc' \in {"open", "done", "failed"},
         \/ /\ total' = [total EXCEPT !.size = @ + TailSize]
            /\ ~(prog = "FAKE" /\ pc' = "done")
         \/ /\ total' = total
            /\ prog = "FAKE" /\ pc' \in {"done", "failed"}
  PROVE  TotalInv'
<1>0. PICK k \in Files : fileIndex = k
  BY DEF Writing
<1>1. /\ \A f \in Files \ {k} : disk'[f] = disk[f]
      /\ disk'[k].evs = disk[k].evs /\ disk'[k].st = "sealed" /\ disk[k].st = "open"
      /\ disk \in [Files -> FileType] /\ disk' \in [Files -> FileType]
  BY <1>0, Seals DEF Writing, Inv, FilesTypeOK
<1>2. disk'[k].size = disk[k].size + TailSize
  <2>1. disk' = [disk EXCEPT ![k].st = "sealed", ![k].size = @ + TailSize,
                             ![k].n = report[k].events,
                             ![k].tail = report[k].size + TailSize]
    BY <1>0 DEF SealFile
  <2>2. QED
    BY <1>0, <1>1, <2>1 DEF FileType
<1>3. disk[k].size \in Int /\ TailSize \in Nat /\ HeadSize \in Nat /\ Len(disk[k].evs) \in Int
  BY <1>1, HeadsCounted DEF FileType
<1>4. Later' = Later
  BY <1>1, NoneCreated
<1>5. prog = "DAQ" => disk[0].size >= HeadSize /\ disk'[0].size >= HeadSize
  <2>1. disk[0].st # "absent"
    BY <1>0, <1>1, FirstBegun
  <2>2. disk'[0].size = disk[0].size \/ disk'[0].size = disk[0].size + TailSize
    BY <1>1, <1>2, ZeroIsFile
  <2>3. disk[0].size \in Int
    BY <1>1, ZeroIsFile DEF FileType
  <2>4. QED
    BY <1>3, <2>1, <2>2, <2>3 DEF TotalInv
<1>6. /\ total' \in [size : Int, events : Int] /\ total'.events = total.events
      /\ total.size \in Int /\ total.events \in Int
  BY <1>3 DEF TotalInv
<1>7. /\ Uncounted \in Int /\ Uncounted' \in Int
      /\ pc' = "failed" \/ total'.size + Uncounted' - total.size - Uncounted = TailSize
  <2>0. ~(pc = "done" /\ ~tooMany) /\ 0 \in Files /\ disk[0].size \in Int /\ disk'[0].size \in Int
    BY <1>1, ZeroIsFile DEF Ended, FileType
  <2>1. CASE prog = "DAQ"
    <3>1. Uncounted = HeadSize
      BY <1>5, <2>0, <2>1, UncountedIs, FirstHead DEF NotCounted
    <3>2. Uncounted' = HeadSize
      BY <1>5, <2>0, <2>1, UncountedNow, FirstHead DEF NotCounted
    <3>3. total' = [total EXCEPT !.size = @ + TailSize]
      BY <2>1
    <3>4. total'.size = total.size + TailSize
      BY <3>3 DEF TotalInv
    <3>5. QED
      BY <1>3, <1>6, <3>1, <3>2, <3>4
  <2>2. CASE prog = "FAKE"
    <3>1. Uncounted = HeadSize * Later /\ HeadSize * Later \in Int
      BY <2>0, <2>2, UncountedIs DEF NotCounted
    <3>2. CASE pc' = "done"
      <4>1. total' = total /\ Uncounted' = HeadSize * Later + TailSize
        BY <1>4, <2>2, <3>2, UncountedNow DEF NotCounted
      <4>2. QED
        BY <1>3, <1>6, <3>1, <4>1
    <3>3. CASE pc' # "done"
      <4>1. Uncounted' = HeadSize * Later
        BY <1>4, <2>2, <3>3, UncountedNow DEF NotCounted
      <4>2. pc' = "failed" \/ total'.size = total.size + TailSize
        BY <3>3 DEF TotalInv
      <4>3. QED
        BY <1>3, <1>6, <3>1, <4>1, <4>2
    <3>4. QED
      BY <3>2, <3>3
  <2>3. CASE prog \in {"ZSUP", "TRIG"}
    <3>1. Uncounted = 0 /\ Uncounted' = 0
      BY <2>3, UncountedIs, UncountedNow DEF NotCounted
    <3>2. total' = [total EXCEPT !.size = @ + TailSize]
      BY <2>3
    <3>3. total'.size = total.size + TailSize
      BY <3>2 DEF TotalInv
    <3>4. QED
      BY <1>3, <1>6, <3>1, <3>3
  <2>4. QED
    BY <2>1, <2>2, <2>3 DEF Programs
<1>8. total'.events = total.events + Len(disk'[k].evs) - Len(disk[k].evs)
  BY <1>1, <1>3, <1>6
<1>9. pc' = "failed" \/ total'.size + Uncounted' - total.size - Uncounted
                          = disk'[k].size - disk[k].size
  BY <1>2, <1>3, <1>7
<1>10. pc # "failed" /\ pc' \notin {"start", "head"} /\ disk'[k].st # "absent"
  BY <1>1 DEF Ended
<1>11. QED
  BY <1>1, <1>5, <1>6, <1>7, <1>8, <1>9, <1>10, TotalsMove

LEMMA BeginsEmpty ==
  ASSUME Inv, TotalInv, NEW k \in Files, disk[k].st = "absent" \/ pc \in {"start", "head"},
         pc \in {"start", "head"} => k = 0
  PROVE  disk[k].size = 0 /\ disk[k].evs = <<>>
<1>1. CASE disk[k].st = "absent"
  BY <1>1 DEF TotalInv, Absent
<1>2. CASE pc = "head"
  BY <1>2 DEF TotalInv, Inv, FilesInv
<1>3. CASE pc = "start"
  <2>1. disk[0].st = "absent" /\ k = 0
    BY <1>3, ZeroIsFile DEF Inv, FilesInv
  <2>2. QED
    BY <1>1, <2>1
<1>4. QED
  BY <1>1, <1>2, <1>3

(* The next file: FAKE does not count its head.                            *)
LEMMA ReopenTotals ==
  ASSUME Inv, Inv', TotalInv, JoinInv, NEW p \in Programs,
         NEW c, c <=> p # "FAKE", Reopen(p, c)
  PROVE  TotalInv'
<1>0. /\ pc = "open" /\ prog = p /\ UNCHANGED <<prog, fileIndex>> /\ now \in Int
      /\ fileIndex \in 0..MaxFiles /\ fileIndex > 0
      /\ \A f \in Files : f >= fileIndex => disk[f].st = "absent"
      /\ disk \in [Files -> FileType] /\ disk' \in [Files -> FileType]
  BY DEF Reopen, fixed, Inv, FilesTypeOK, FilesInv, JoinInv
<1>1. CASE ~(fileIndex < MaxFiles /\ NameFree(now))
  <2>1. UNCHANGED <<prog, disk, total>> /\ pc' \in {"failed", "final"}
    BY <1>1 DEF Reopen, fixed
  <2>2. QED
    BY <1>0, <2>1, TotalsKept
<1>2. CASE fileIndex < MaxFiles /\ NameFree(now)
  <2>1. PICK k \in Files : fileIndex = k
    BY <1>0, <1>2, OutputConstants DEF Files
  <2>2. OpenFile(k, now, now) /\ pc' \in {"final", "read"}
    <3>1. OpenFile(k, now, now)
      BY <1>2, <2>1 DEF Reopen
    <3>2. pc' \in {"final", "read"}
      BY <1>2 DEF Reopen
    <3>3. QED
      BY <3>1, <3>2
  <2>3. /\ \A f \in Files \ {k} : disk'[f] = disk[f]
        /\ disk'[k].evs = <<>> /\ disk'[k].st = "open"
    BY <1>0, <2>2, OpensTimes
  <2>4. disk'[k].size = HeadSize
    <3>1. Opened(now, HeadSize).size = HeadSize /\ disk' = [disk EXCEPT ![k] = Opened(now, HeadSize)]
      BY <1>0, <2>2, NewFile, HeadsCounted DEF OpenFile
    <3>2. QED
      BY <1>0, <3>1
  <2>5. disk[k].st = "absent" /\ disk[k].size = 0 /\ disk[k].evs = <<>> /\ k # 0
    <3>1. disk[k].st = "absent" /\ k # 0
      BY <1>0, <2>1, ZeroIsFile
    <3>2. QED
      BY <1>0, <3>1, BeginsEmpty
  <2>6. Later' = Later + 1 /\ HeadSize * Later' = HeadSize * Later + HeadSize
    BY <2>3, <2>5, OneCreated
  <2>7. total.size \in Int /\ total.events \in Int /\ HeadSize \in Nat
    BY HeadsCounted DEF TotalInv
  <2>8. /\ total' \in [size : Int, events : Int] /\ total'.events = total.events
        /\ p # "FAKE" => total'.size = total.size + HeadSize
        /\ p = "FAKE" => total'.size = total.size
    <3>1. total' = IF c THEN [total EXCEPT !.size = @ + HeadSize] ELSE total
      BY <1>2 DEF Reopen
    <3>2. total \in [size : Int, events : Int]
      BY DEF TotalInv
    <3>3. CASE p = "FAKE"
      BY <3>1, <3>2, <3>3
    <3>4. CASE p # "FAKE"
      <4>1. total' = [total EXCEPT !.size = @ + HeadSize]
        BY <3>1, <3>4
      <4>2. QED
        BY <2>7, <3>2, <3>4, <4>1
    <3>5. QED
      BY <3>3, <3>4
  <2>9. /\ Uncounted \in Int /\ Uncounted' \in Int
        /\ total'.size + Uncounted' - total.size - Uncounted = HeadSize
    <3>0. disk'[0] = disk[0]
      BY <2>3, <2>5, ZeroIsFile
    <3>1. CASE p = "DAQ"
      <4>1. Uncounted = IF disk[0].size > 0 THEN HeadSize ELSE 0
        BY <1>0, <3>1, UncountedIs DEF NotCounted
      <4>2. Uncounted' = IF disk[0].size > 0 THEN HeadSize ELSE 0
        BY <1>0, <3>0, <3>1, UncountedNow DEF NotCounted
      <4>3. QED
        BY <2>7, <2>8, <3>1, <4>1, <4>2
    <3>2. CASE p = "FAKE"
      <4>1. Uncounted = HeadSize * Later /\ HeadSize * Later \in Int
        BY <1>0, <3>2, UncountedIs DEF NotCounted
      <4>2. Uncounted' = HeadSize * Later'
        BY <1>0, <2>2, <3>2, UncountedNow DEF NotCounted
      <4>3. QED
        BY <2>6, <2>7, <2>8, <3>2, <4>1, <4>2
    <3>3. CASE p \in {"ZSUP", "TRIG"}
      <4>1. Uncounted = 0 /\ Uncounted' = 0
        BY <1>0, <3>3, UncountedIs, UncountedNow DEF NotCounted
      <4>2. QED
        BY <2>7, <2>8, <3>3, <4>1
    <3>4. QED
      BY <3>1, <3>2, <3>3 DEF Programs
  <2>10. total'.events = total.events + Len(disk'[k].evs) - Len(disk[k].evs)
    <3>1. Len(disk'[k].evs) = 0 /\ Len(disk[k].evs) = 0
      BY <2>3, <2>5, EmptySeq
    <3>2. QED
      BY <2>7, <2>8, <3>1
  <2>11. total'.size + Uncounted' - total.size - Uncounted = disk'[k].size - disk[k].size
    BY <2>4, <2>5, <2>7, <2>9
  <2>12. QED
    BY <1>0, <2>2, <2>3, <2>5, <2>8, <2>9, <2>10, <2>11, TotalsMove
<1>3. QED
  BY <1>1, <1>2

(* The first file: the DAQ does not count its head.                        *)
LEMMA StartTotals ==
  ASSUME Inv, Inv', TotalInv, NEW p \in Programs, NEW name \in Int,
         NEW c, c <=> p # "DAQ", Start(p, name, c), pc \in {"start", "head"}
  PROVE  TotalInv'
<1>0. /\ prog = p /\ UNCHANGED prog /\ pc' = "read" /\ clock \in Int /\ 0 \in Files
      /\ OpenFile(0, name, clock)
      /\ \A f \in Files : f > 0 => disk[f].st = "absent"
      /\ disk \in [Files -> FileType] /\ disk' \in [Files -> FileType]
  BY ZeroIsFile DEF Start, fixed, Inv, FilesTypeOK, FilesInv
<1>1. /\ \A f \in Files \ {0} : disk'[f] = disk[f]
      /\ disk'[0].evs = <<>> /\ disk'[0].st = "open"
  BY <1>0, OpensTimes
<1>2. disk'[0].size = HeadSize
  <2>1. Opened(name, HeadSize).size = HeadSize /\ disk' = [disk EXCEPT ![0] = Opened(name, HeadSize)]
    BY <1>0, NewFile, HeadsCounted DEF OpenFile
  <2>2. QED
    BY <1>0, <2>1
<1>3. disk[0].size = 0 /\ disk[0].evs = <<>>
  BY <1>0, BeginsEmpty
<1>4. /\ total.size = 0 /\ total.events = 0 /\ HeadSize \in Nat
      /\ total' \in [size : Int, events : Int] /\ total'.events = 0
      /\ p # "DAQ" => total'.size = HeadSize
      /\ p = "DAQ" => total'.size = 0
  <2>1. total = [size |-> 0, events |-> 0]
    BY DEF TotalInv
  <2>2. total' = [size |-> IF c THEN HeadSize ELSE 0, events |-> 0]
    BY DEF Start
  <2>3. (IF c THEN HeadSize ELSE 0) = IF p = "DAQ" THEN 0 ELSE HeadSize
    OBVIOUS
  <2>4. QED
    BY <2>1, <2>2, <2>3, HeadsCounted
<1>5. /\ Uncounted \in Int /\ Uncounted' \in Int
      /\ total'.size + Uncounted' - total.size - Uncounted = HeadSize
  <2>0. Later' = Later /\ HeadSize * Later = 0
    BY <1>0, <1>1, OnlyFirst, FirstCreated
  <2>1. CASE p = "DAQ"
    <3>1. Uncounted = 0
      BY <1>0, <1>3, <2>1, UncountedIs DEF NotCounted
    <3>2. Uncounted' = HeadSize
      BY <1>0, <1>2, <1>4, <2>1, UncountedNow DEF NotCounted
    <3>3. QED
      BY <1>4, <2>1, <3>1, <3>2
  <2>2. CASE p = "FAKE"
    <3>1. Uncounted = 0 /\ Uncounted' = 0
      BY <1>0, <2>0, <2>2, UncountedIs, UncountedNow DEF NotCounted
    <3>2. QED
      BY <1>4, <2>2, <3>1
  <2>3. CASE p \in {"ZSUP", "TRIG"}
    <3>1. Uncounted = 0 /\ Uncounted' = 0
      BY <1>0, <2>3, UncountedIs, UncountedNow DEF NotCounted
    <3>2. QED
      BY <1>4, <2>3, <3>1
  <2>4. QED
    BY <2>1, <2>2, <2>3 DEF Programs
<1>6. total'.events = total.events + Len(disk'[0].evs) - Len(disk[0].evs)
  BY <1>1, <1>3, <1>4, EmptySeq
<1>7. total'.size + Uncounted' - total.size - Uncounted = disk'[0].size - disk[0].size
  BY <1>2, <1>3, <1>4, <1>5
<1>8. disk'[0].size >= HeadSize
  BY <1>2, <1>4
<1>9. QED
  BY <1>0, <1>1, <1>4, <1>5, <1>6, <1>7, <1>8, TotalsMove

(* A file is created and its head not written, or not yet.                 *)
LEMMA CreateTotals ==
  ASSUME Inv, Inv', TotalInv, prog \in Programs, UNCHANGED <<prog, total>>,
         NEW k \in Files, disk[k].st = "absent", NEW name \in Int,
         disk' = [disk EXCEPT ![k] = Opened(name, 0)],
         pc \notin Ended,
         \/ pc = "start" /\ pc' = "head" /\ k = 0 /\ prog = "ZSUP"
         \/ pc' = "failed" /\ k # 0
  PROVE  TotalInv'
<1>0. /\ disk \in [Files -> FileType] /\ pc # "failed" /\ pc' # "start"
      /\ Opened(name, 0).size = 0 /\ Opened(name, 0).evs = <<>> /\ Opened(name, 0).st = "open"
  BY NewFile DEF Inv, FilesTypeOK, Ended
<1>1. /\ \A f \in Files \ {k} : disk'[f] = disk[f]
      /\ disk'[k].size = 0 /\ disk'[k].evs = <<>> /\ disk'[k].st # "absent"
  BY <1>0
<1>2. disk[k].size = 0 /\ disk[k].evs = <<>>
  BY DEF TotalInv, Absent
<1>3. total \in [size : Int, events : Int]
  BY DEF TotalInv
<1>4. total'.events = total.events + Len(disk'[k].evs) - Len(disk[k].evs)
  BY <1>1, <1>2, <1>3, EmptySeq
<1>5. Uncounted \in Int /\ Uncounted' \in Int
  <2>1. HeadSize \in Int /\ TailSize \in Int /\ prog \in {"DAQ", "FAKE", "ZSUP", "TRIG"}
    BY HeadsCounted DEF Programs
  <2>2. Uncounted \in Int
    BY <2>1, UncountedIs DEF NotCounted
  <2>3. Uncounted' \in Int
    BY <2>1, UncountedNow DEF NotCounted
  <2>4. QED
    BY <2>2, <2>3
<1>6. pc' = "failed" \/ total'.size + Uncounted' - total.size - Uncounted
                          = disk'[k].size - disk[k].size
  <2>1. CASE prog = "ZSUP"
    <3>1. Uncounted = 0 /\ Uncounted' = 0
      BY <2>1, UncountedIs, UncountedNow DEF NotCounted
    <3>2. QED
      BY <1>1, <1>2, <1>3, <3>1
  <2>2. QED
    BY <2>1
<1>7. pc' = "head" => /\ disk'[0].size = 0 /\ total' = [size |-> 0, events |-> 0]
                      /\ prog = "ZSUP"
  BY <1>1 DEF TotalInv
<1>8. QED
  BY <1>0, <1>1, <1>3, <1>4, <1>5, <1>6, <1>7, TotalsMove

LEMMA CheckTotals ==
  ASSUME Inv, Inv', TotalInv, NEW p \in Programs, Check(p)
  PROVE  TotalInv'
<1>0. /\ pc = "check" /\ prog = p /\ UNCHANGED <<prog, tooMany>> /\ clock \in Int
      /\ Writing /\ ~tooMany
  BY DEF Check, fixed, flags, Inv, FilesTypeOK, FilesInv, Ended
<1>1. CASE ~Full(clock)
  <2>1. UNCHANGED <<prog, disk, total>> /\ pc' \in {"final", "read"}
    BY <1>1 DEF Check, fixed
  <2>2. QED
    BY <1>0, <2>1, TotalsKept
<1>2. CASE Full(clock)
  <2>1. /\ SealFile(clock) /\ pc' = "open"
        /\ total' = [total EXCEPT !.size = @ + TailSize]
    BY <1>2 DEF Check
  <2>2. QED
    BY <1>0, <2>1, SealTotals DEF Ended
<1>3. QED
  BY <1>1, <1>2

(* The end: FAKE does not count its last tail.                             *)
LEMMA CloseTotals ==
  ASSUME Inv, Inv', TotalInv, NEW p \in Programs, NEW t \in Int,
         NEW c, c <=> p # "FAKE", Close(p, t, c)
  PROVE  TotalInv'
<1>0. /\ pc = "final" /\ prog = p /\ UNCHANGED <<prog, tooMany>> /\ tooMany \in BOOLEAN
      /\ pc' \in {"done", "failed"}
  BY DEF Close, fixed, flags, Inv, FilesTypeOK
<1>1. CASE tooMany
  <2>1. UNCHANGED <<prog, disk, total>>
    BY <1>0, <1>1 DEF Close
  <2>2. QED
    BY <1>0, <1>1, <2>1, TotalsKept
<1>2. CASE ~tooMany
  <2>1. /\ SealFile(t) /\ Writing
        /\ total' = IF c THEN [total EXCEPT !.size = @ + TailSize] ELSE total
    BY <1>0, <1>2 DEF Close, Inv, FilesInv
  <2>2. CASE p = "FAKE"
    BY <1>0, <1>2, <2>1, <2>2, SealTotals DEF Ended
  <2>3. CASE p # "FAKE"
    BY <1>0, <1>2, <2>1, <2>3, SealTotals DEF Ended
  <2>4. QED
    BY <2>2, <2>3
<1>3. QED
  BY <1>1, <1>2

LEMMA SizesAre == EvSizes \subseteq Nat /\ TrigSize \in Nat
  BY OutputConstants

LEMMA TotalStep == ASSUME Inv, Inv', JoinInv, TotalInv, [Next]_vars PROVE TotalInv'
<1>0. prog \in Programs /\ {clock, now} \subseteq Int
  BY DEF JoinInv, Inv, FilesTypeOK
<1> USE DEF books, flags, times, fixed, told
<1>1. ASSUME UNCHANGED <<prog, disk, total>>, pc \notin Ended,
             pc' \in {"read", "event", "check", "open", "final", "failed", "killed"}
      PROVE  TotalInv'
  BY <1>1, TotalsKept DEF Ended
<1>2. CASE DaqRead \/ TrigRead
  BY <1>1, <1>2 DEF DaqRead, TrigRead, Ended
<1>3. CASE DaqEvent \/ TrigEvent \/ FakeEvent \/ ZsupRead
  <2>1. /\ pc \in {"read", "event"} /\ UNCHANGED <<prog, tooMany>>
        /\ pc' \in {"event", "check", "final", "failed"}
    BY <1>3 DEF DaqEvent, TrigEvent, FakeEvent, ZsupRead
  <2>2. \/ UNCHANGED <<disk, total>>
        \/ pc' \in {"event", "check"} /\ \E s \in EvSizes \cup {TrigSize} : WriteEvent(s)
    BY <1>3 DEF DaqEvent, TrigEvent, FakeEvent, ZsupRead
  <2>3. CASE UNCHANGED <<disk, total>>
    BY <1>1, <2>1, <2>3 DEF Ended
  <2>4. CASE pc' \in {"event", "check"} /\ \E s \in EvSizes \cup {TrigSize} : WriteEvent(s)
    <3>1. PICK s \in Nat : WriteEvent(s)
      BY <2>4, SizesAre
    <3>2. QED
      BY <1>0, <2>1, <2>4, <3>1, WriteTotals
  <2>5. QED
    BY <2>2, <2>3, <2>4
<1>4. CASE DaqCheck \/ FakeCheck \/ ZsupCheck \/ TrigCheck
  BY <1>4, CheckTotals DEF DaqCheck, FakeCheck, ZsupCheck, TrigCheck, Programs
<1>5. CASE DaqReopen \/ FakeReopen \/ ZsupReopen \/ TrigReopen
  <2>1. PICK p \in Programs, c \in BOOLEAN : Reopen(p, c) /\ (c <=> p # "FAKE")
    BY <1>5 DEF DaqReopen, FakeReopen, ZsupReopen, TrigReopen, Programs
  <2>2. QED
    BY <2>1, ReopenTotals
<1>6. CASE DaqClose \/ FakeClose \/ ZsupClose \/ TrigClose
  <2>1. PICK p \in Programs, t \in Int, c \in BOOLEAN : Close(p, t, c) /\ (c <=> p # "FAKE")
    BY <1>0, <1>6 DEF DaqClose, FakeClose, ZsupClose, TrigClose, Programs
  <2>2. QED
    BY <2>1, CloseTotals
<1>7. CASE DaqOpen \/ FakeOpen \/ ZsupOpen \/ TrigOpen
  <2>0. disk[0].name \in Int
    BY ZeroIsFile DEF Inv, FilesTypeOK, FileType
  <2>1. PICK p \in Programs, name \in Int, c \in BOOLEAN :
          Start(p, name, c) /\ (c <=> p # "DAQ")
    BY <1>0, <1>7, <2>0 DEF DaqOpen, FakeOpen, ZsupOpen, TrigOpen, Programs
  <2>2. pc \in {"start", "head"}
    BY <1>7 DEF DaqOpen, FakeOpen, ZsupOpen, TrigOpen
  <2>3. QED
    BY <2>1, <2>2, StartTotals
<1>8. CASE ZsupCreate
  <2>1. PICK name \in 0 .. MaxClock + 1 : disk' = [disk EXCEPT ![0] = Opened(name, 0)]
    BY <1>8 DEF ZsupCreate
  <2>2. disk[0].st = "absent" /\ name \in Int
    BY <1>8, <2>1, ZeroIsFile DEF ZsupCreate, Inv, FilesInv
  <2>3. /\ pc = "start" /\ pc' = "head" /\ prog = "ZSUP" /\ UNCHANGED <<prog, total>>
        /\ pc \notin Ended
    BY <1>8 DEF ZsupCreate, Ended
  <2>4. QED
    BY <1>0, <2>1, <2>2, <2>3, ZeroIsFile, CreateTotals
<1>9. CASE HeadFails
  <2>1. PICK k \in Files : fileIndex = k
    BY <1>9, OutputConstants DEF HeadFails, Inv, FilesTypeOK, Files
  <2>2. /\ disk' = [disk EXCEPT ![k] = Opened(now, 0)] /\ pc = "open" /\ pc' = "failed"
        /\ UNCHANGED <<prog, total>> /\ pc \notin Ended
    BY <1>9, <2>1 DEF HeadFails, Ended
  <2>3. disk[k].st = "absent" /\ k # 0 /\ now \in Int
    BY <1>0, <2>1, <2>2, ZeroIsFile DEF JoinInv, Inv, FilesInv
  <2>4. QED
    BY <1>0, <2>2, <2>3, CreateTotals
<1>10. CASE ZsupBadHead \/ WriteFails \/ Killed
  BY <1>1, <1>10 DEF ZsupBadHead, WriteFails, Killed, Ended
<1>11. CASE Tick \/ Signal \/ QuitFile \/ StreamTail \/ UNCHANGED vars
  <2>1. UNCHANGED <<prog, disk, total, pc, tooMany>>
    BY <1>11 DEF Tick, Signal, QuitFile, StreamTail, vars
  <2>2. QED
    BY <2>1, TotalsKept
<1>12. QED
  BY <1>2, <1>3, <1>4, <1>5, <1>6, <1>7, <1>8, <1>9, <1>10, <1>11
     DEF Next, ProgramStep, Environment, DaqStep, FakeStep, ZsupStep, TrigStep

(***************************************************************************)
(* TotalsTell: through every rotation the totals reported at the end agree *)
(* with what is in the files, up to the heads and tails that a program     *)
(* does not count (DAQ.c:812-819, 1045, 1097, 1149, 1209; FAKE.c:182, 236, *)
(* 277, 326).                                                              *)
(***************************************************************************)
THEOREM TotalsAddUp == Spec => []TotalsTell
<1>1. Inv /\ Inv' /\ JoinInv /\ TotalInv /\ [Next]_vars => TotalInv'
  BY TotalStep
<1>2. TotalInv => TotalsTell
  BY DEF TotalInv
<1>3. QED
  BY <1>1, <1>2, FilesFollow, TotalInit, PTL DEF Spec
=============================================================================

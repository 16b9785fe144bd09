# A verification project for the PADME data acquisition

PADME is a fixed-target experiment; this repository holds its run control, its
data acquisition programs, the Level1 event builder, a simulation and a
reconstruction.  The specifications here are about the part that is a
concurrent system: the run control server, the processes it launches on
several nodes, and the control files, FIFOs and signals through which they
act on each other.

## 1. Inventory

### The parts and how they interact

    client (RunControlText.py)
        |  TCP or Unix socket: commands, answers, "length + text" messages
    RunControlServer.py  (one thread; select, time.sleep; Run.py)
        |  Popen (local, or through ssh)      files in one run directory:
        |  start / quit / start_trig /         lock_*, initok_*, initfail_*
        |  stop_trig (touch, rm)               written by the processes,
        v                                      polled and removed by the server
    per board:  PadmeDAQ (DAQ mode) --FIFO--> PadmeDAQ (ZSUP mode) --FIFO--+
                                                                           v
    PadmeTrig ------------------------------------------FIFO--------> PadmeMerger
                                                                           |FIFOs
                                                                     PadmeLevel1 (n)

| component | source | state it keeps | operations | what is hard |
|---|---|---|---|---|
| run control server | `RunControl/code/RunControlServer.py` | current_state (idle, initialized, running, initfail), the connection, terminate_ok | new_run, start_run, stop_run, abort_run, shutdown, SIGINT, restart | one thread that waits for processes and a client at once; interrupts at any point; a second life over the files of the first |
| run | `Run.py` | names of control files and FIFOs, boards, trigger, merger, level1s, run number | change_run, change_setup, create_fifos, start, stop, clean_up | several files created and removed one after the other; nodes reached through ssh |
| process handlers | `ADCBoard.py`, `Trigger.py`, `Merger.py`, `Level1.py` | a Popen object, status | start_*, stop_* (wait, kill, terminate) | timeouts; the Popen object of a remote process is its ssh client |
| text client | `RunControlText.py` | the server's state as it was told | dialogues for each command | both sides must agree on whose turn it is; answers nobody asked for |
| PadmeDAQ, DAQ mode | `PadmeDAQ.c`, `DAQ.c`, `Tools.c` | lock, InitOK, InitFail files; board; output stream or files | lock, init, open stream, wait start, read out, stop | start and quit files polled; blocking FIFO open; crash leaves files |
| PadmeDAQ, ZSUP mode | `ZSUP.c`, `Signal.c` | as above, plus BreakSignal | filter events, sort out signals | SIGTERM arrives in a blocking read |
| PadmeTrig | `PadmeTrig.c` | as above | as DAQ, with its own start and stop files | as DAQ |
| PadmeMerger | `Level1/PadmeMerger.cpp`, `ADCBoard.cc`, `Trigger.cc` | per board: current event, time, clock counters; trigger event | open streams, align boards to the trigger, write merged events round robin | clock roll-over, missing events, first end of run of any input, drain |
| output files | `DAQ.c`, `FAKE.c`, `ZSUP.c`, `PadmeTrig.c` | file counter, sizes, counts, open times; names on disk | open, write, limits of a file, change of file, end | three counts of the same events; limits reached between two files; names with a resolution of a second |
| board data | `PEvent.c`, `ZSUP.c`, `ADCBoard.cc`, `RootIO.cc` | masks and sizes in an event | pack, suppress, unpack, save | each program works out for itself where a channel begins |
| PadmeLevel1 | `Level1/PadmeLevel1.cpp`, `RootIO.cc` | event being put together, buffers of the boards, ROOT output file | read by tags, unpack, save, change files | streams cut anywhere, buffers and words left from before |
| PadmeDB | `RunControl/code/PadmeDB.py` | MySQL tables | run numbers, process bookkeeping | two servers choosing a run number |
| PadmeReco clustering | `ECalReconstruction.cc`, `SACReconstruction.cc`, `PadmeVClusterization.cc`, `ECalClusterFinder*.cc` | hits in use, arrays of fixed size, clusters | seed, collect, next seed | full clusters and arrays, sorts with ties, several hits of a crystal |
| the rest | PadmeMC, the rest of PadmeReco, PadmeAnalysis, PadmeRoot, ... | - | - | numerical, sequential code |

### What makes each part correct

- processes: one instance drives a board at a time; InitOK means ready; no data
  is taken before the operator's start; they end on quit, stop, or their peers' end;
- server: every command ends; `initialized` is true of this run; terminate_ok
  means gone; start and stop reach every process; restart over leftovers is safe;
- protocol: whoever waits for a message gets one, the one it waits for, and what
  the operator is told of the run is so;
- several servers: one serves a site, the lock file and the last used setup are
  its own, and a run number names one run;
- output files: closed files say of themselves what is in them, the program's
  totals are those of its files, and the files make one log without gaps;
- merger: an event is written with all the boards of its trigger and no other's,
  in time order, each once; the end of the run of one input ends the merging;
- board data: after DAQ, ZSUP, merger and Level1 a channel holds the samples that
  were acquired, and is dropped only without signal;
- Level1: files keep the order of the events, and it ends whatever its input;
- clustering: no hit in two clusters, none that may be a seed forgotten, and each
  cluster has the shape its algorithm means.

The hazards, at their lines, are in `PROJECT.json` under `hazards`.

## 2. Plan

1. `AcqProcess`: life of the processes, control files, any environment.  *Done.*
2. `RunControl` extends 1 with the server: next-state relation of the whole
   system; shown to be an environment `AcqProcess` allows.  *Done.*
3. Proofs of both.  *Done: every safety property of their runs, and the refinement.*
4. `Merger`: the merger's main loop over streams whose true times the
   specification knows and the merger does not.  *Done, safety proved.*
5. `RcProtocol`: client and server dialogue over a FIFO channel each way; its
   abstract specification is `TurnTaking`.  *Done, safety and refinement proved.*
6. `OutputFiles`: the rotation of output files of DAQ, FAKE, ZSUP and trigger; its
   abstract specification is `SegmentedLog`.  *Done, safety and refinement proved.*
7. `ZeroSuppression` (operators) and `Level1`: a board's data from the digitizer to
   the ROOT files.  *Done, safety proved.*
8. `RunBook`: several servers, setups, run numbers.  *Done, all proved.*
9. `Clustering`: the six ways PadmeReco groups hits.  *Done, all proved.*

Every property of a passing run that is not about fairness is now a theorem.

## 3. The modules

### AcqProcess

Every process is modelled with all its *instances*, one per run, because the
control files have the same names in every run: an instance left over from an
earlier run shares them with the current one.  `pc[p][n]` is where instance
`n` of process `p` is; the comment above `Holding` names the points.  `lock`
and `initok` hold the run whose instance wrote the file (its pid), 0 when there
is none.

| actions | code |
|---|---|
| `LockRefused`, `LockFree`, `LockWritten` | `create_lock` and its test in main; `access()` and `fopen()` are two steps; `raced` remembers the processes of which two instances were between them together, until none of those there then is left |
| `InitFails`, `DaqQuitAtInit`, `DaqInitDone`, `InitDone` | board initialisation up to the first blocking open |
| `OutOpened`, `StreamOpened`, `OpenFails` | blocking opens of the FIFOs: both ends return together; the merger opens the trigger's stream first |
| `StaleInitok`, `Ready` | `create_initok_file` |
| `DaqBegin`, `DaqAbort`, `DaqQuit`, `TrigBegin`, `TrigStop`, `ZsupBegin`, `ZsupEnd`, `ZsupBreak`, `RunEnds`, `SinkEnds` | the wait for start and the end of the run |
| `Finish` | the normal end; in stream mode each program frees a file name it never set, which may abort it before `remove_lock` |
| `Crash`, `Signalled` | death by signal; only ZSUP has a handler, installed after the lock |
| `EnvFiles`, `Launched` | what any run control may do |

`AcqSpec` has an unconstrained environment: what holds under it needs nothing
of the server.

### RunControl

`srv` is the server's program point, `cur` its `current_state`, `conn` the
connection, `handle[p]` the Popen object, `cut` the remote processes whose ssh
client the server has terminated (`poll()` then reports an exit though the
process may live).  Points: `accept` (waiting for a client), `cmd`
(`get_command` in the current state), `dialog` (questions of new_run), `launch`,
`waittrig`, `waitboards` (60 polls each), `startdaq`/`starttrig` (`Run.start`),
`endcomment` (question of stop_run), `term`/`quit` (`Run.stop`), `stop`/`stop2`
(the stop_* calls; stop2 after the interrupt), `clean1`..`clean4` (`clean_up`'s
removals in order), `answer`, `final`.

The removals of the files and the launches are separate steps, so that death or
SIGINT can fall between any two.  SIGINT runs `server_exit` on top of whatever
was going on, as Python signal handlers do.  An exception no handler catches
(`socket.error` on a closed connection, a Popen object that does not exist)
takes the server to `crashed`.  `Restart` starts a new server over the
processes and files as they are.

Abstractions: a poll with a time limit is "ready, or not ready after all polls",
so any timeout may happen while the condition is false; the wording of answers
is dropped; the merger's and Level1's start-up is taken as immediate; the
questions of new_run are one step (all of them are asked before anything is
changed).

### Merger

The experiment is chosen in `Init`: when the triggers happened (`time`), how
each board recorded each of them (`ev`: not at all, well, with a group one
cycle late, or with groups that disagree), the phase of each board's clock,
how many triggers are in the trigger's stream (`len`), which boards' streams
end without a tail (`cut`) and which of these end inside an event (`junk`: the
tag that event then seems to have, since its part lies over the event before).  The actions only use what the code can see, the
clock tags (`Tag`); `pos`, which trigger an event really belongs to, is used
by the properties and as the place in the stream.

| actions | code |
|---|---|
| `TrigNext`, `BoardNext`, `Counted`, `InTime` | `Trigger::NextEvent`, `ADCBoard::NextEvent`: the end of the stream, the unused event, the groups' check, the counters |
| `Abort` | the exits of `NextEvent`: at the first event, and at what is no event |
| `Hang` | `NextEvent` does not return: a stream without tail whose last event's groups disagree |
| `Read` | the next event of everybody, and the end of run of anybody |
| `TooEarly`, `Compared`, `AllCompared` | the comparison with the trigger, board by board |
| `Write`, `Tails`, `Drain`, `Leave` | output round robin, file tails, the tests after the end of run |

Times are integers in a common unit.  A trigger happens on an edge of the
trigger board's clock and its tag is exact; a board's clock has cycles of `Tick`
units and any phase, so its times are off by less than a cycle.  `Tick = 2` and
`Tol = 3` stand for 8.5 ns and 15 ns.  A `written` event is the trigger and, for
each board, the trigger its data was recorded at, or 0 when the board is set missing.

A board in `cut` has no tail: at the end of its stream the last event is taken
for a new one again and again.  It does not end the run, and nothing merged is
wrong because of it but an event of which the stream has only a part (`Torn`),
which may be merged under any trigger, or end the program.  `MergerEnds` states
the two exceptions: a trigger leaves the board behind and the merger waits for it
forever (`Stuck`), or what the stream ends with is spoiled or incomplete and
`NextEvent` reads it forever (`hung`).

### TurnTaking and RcProtocol

`TurnTaking` says what the text protocol promises without messages: a client
speaks in its turn and then waits, the run's state changes only on behalf of the
client being served and along the edges of the run's life, and a client is told
the state as it is.  `RcProtocol` is the two programs over TCP and implements it
(`TakesTurns`, with `turn` worked out from the client's point and the messages on
the way).

| actions | code |
|---|---|
| `Connect`, `ConnectFails`, `TypeCommand`, `TypeReply`, `Receive`, `EndOfFile`, `Quit`, `Reset` | `RunControlText.py`: main loop and dialogues; `AfterMessage` is the table of its reads |
| `Accept`, `HangUp`, `ClientClose`, `ConnectionError`, `SendAnswer` | `main_loop` and `get_command`'s use of the socket |
| `NewRun`, `RunType`, `ShiftCrew`, `RunComment`, `Launch` | `new_run`, question by question |
| `StartRun`, `AbortRun`, `StopRun`, `RunCommentEnd`, `GetState`, `Query`, `Shutdown`, `UnknownCommand` | the commands of the four states |
| `NewState`, `SigintHandler`, `SigintExit`, `Exit` | the change of state, and `sigint_handler` at any point |

What the processes of the run do is any outcome `RunControl` allows.

### SegmentedLog and OutputFiles

`SegmentedLog` is a log of events cut into segments of which only the last
grows.  `OutputFiles` has the four programs that write one (`prog`); operators
common to them (`OpenFile`, `SealFile`, `WriteEvent`, `Full`, `Check`, `Reopen`,
`Close`) stand for code each repeats, and its own actions say where it differs:
when it looks at the limits, whether file heads and tails are counted, what
stops it.  `disk` is what is really there, `report` and `total` are the program's
own books.  `WriteFails`, `HeadFails`, `Killed` and a device error are faults.

### ZeroSuppression and Level1

`ZeroSuppression` has pure operators for what is done to a board's data:
`CreatePEvent` (DAQ), `Zsup` with the two algorithms, `Unpack` and `FillBoard`
(Level1).  A channel is in an event if its group is, its own bit is in
`channel_enable_mask`, and the group's `ChSize` is not 0 (`Active`, `PEvent.c:135`).  A word is a record of whose it is and what it would say taken for a
group's head, because every program finds its way by masks and sizes only.
`Expected` and `HasSignal` say what should come out, without positions.

`Level1` sends events through these operators, one at a time, into the reader's loop.

| actions | code |
|---|---|
| `Send`, `CloseStream`, `Cut` | the merger's stream; `Cut` ends it anywhere, even inside a board |
| `EventHeader`, `TriggerInfo`, `AdcBoard`, `EndOfFile`, `UnknownTag` | the cases of the tag last read.  Reads are not checked: after the end of a stream `word` is what the last one left |
| `UnpackFails`, `FileExists` | giving up within an event |
| `RawEvent`, `Filled`, `FileFull`, `NameTaken` | `FillRawEvent` and the change of files in it |

### RunBook

A site is a `PADME_DAQ_DIR` with its port; a server is a process whose name is its
pid.  `raced` remembers that a server looked for the lock file of a site while
another was between its own look and its write of that file.  `create_run_in_db`
always answers "ok": the statements of `create_proc_daq` and the others that could
fail are commented out, so that the way back to idle at `Run.py:125` is never taken
and `CreateRun` has none.

| actions | code |
|---|---|
| `CheckLock` ... `Listen` | from `create_lock_file` over the last used setup to `listen`; each step on a shared file is an action |
| `ChangeSetup` | `change_setup` and `Run.change_setup`; it resets the run first, so a setup that cannot be read leaves one without processes |
| `NewRun`, `CheckNumber`, `CreateRun` | the number is chosen when the dialogue begins, looked up again and inserted when it ends |
| `SaveSetup`, `CloseSocket`, `RemoveLock`, `Dies` | `final_cleanup`, and death at any point |

What a process had in memory is forgotten at its death.  A file of one line is
written in one step.

### Clustering

A hit is its cell, energy and time.  `algo` selects the algorithm; `FillArrays`,
`SimpleCluster`, `SimpleEnds`, `ListHits` are ECal's and SAC's own;
`RemoveOutOfTimeHits`, `BaseCluster`, `BaseEnds` those of `PadmeVClusterization`;
`MakeCrystals`, `CrystalCluster`, `CrystalsEnd` the island and radius finders.  One
cluster is one step.  `matrix` is `clusMatrix`, row after row, since a row that is
too long runs into the next; it has `MaxClusters` rows of `MaxHits`, and the arrays of
hits have `MaxEvHits` places.  ECal makes no clusters of more hits than that
(`Refused`).  SAC checks none of these: `Outside` says when it leaves its arrays, and
`Overrun` ends the behaviour there, as what the program does then is undefined.  `std::sort` leaves ties in any order.  `ExpandIsland` is
recursive as in the code; here it is a recursive function of a cluster being made
and a crystal, as proofs need it.

### The proofs

`AcqProcess_proofs`, `RunControl_proofs`, `Merger_proofs`, `RcProtocol_proofs`,
`OutputFiles_proofs`, `Level1_proofs`, `RunBook_proofs` and `Clustering_proofs` hold
the theorems of section 6.  Each
states its invariant in named parts first, then proves what the module's
operators and actions do to each part, action by action, and its theorems last.

## 4. The runs

| run | instance | question | result |
|---|---|---|---|
| `rc_restart` | 1 board, 2 runs; server killed | does a new process ever start on an old run's start file? is `initialized` true? trigger after DAQs? one process to a lock file, unless two raced for it? | holds |
| `rc_interrupt` | 2 remote boards, 1 run; SIGINT, kill, launches that fail, processes that hang | what do terminate_ok and the end of terminate_run promise? does the server implement `AcqSpec`? | holds |
| `rc_commands_end` | 1 remote board, 1 Level1, 1 run; all faults | does every command end? is a DAQ that takes data connected to its ZSUP, and an InitOK file earned? | holds, the first under fairness |
| `rc_stop` | 2 boards, 1 Level1, 1 run; SIGINT | do the stop and quit files reach everyone? | holds under fairness |
| `rc_shutdown` | 1 board, 1 run | "abort it as cleanly as possible" on shutdown | violated |
| `mrg_align` | 2 boards, 4 triggers, two events missed, spoiled or late, one stream with or without tail, cut anywhere | is every board's data with its trigger, none left out, in order, up to the first end? are the inputs drained as far as `n_test_max` allows? does the merger end? | holds, with the exceptions below |
| `proto` | 2 clients; quits, lost connections, SIGINT | do both sides stay in step? is what the operator was told so? who waits forever, and when? does it implement `TurnTaking`? | holds: two mutual waits, known |
| `files` | the 4 programs, 2 files | do files, tails and totals agree? do the files implement `SegmentedLog`? does a program stop when told? | holds |
| `level1` | 2 boards, 2 events, 23 setups, 4 contents | is what is saved what was acquired, in order? what is lost when the merger dies? does Level1 end? | holds |
| `level1_serial` | the same | "Add board serial number" | violated |
| `book` | 3 servers, 2 sites, 3 setups | are lock file and last used setup those of the server? do numbers name one run? are runs launched with the setup they name? | holds, with the exceptions below |
| `clusters` | 19924 events, 6 algorithms | do clusters share no hit and add up? do seeds lead? have clusters their algorithm's shape? does the search end? | holds, with the exceptions below |

The violated ones are disagreements between a comment of the code and what the
code does; the `findings` of `PROJECT.json` tell the story of each.

Several properties are true only with exceptions that are the code's, and name
them: `OneHolder` (two instances inside create_lock together), `Complete` (a late
group at a roll-over), `Aligned` (the event of which a cut stream has only a part),
`StreamsDrained` (inputs with more than `MaxTests` events left, whose writers stay
blocked), `MergerEnds` (streams without tail), `MutualWaitKnown` (client and server
wait for each other after abort_run outside `initialized` and after the run type "error"), `InStep` and `ToldIsTrue`
(the answers of an interrupt, which nobody asked for), `TotalsTell` (heads, tails
and the size at the time of a failure, program by program), `OnlyHasteFails` (two
files in one second, since names have that resolution), `KnownLosses` (the
last event when the merger dies, an event whose file exists), `SavedIsAcquired`
(a disabled group below an enabled one, `ZSUP.c:639`), `SiteInOrder` (a race at
the start), `NumbersInOrder` (two sites launching at once), and the full arrays, rows,
clusters and crystals of `Clustering`: what ECal refuses, what SAC writes over.

### Bounds, and why they are enough

- `MaxRuns`: 2 is the least number with a leftover of an earlier run, and the
  control files remember nothing older than the last writer.  `rc_restart`,
  whose questions are about leftovers, has 2.  The other runs have 1, for their
  faults or a second board multiply the states: a stale quit file or lock does
  not occur in them, so that `CommandsEnd` does not show the server getting over one;
  its checks have a time limit whatever the processes do.  What these runs ask of
  safety is proved for any number of runs.
- One board, or two: boards share only the start and quit files, read-only for them,
  and the merger's order of opening; DAQ, ZSUP and trigger are three different
  processes already.  Nothing here counts boards.  The theorems hold for any number.
- Merger: 4 triggers let a board miss two in a row between two it records, or be
  early for a trigger with two more to come; gaps of 6 and 11 units and a counter
  of 8 cycles (the trigger's: 20 units) make both counters roll over, at
  different events, and some inputs exceed what the merger can follow (`Steady`
  leaves those out of the claims, not out of the run).  `Odd = 2`: two of the
  boards' events are not good ones, so a board may miss or spoil one before or after a
  late one, or both may have one each.  `Lens = {3, 4}`: the trigger's stream ends
  before, with or after a board's.  `MaxTests = 1` is less than the events an input can
  have left, as the code's 100 is less than those of a run.  One board at most has no
  tail; it ends between two events or inside one, with a tag that is ahead in some
  inputs and behind in others.
- `proto`: a second client is enough to be in the backlog; three lines at the main
  prompts reach every state and leave one command to say there; a progress message
  more changes nothing for either side.
- `files`: 2 files of at most 2 events, 5 units or 2 seconds, events of 1 or 4
  units: each limit may be the first, the last file may be full, two files may
  fall in one second.
- `level1`: 2 groups of 2 channels, 5 samples, so that head, tail and threshold
  counts of both algorithms matter; a second event shows what the first left in
  the buffers.  The setups cover modes, algorithms, a gap in the groups, a group of which one
  channel or none is enabled, channels without samples, full and existing files, a limit
  of 1, 2 and no events.
- `book`: a third server meets a dead one and a live one; the third setup is one that
  cannot be read.  Symmetry is sound because only invariants are checked.
- `clusters`: up to 3 arbitrary hits on 5 cells (two may share one), 4 hits on
  different cells, and 4 around a seed with one or two more elsewhere; the limits of 3
  hits and 2 clusters and of 5 hits in an event are reached and exceeded, each by itself:
  SAC leaves its arrays for each of the three reasons, and writes rows over; pitch and radius
  are the calorimeter's 21.25 and 50 mm, times 4.
- `Faults` selects which faults a run allows; each run has the ones its question
  is about, and `rc_commands_end` has them together.
- Deadlock is not checked: a system in which every process has exited and the
  server has exited, or `MaxRuns` is used up, rightly stops.

### Fairness

`WF(ServerStep)`: the server is one thread whose every wait while it carries
out a command has a time limit (60 polls, 5 or 10 seconds for a stop), so it
always goes on.  Nothing is assumed of the client or the operator.
`WF(ProcWork)`: some process that can go on does, which is less than the
fair scheduling of each process the operating system gives; faults are not
in it.
`WF(Next)` of the merger: it is one thread, and reading a FIFO returns as soon as
its writer writes or is gone.
`ProtoFairSpec`: the server goes on, and a client reads what has come; operators
owe nothing.
`WF(ProgramStep)` of the output files: one thread; what it waits for (select, read)
has a time limit or is interrupted.
Level1: the stream is closed at last (`WF(CloseStream)`), and the loop runs on as
long as it may (`LoopRuns`, weak fairness written out).

## 5. What is model-checked only

The liveness properties: `CommandsEnd`, `StopIsEnough`, `MergerEnds`, `Answered`,
`StopsWhenTold`, `Level1Ends` (the prover does not handle fairness and ENABLED).  All
other properties of the passing runs are theorems; `AcqTypeOK`, `ProtoTypeOK` and
`LockNamesHolder` are proved and no run repeats them.  That `Clustering`'s search ends is proved as
far as it needs no fairness: no infinite sequence of steps is possible, since each
takes one of finitely many hits or leads to a later phase.

Seen while modelling, without a run of its own:

- server: after a timeout of the initialisation, InitOK files of the old processes
  satisfy the next one (`StaleInitok`); lock files of killed processes stay
  (`Tools.c:35`); `stop_trig` builds the kill command for a trigger on the server's
  own node and never executes it (`Trigger.py:323-334`, `KillTarget`); after a
  failed change_setup, new_run meets a trigger that is None and the exception ends
  the server, whose last used setup is by then the broken one, so that no server
  starts until it is edited; the loser of a race for the port leaves its pid in
  the lock; a failed INSERT is only printed.
- processes: two instances that look for the lock file before either has written it are
  both let in (`Tools.c:35,46`), the second overwrites the pid of the first, and the first to
  leave unlinks the file of the other; `Tools.c:14` says "0 if no other DAQ is running".
  It takes a run launched over processes of one that did not get ready in time;
  without its exception, TLC violates `OneHolder` there.
- merger: groups are compared without regard to the roll-over (`ADCBoard.cc:188`), so that
  an event with a group a cycle late is skipped there, against line 187 (TLC finds one if `Complete` is stated
  without its exception); a stream that ends inside an event is read on with the part of it over the
  event before (`ADCBoard.cc:131-160`): what is in the buffer may be taken for an event.
- files: DAQ's and FAKE's totals leave out heads or tails (`DAQ.c:819`,
  `FAKE.c:277`); ZSUP's first name comes from a start time that is not set yet (`ZSUP.c:120`).
- Level1: "Unknown tag ... Aborting" does not abort (`PadmeLevel1.cpp:247`); a file
  head whose start time looks like an event header starts an event; after "file
  already exists" the closed file is used; with zero suppression off, events are
  labelled flagging, algorithm 2.
- clustering: a new `ECalCluster` has energy -1, so its energy is one unit low
  (`ECalCluster.cc:8`); a second hit of a crystal replaces the first
  (`ECalCrystalHandler.cc:58`); a full calorimeter cluster may leave its own
  seed out, which then seeds again; above 3000 hits the calorimeter has no clusters
  (`ECalReconstruction.cc:708-711`); SAC's 3000 hits, 100 rows and 20 hits a row are not
  checked where they are read or written (`SACReconstruction.cc:271-287,312`).

## 6. What is proved

For every set of boards, Level1 writers, remote processes, clients, servers, sites
and setups, every number of runs, files, triggers and messages, all limits, clocks and
event sizes and every choice of faults; assumptions are those the modules declare.
The theorems about the merger that say `Apart` have that hypothesis of their own,
explained below.

| theorem | says | argument |
|---|---|---|
| `TypeCorrect` | `AcqTypeOK` | inductive by itself; one step per action |
| `LockNamesItsHolder`, `MutualExclusion` | unless two instances were between `access()` and `fopen()` together (`raced`), the lock file names the one instance past create_lock | `LockInv`: for processes not raced, at most one instance is between the two calls, none is while another is past them, and who is past them has the lock. An instance leaves only from a point at which the file is its own, so the unlink in its exit removes no other's lock; a refused one does not unlink. A race is over only when no instance is inside or past create_lock |
| `InitokEarned` | an InitOK file was made by an instance that got ready | inductive with the types: no step leads back from wait, run, dead |
| `ServerTypeCorrect` | `TypeOK` | needs that `launch` is entered only with a run number counted |
| `ImplementsAcqSpec` | the server's steps are steps or stutters of `AcqSpec` | with an identity mapping: each action of the server is one of `EnvNext`, or leaves `acqVars` alone. So the three properties above hold of the whole system |
| `StartFilesAccompanied` | `StartImpliesInitok` | `StartInv`: what the server has seen of the boards (`SeenReady`), that `initialized` therefore implies InitOK files until the run is stopped (`InitializedIsPrepared`), and that clean_up removes start files before InitOK files (`CleanedInOrder`) |
| `NoEarlyStart` | `ReadyFindsNoStart` | `StepsForward` (only `Ready` leads to wait, and only without an InitOK file) and the theorem before |
| `DaqsStartFirst` | `TriggerAfterDaqs` | `TrigInv`: start_trig without stop_trig implies start; clean_up removes start only while stop_trig is there |
| `StreamHasReader` | `DaqStreamsToZsup` | a DAQ past the opening of its stream has a ZSUP that has opened it too, or that has died; both leave the open together |
| `NothingLeft`, `TerminateOkIsTrue` | `NothingLeftHere`, `TerminateOkMeansGone` | `StopInv`: until a process is stopped its Popen object is this run's (`HandlesOfRun`), so waiting for it or killing it reaches the process; one that is remote and still alive afterwards is in `cut`, and only an interrupt, or a kill of the ssh client, puts it there (`CutOff`); who was stopped stays stopped (`Stopped`) |
| `InitializedMeansReady` | `InitializedIsTrue` | `FreshRun`: if nothing was left when the run was launched, an InitOK file is this run's and who is alive is this run's; with `InitializedIsPrepared` for the commands that follow |
| `InputsDrained` | `StreamsDrained`, if `Apart` | `DrainOK`: an input tested n times is at its end or n events on from the last merged one; with `MergedOK`, which says where that is |
| `DataOfTrigger` | `Aligned`, if `Apart` | `MergerOK`, for any input, however close the triggers are: a board's object holds the tag of a good event of its own or of a torn one (`ObjectsOK`), and who may be finished or missing at each point (`PhasesOK`). `AlignedOK` on top of it: the clock differences a board has added up are those of the cycles since its first event, whatever rolled over; a board compared is not behind its trigger and its next good event is the one at hand (`OrderOK`); so one that agrees in time is the trigger's (`DataOK`) |
| `NothingDropped`, `BoardsComplete` | `Kept` and `Complete`, if `Apart` | by the same invariant: a board compared is missing if and only if it is ahead, and it is ahead only if it has no event for this trigger that `NextEvent` accepts; of a late event that is so unless its first tag is the counter's last |
| `MergedToTheEnd` | `AllMerged`, if `Apart` | `MergedOK`: what is written at the end is as many triggers as all inputs have in common |
| `MessagesAreAnswers` | `ProtoTypeOK` | types of programs and messages, for channels of any length |
| `NobodyLosesTheThread`, `WhatIsToldIsSo`, `TwoWaitsOnly` | `InStep`, `ToldIsTrue`, `MutualWaitKnown` | `DialogueInv`, see below |
| `DialogueTakesTurns` | `TakesTurns` | by that invariant: a message that ends the client's wait is the last on the way, so its arrival is a step of `TurnTaking` or none |
| `FilesAsTaken`, `TailsTell` | `ClosedFilesTell` | a closed file tells the truth only if it did so while it was written: `FilesInv` adds that the report agrees with the open file, and that a file is open exactly at the points where the program takes one to be |
| `FilesAreALog` | `WritesLog` | by that invariant: opening a file is `Begin`, an event `Extend`, a tail `Seal`; any other step, and ZSUP's late head, leaves the segments alone |
| `NoGaps` | `FilesJoin` | `JoinInv`: a file is opened with the time the one before was closed with, which stands between the two steps; `FillInv`: events of the buffer not yet handled count as if they were in the file |
| `RotationsGoOn` | `OnlyHasteFails` | `JoinInv`: the names of DAQ, FAKE and trigger are the times the files were opened, which never go back; so a name taken is of a file of this second |
| `TotalsAddUp` | `TotalsTell` | `TotalInv`: the property at every step, a file not there is empty, and no total is counted before the first file's head; each step changes one file, so a sum changes by what that file's part does |
| `RoundTrip` | what `FillBoard` makes of a board's event is `Expected`, if it fits; when it fits | `Holds`, see below: create_pevent makes an event that holds all active channels, zero suppression one that holds those kept |
| `RunsSaveAcquired`, `FilesInOrder`, `LossesKnown` | `SavedIsAcquired`, `FilesKeepOrder`, `KnownLosses` | `RunInv`: what was read of the oldest event not saved, and what is in the stream, are that event and the next, or the merger is dead and nothing more is saved; with `RoundTrip` for its boards |
| `BookTypesCorrect`, `LaunchedAsNamed` | `RunsAsNamed` | types, `AllSettled` (the processes are those of the setup or none) and `RowsCounted` (the numbers are 1 to k and nobody has chosen more than k + 1) |
| `FilesNameTheServer` | `SiteInOrder` | `SiteInv`: a server not raced is the only one alive at its site, so that only its own steps touch the site's files; and its setup is the saved one before it serves |
| `NumbersNameRuns` | `NumbersInOrder` | `NumberInv`: who serves listens, hence serves a site alone and answers one dialogue at a time, so that when it asks for a number all runs of its site are in the table |
| `HitsOnce`, `SeedsFirst`, `ShapesRight`, `SearchComesToEnd` | `HitsAddUp`, `SeedsLead`, `ShapesAsMeant`, `SearchEnds` | `ClustersGrow`: the invariant `Inv`, see below |
| `ClTypesHold` | types, and `Inside`: until SAC's search is said to leave its arrays, what was written of `clusMatrix` is in its rows and the hits are in theirs | by `Inv` |

**The merger's hypotheses.**  `Apart` says `Tick <= Tol + 1` and, for two triggers in
a row, `Tol + Tick <= gap < TrigWrap`.  A board's clock may have any phase, so that
a time it has counted is off by less than a cycle (8.5 ns); the tolerance (15 ns)
must be at least that, and two triggers no closer than it could confuse
(23.5 ns; triggers are microseconds apart); and the trigger's counter of 40
bits, of which nobody counts the turns beyond one, does not go all around between
two triggers.  Without it the claim is false, not only out of reach.  What a board's own
counter can follow is not a hypothesis but part of the properties (`Steady`).
Nothing is supposed of the groups' tags, of streams without tail or of `MaxTests`.
At a roll-over the merger compares the tags of groups as they are (`ADCBoard.cc:188`):
`Complete` names the late group it then drops.
`NothingDropped` is the form for any groups: what `NextEvent` accepts is in the output.

**The dialogue's invariant.**  For the client being served, what it has still to
read (its channel and what the server has not sent yet) fits both where it waits and
where the server is: `Ends(w, last)` says a sequence of messages brings a client
waiting at w to its prompt with its last message and not before, `Asked` that it is
being asked what the server waits to hear, `Replied` that its answer is on the
way, `Informed` and `Reported` that what it was told last, or will be told by then, is
the state the server is in or going to.  Others are in the backlog and have got nothing
(`NotServed`).  An interrupt may say anything to anybody, so after it only the
types are claimed, as in the properties.

**A board's data.**  An event `Holds` the channels C of an acquisition if its masks and
mode say so and its body is, at any group or channel, the words of that group or channel.
From that, `GroupsFound` (a walk over the sizes in the groups' heads ends where the
channels begin, as each group has the length its head says), `UnpackedChannels` and
`SignalFound` (the longest run below threshold, counted sample by sample, is what
`HasSignal` asks for) follow for any number of groups, channels and samples.  ZSUP walks
over as many "groups" as the highest enabled one says: with a gap it reads a sample
as a head.  If that sample's low bits are 0 it stays where it is and all is well; otherwise
the event it writes does not fit, whatever follows (`SuppressMissed`), so that Level1
never saves a misread channel.  `RoundTrip` supposes nothing of the samples.

**Level1's invariant.**  `RunInv` has four cases: no header was read yet (`NotYet`), a date
was taken for one (`Phantoms`), an event is being read (`Reading`), or it is complete and
the next one's header comes (`NextComes`).  Once the merger is dead there is no header
or tail left behind an event's own, so what was read of it is not saved.

**Clustering's invariant.**  Two halves.  The first is about one cluster, whatever is
free: `FindSeed` and `GetSeed` give the most energetic free hit, and each of the six
ways of collecting makes a `GoodCluster` of it: free hits only, none twice, its energy
their sum, the seed in it unless it filled up first, and the shape meant.  For a row of
fingers and for cells the hits away from the seed join in the order of a sort with ties
(`Grown`): each that has joined is linked to the near ones through others that have, and
one left out is next to none that joined from a smaller distance, whatever the order of
ties was.  For the radius, box by box, what was visited and
fits is in.  For the island, `ExpandIsland` on a crystal is shown by induction over its
energy (`Rank`: neighbours it goes on to have less) to mark what it adds, to add only what a
falling path leads to, and, unless the cluster is full, to leave no crystal it has
visited with a free neighbour downhill (`Island`, `Spreads`); so the cluster is what
`Reachable` says.  The second half adds clusters up: `SoundClusters` says of a sequence that
its clusters are disjoint, in order, each of its shape with what those before have left,
and that with the hits out of the question they are the hits in use; a good cluster
at the end keeps that (`AppendCluster`).  For ECal and SAC the lists are in `clusMatrix` until
the end, so `Inv` says it of `View`, the clusters with their lists read back; and since a list
of SAC may be longer than its row, it says (`Found`) that there are sound clusters which `View`
agrees with up to a row (`Agree`): a row put at the end leaves alone what is in the rows
before, and writes over what went beyond them (`PutRowIs`, `ListedAppend`).  For ECal every
list fits, and is the cluster's own.  That SAC leaves its arrays only on an `Excess`: each
cluster so far has taken a seed of its own (`SeedsCounted`), and a list has no more than
the hits around its seed, so with few of both there is a row, and room in it
(`OverrunExcess`).  Nothing is assumed of the sizes of events, clusters and arrays.

**How they were found.**  `InitokEarned`'s, `FilesInv`, and those of `RunBook` grew out
of the proofs of properties TLC had checked.  The others were checked with TLC before
their proofs: `LockInv`, `StartInv`, `StopInv` and `FreshRun` on the constants
of the `rc` runs; `MergerOK` and `AlignedOK` on those of `mrg_align` and a larger
variant; `DialogueInv` with two progress messages (502248
states); `JoinInv`, `FillInv` and `TotalInv` on those of `files` and with three files
and empty heads; `RunInv`, `FilesInv` and `Numbered` on those of `level1`.
Those of `Clustering` grew out of the proofs too; `SearchEnds` was seen to be worth
stating when the proof needed that a cluster marks at least one hit.  `Prepared` had to be strengthened on the way: it spoke of InitOK files
without saying that they stay until clean_up.

**Out of the prover's reach.**  Liveness under fairness and ENABLED; the library's
induction theorems over an operator.  Induction over data is
done where a proof needs it as induction over the elements of a set (the library's
theorem on sets of naturals): the times of the triggers in `Merger`, the
community modules' folds over the files in `OutputFiles`, and in `Level1_proofs` the
sequences joined by `FlattenSeq`, the walk over groups and the scan over samples; in
`Clustering_proofs` the sums, the loops over hits and boxes, and the recursion over crystals,
of which it has first to be shown that functions with those equations exist.

## 7. What is not modelled, and why

The models cover the data acquisition, Level1 and the clustering: a small share of
the repository's lines, most of which are simulation, reconstruction and analysis.

- run control: the contents of configuration files, nc tunnels, the rotation of
  the merger node, what the get_ commands answer, tables other than `run`.
- merger: file heads, several input files per board, a trigger stream without
  tail, failing writes.
- PadmeDAQ and PadmeTrig: the registers of the digitizers and of the trigger board, the
  DRS4 corrections: hardware and numbers.
- Level1: the checks of the file head, the counts in the file tail (warnings only),
  format versions 1 and 2.
- PadmeReco: positions, times and energy corrections of clusters, the ETag's
  clustering; pulse shapes, calibrations, geometry, histograms.
- PadmeMC, PadmeAnalysis, UserAnalysis, TestBeam, the ROOT classes: numerical and
  sequential; what could be wrong there is a formula, which TLC cannot judge.
- The GUI: `RunControl.py` does not start it.

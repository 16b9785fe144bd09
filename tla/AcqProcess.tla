----------------------------- MODULE AcqProcess -----------------------------
(***************************************************************************)
(* The life of the processes of one PADME run, and the control files       *)
(* through which they are steered.                                         *)
(*                                                                         *)
(* A run launches, for every digitizer board, a PadmeDAQ process in DAQ    *)
(* mode and one in ZSUP mode, and one PadmeTrig process; these are the     *)
(* acquisition processes (Acq).  They hand their data to PadmeMerger and   *)
(* its PadmeLevel1 writers, the Sinks.  All control files live in one      *)
(* directory and have the same names in every run, so an instance of a     *)
(* process left over from an earlier run shares them with the instance of  *)
(* the current one: every process is modelled with all its instances, one  *)
(* per run in which it is launched.                                        *)
(*                                                                         *)
(* The environment (Env...) is any program that launches instances, sends  *)
(* them SIGTERM and touches or removes control files; module RunControl    *)
(* replaces it by the run control server.                                  *)
(***************************************************************************)
EXTENDS Naturals

CONSTANTS
  Boards,      \* the digitizer boards of the setup
  NoBoard,     \* stands for "no board" in the trigger's and merger's names
  Level1s,     \* the Level1 writers of the setup
  MaxRuns      \* bound: how many runs are launched

ASSUME BoardsAssumption == NoBoard \notin Boards
ASSUME MaxRunsAssumption == MaxRuns \in Nat

VARIABLES
  pc,        \* pc[p][n]: where the instance of process p of run n is
  brk,       \* the <<zsup process, run>> whose BreakSignal is set
  joined,    \* the <<process, run>> whose output stream the merger has opened
  raced,     \* history: the processes of which two instances were between
             \* access() and fopen() of create_lock together, until the
             \* lock is free and none of them is past create_lock
  lock,      \* lock[p]: whose pid p's lock file holds, 0 if there is no file
  initok,    \* initok[p]: which instance created the InitOK file, 0 if none
  initfail,  \* the processes whose InitFail file exists
  start,     \* the start file of the DAQ nodes exists
  quit,      \* the quit file of the DAQ nodes exists
  tstart,    \* the start_trig file of the trigger node exists
  tstop      \* the stop_trig file of the trigger node exists

runFiles == <<start, quit, tstart, tstop>>
statusFiles == <<lock, initok, initfail>>
acqVars == <<pc, brk, joined, raced, statusFiles, runFiles>>

Runs == 1..MaxRuns

Daq(b)  == <<"daq", b>>
Zsup(b) == <<"zsup", b>>
Trig    == <<"trig", NoBoard>>
Merger  == <<"merger", NoBoard>>
Kind(p) == p[1]

Daqs  == {"daq"} \X Boards
Zsups == {"zsup"} \X Boards
Acq   == Daqs \cup Zsups \cup {Trig}
Inputs == Zsups \cup {Trig}             \* of the merger
Sinks == {Merger} \cup ({"level1"} \X Level1s)
Proc  == Acq \cup Sinks

(***************************************************************************)
(* start:   launched, nothing done yet                                     *)
(* locking: found no lock file, has not written its own                    *)
(* init:    holds the lock, prepares its buffers and its board             *)
(* openout: blocked opening the stream to the merger (ZSUP, trigger)       *)
(* open:    blocked opening the DAQ-ZSUP stream (its two ends)             *)
(* opened:  all streams open, about to create the InitOK file              *)
(* wait:    waiting for the start of the run (ZSUP: for the file header)   *)
(* run:     taking, or filtering, or merging data                          *)
(* dead:    exited or killed                                               *)
(***************************************************************************)
Holding == {"init", "openout", "open", "opened", "wait", "run"}
PState  == Holding \cup {"none", "start", "locking", "dead"}

Alive(p, n) == pc[p][n] \notin {"none", "dead"}

Goto(p, n, s) == pc' = [pc EXCEPT ![p][n] = s]

(***************************************************************************)
(* exit() after remove_lock(), which unlinks the lock file whoever wrote   *)
(* it; failing exits create the InitFail file first.                       *)
(***************************************************************************)
Exit(p, n, failed) ==
  /\ Goto(p, n, "dead")
  /\ lock' = [lock EXCEPT ![p] = 0]
  /\ initfail' = IF failed THEN initfail \cup {p} ELSE initfail
  /\ UNCHANGED <<brk, joined, raced, initok, runFiles>>

(* A segmentation fault, a SIGPIPE: the lock file stays. *)
Crash(p, n) ==
  /\ Alive(p, n)
  /\ Goto(p, n, "dead")
  /\ UNCHANGED <<brk, joined, raced, statusFiles, runFiles>>

(***************************************************************************)
(* The normal end of a run.  Before remove_lock each of the programs frees *)
(* fileName[0], which it never set if its output is a stream (DAQ.c:1245,  *)
(* ZSUP.c:557, PadmeTrig.c:1085): what is there decides whether it aborts. *)
(***************************************************************************)
Finish(p, n) == Exit(p, n, FALSE) \/ Crash(p, n)

-----------------------------------------------------------------------------
(* Start-up, common to the three programs. *)

(* Mutant: whoever finds a lock file takes it over. *)
MutLockRefused(p, n) ==
  /\ pc[p][n] = "start"
  /\ lock[p] # 0
  /\ Goto(p, n, "init")
  /\ lock' = [lock EXCEPT ![p] = n]
  /\ UNCHANGED <<brk, joined, raced, initok, initfail, runFiles>>

(* A lock file, whoever wrote it, makes the process give up at once. *)
LockRefused(p, n) ==
  /\ pc[p][n] = "start"
  /\ lock[p] # 0
  /\ Goto(p, n, "dead")
  /\ initfail' = initfail \cup {p}
  /\ UNCHANGED <<brk, joined, raced, lock, initok, runFiles>>

(* access() sees no lock file; fopen(..., "w") comes later, and truncates   *)
(* what another instance may have written in between.                      *)
LockFree(p, n) ==
  /\ pc[p][n] = "start"
  /\ lock[p] = 0
  /\ Goto(p, n, "locking")
  /\ raced' = IF \E m \in Runs : pc[p][m] = "locking" THEN raced \cup {p}
              ELSE IF \E m \in Runs : pc[p][m] \in Holding THEN raced
              ELSE raced \ {p}
  /\ UNCHANGED <<brk, joined, statusFiles, runFiles>>

LockWritten(p, n) ==
  /\ pc[p][n] = "locking"
  /\ Goto(p, n, "init")
  /\ lock' = [lock EXCEPT ![p] = n]
  /\ UNCHANGED <<brk, joined, raced, initok, initfail, runFiles>>

InitFails(p, n) ==
  /\ pc[p][n] = "init"
  /\ Exit(p, n, TRUE)

(* DAQ_readdata gives up silently if it finds the quit file. *)
DaqQuitAtInit(b, n) ==
  /\ pc[Daq(b)][n] = "init"
  /\ quit
  /\ Exit(Daq(b), n, FALSE)

(* Mutant: opening the stream does not wait for the ZSUP. *)
MutDaqInitDone(b, n) ==
  /\ pc[Daq(b)][n] = "init"
  /\ ~quit
  /\ Goto(Daq(b), n, "opened")
  /\ UNCHANGED <<brk, joined, raced, statusFiles, runFiles>>

DaqInitDone(b, n) ==
  /\ pc[Daq(b)][n] = "init"
  /\ ~quit
  /\ Goto(Daq(b), n, "open")
  /\ UNCHANGED <<brk, joined, raced, statusFiles, runFiles>>

(* Mutant: the InitOK file is created before the streams are open. *)
MutInitDone(p, n) ==
  /\ p \in Inputs
  /\ pc[p][n] = "init"
  /\ Goto(p, n, "openout")
  /\ initok' = [initok EXCEPT ![p] = n]
  /\ UNCHANGED <<brk, joined, raced, lock, initfail, runFiles>>

InitDone(p, n) ==
  /\ p \in Inputs
  /\ pc[p][n] = "init"
  /\ Goto(p, n, "openout")
  /\ UNCHANGED <<brk, joined, raced, statusFiles, runFiles>>

(* The merger opens the trigger's stream first, then those of the boards   *)
(* (one after the other; here in any order); both ends return together.    *)
OutOpened(p, n) ==
  /\ p \in Inputs
  /\ pc[p][n] = "openout"
  /\ pc[Merger][n] = "run"
  /\ p # Trig => <<Trig, n>> \in joined
  /\ Goto(p, n, IF p = Trig THEN "opened" ELSE "open")
  /\ joined' = joined \cup {<<p, n>>}
  /\ UNCHANGED <<brk, raced, statusFiles, runFiles>>

(* The two blocking open() of a DAQ-ZSUP stream return together. *)
StreamOpened(b, n) ==
  /\ pc[Daq(b)][n] = "open"
  /\ pc[Zsup(b)][n] = "open"
  /\ pc' = [pc EXCEPT ![Daq(b)][n] = "opened", ![Zsup(b)][n] = "opened"]
  /\ UNCHANGED <<brk, joined, raced, statusFiles, runFiles>>

(* Only the ZSUP's failure on its input counts as a failed initialisation. *)
OpenFails(p, n) ==
  /\ p \in Acq
  /\ pc[p][n] \in {"openout", "open"}
  /\ Exit(p, n, p \in Zsups /\ pc[p][n] = "open")

(* create_initok_file fails if the file is already there. *)
StaleInitok(p, n) ==
  /\ pc[p][n] = "opened"
  /\ initok[p] # 0
  /\ Exit(p, n, TRUE)

Ready(p, n) ==
  /\ pc[p][n] = "opened"
  /\ initok[p] = 0
  /\ Goto(p, n, "wait")
  /\ initok' = [initok EXCEPT ![p] = n]
  /\ UNCHANGED <<brk, joined, raced, lock, initfail, runFiles>>

-----------------------------------------------------------------------------
(* The run.  The DAQ looks for the start file first, the trigger for the   *)
(* stop file.                                                              *)

DaqBegin(b, n) ==
  /\ pc[Daq(b)][n] = "wait"
  /\ start
  /\ Goto(Daq(b), n, "run")
  /\ UNCHANGED <<brk, joined, raced, statusFiles, runFiles>>

DaqAbort(b, n) ==
  /\ pc[Daq(b)][n] = "wait"
  /\ ~start /\ quit
  /\ Exit(Daq(b), n, FALSE)

DaqQuit(b, n) ==
  /\ pc[Daq(b)][n] = "run"
  /\ quit
  /\ Finish(Daq(b), n)

TrigBegin(n) ==
  /\ pc[Trig][n] = "wait"
  /\ ~tstop /\ tstart
  /\ Goto(Trig, n, "run")
  /\ UNCHANGED <<brk, joined, raced, statusFiles, runFiles>>

TrigStop(n) ==
  /\ tstop
  /\ \/ pc[Trig][n] = "wait" /\ Exit(Trig, n, FALSE)
     \/ pc[Trig][n] = "run" /\ Finish(Trig, n)

(* The ZSUP's header arrives when its DAQ starts the acquisition. *)
ZsupBegin(b, n) ==
  /\ pc[Zsup(b)][n] = "wait"
  /\ pc[Daq(b)][n] = "run"
  /\ Goto(Zsup(b), n, "run")
  /\ UNCHANGED <<brk, joined, raced, statusFiles, runFiles>>

(* File tail, or a short read because the DAQ is gone. *)
ZsupEnd(b, n) ==
  /\ pc[Daq(b)][n] = "dead"
  /\ \/ pc[Zsup(b)][n] = "wait" /\ Exit(Zsup(b), n, FALSE)
     \/ pc[Zsup(b)][n] = "run" /\ Finish(Zsup(b), n)

(* BreakSignal is looked at after each event. *)
ZsupBreak(b, n) ==
  /\ pc[Zsup(b)][n] = "run"
  /\ <<Zsup(b), n>> \in brk
  /\ Finish(Zsup(b), n)

(* Read or write errors (of the file header, too), elapsed time, too many  *)
(* files.  The trigger reports some of them as a failed initialisation.    *)
RunEnds(p, n) ==
  /\ p \in Acq
  /\ pc[p][n] = "run"
  /\ \/ Finish(p, n)
     \/ p = Trig /\ Exit(p, n, TRUE)

(* The first input to end ends the merger, once it has opened them all;    *)
(* the end of the merger ends the Level1 writers.                          *)
SinkEnds(p, n) ==
  /\ p \in Sinks
  /\ pc[p][n] = "run"
  /\ IF p = Merger
     THEN /\ Inputs \X {n} \subseteq joined
          /\ \E q \in Inputs : pc[q][n] = "dead"
     ELSE pc[Merger][n] = "dead"
  /\ Goto(p, n, "dead")
  /\ UNCHANGED <<brk, joined, raced, statusFiles, runFiles>>

(* What a process does of itself, and what goes wrong in it. *)
ProcWork ==
  \/ \E p \in Acq, n \in Runs :
       \/ LockRefused(p, n) \/ LockFree(p, n) \/ LockWritten(p, n)
       \/ InitDone(p, n) \/ OutOpened(p, n)
       \/ StaleInitok(p, n) \/ Ready(p, n)
  \/ \E b \in Boards, n \in Runs :
       \/ DaqQuitAtInit(b, n) \/ DaqInitDone(b, n) \/ StreamOpened(b, n)
       \/ DaqBegin(b, n) \/ DaqAbort(b, n) \/ DaqQuit(b, n)
       \/ ZsupBegin(b, n) \/ ZsupEnd(b, n) \/ ZsupBreak(b, n)
  \/ \E n \in Runs : TrigBegin(n) \/ TrigStop(n)
  \/ \E p \in Sinks, n \in Runs : SinkEnds(p, n)

ProcFault ==
  \/ \E p \in Acq, n \in Runs :
       InitFails(p, n) \/ OpenFails(p, n) \/ RunEnds(p, n)
  \/ \E p \in Proc, n \in Runs : Crash(p, n)

ProcNext == ProcWork \/ ProcFault

-----------------------------------------------------------------------------
(* What the run control does to the processes. *)

(* subprocess.Popen: the sinks are taken as running at once. *)
Launched(p, n) ==
  /\ pc[p][n] = "none"
  /\ Goto(p, n, IF p \in Sinks THEN "run" ELSE "start")

(* SIGTERM.  Only the ZSUP installs the handler, after taking its lock;    *)
(* the handler sets BreakSignal and the interrupted system call resumes.   *)
Signalled(p, n) ==
  \/ /\ Alive(p, n)
     /\ ~(p \in Zsups /\ pc[p][n] \in Holding \ {"init"})
     /\ Goto(p, n, "dead")
     /\ UNCHANGED brk
  \/ /\ p \in Zsups /\ pc[p][n] \in Holding
     /\ brk' = brk \cup {<<p, n>>}
     /\ UNCHANGED pc

(* Run files come and go; the files of a process are only ever removed. *)
EnvFiles ==
  /\ \/ /\ start' \in BOOLEAN /\ quit' \in BOOLEAN
        /\ UNCHANGED <<tstart, tstop, initok, initfail>>
     \/ /\ tstart' \in BOOLEAN /\ tstop' \in BOOLEAN
        /\ UNCHANGED <<start, quit, initok, initfail>>
     \/ /\ \E gone \in SUBSET Acq :
             /\ initok' = [p \in Acq |-> IF p \in gone THEN 0 ELSE initok[p]]
             /\ initfail' = initfail \ gone
        /\ UNCHANGED runFiles
  /\ UNCHANGED <<pc, brk, joined, raced, lock>>

EnvNext ==
  \/ EnvFiles
  \/ \E p \in Proc, n \in Runs :
       /\ \/ Launched(p, n) /\ UNCHANGED brk
          \/ Signalled(p, n)
       /\ UNCHANGED <<joined, raced, statusFiles, runFiles>>

AcqInit ==
  /\ pc = [p \in Proc |-> [n \in Runs |-> "none"]]
  /\ brk = {} /\ joined = {} /\ raced = {}
  /\ lock = [p \in Acq |-> 0]
  /\ initok = [p \in Acq |-> 0]
  /\ initfail = {}
  /\ start = FALSE /\ quit = FALSE /\ tstart = FALSE /\ tstop = FALSE

AcqNext == ProcNext \/ EnvNext

AcqSpec == AcqInit /\ [][AcqNext]_acqVars

-----------------------------------------------------------------------------
AcqTypeOK ==
  /\ pc \in [Proc -> [Runs -> PState]]
  /\ brk \in SUBSET (Zsups \X Runs)
  /\ joined \in SUBSET (Inputs \X Runs)
  /\ raced \in SUBSET Acq
  /\ lock \in [Acq -> {0} \cup Runs]
  /\ initok \in [Acq -> {0} \cup Runs]
  /\ initfail \in SUBSET Acq
  /\ start \in BOOLEAN /\ quit \in BOOLEAN
  /\ tstart \in BOOLEAN /\ tstop \in BOOLEAN

(***************************************************************************)
(* The lock file fails in one way only: two instances that were between    *)
(* access() and fopen() of create_lock at the same time.  Whatever else    *)
(* overlaps, an instance killed with its file left behind, one refused,    *)
(* one that unlinks the file on its way out while another is at any other  *)
(* point, at most one instance of a process is past create_lock: no two    *)
(* DAQ processes drive the same board.                                     *)
(***************************************************************************)
OneHolder ==
  \A p \in Acq \ raced : \A m, n \in Runs :
    pc[p][m] \in Holding /\ pc[p][n] \in Holding => m = n

(***************************************************************************)
(* While an instance is past create_lock the lock file names it, so the    *)
(* pid a remote kill reads from the file is that of the process to stop,   *)
(* and no exit of another instance has unlinked the file under it; but for *)
(* the same race.                                                          *)
(***************************************************************************)
LockNamesHolder ==
  \A p \in Acq \ raced : \A n \in Runs : pc[p][n] \in Holding => lock[p] = n

(***************************************************************************)
(* An InitOK file was created by an instance that completed its            *)
(* initialisation: an instance refused by the lock or failing in its       *)
(* initialisation never leaves one.                                        *)
(***************************************************************************)
InitokIsEarned ==
  \A p \in Acq : initok[p] # 0 => pc[p][initok[p]] \in {"wait", "run", "dead"}

(***************************************************************************)
(* A DAQ takes data only with the two ends of its stream open: its ZSUP    *)
(* has completed the same rendezvous, or has exited.                       *)
(***************************************************************************)
DaqStreamsToZsup ==
  \A b \in Boards : \A n \in Runs :
    pc[Daq(b)][n] \in {"opened", "wait", "run"}
      => pc[Zsup(b)][n] \in {"opened", "wait", "run", "dead"}
=============================================================================

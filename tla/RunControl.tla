----------------------------- MODULE RunControl -----------------------------
(***************************************************************************)
(* RunControlServer: the server that leads the DAQ system through          *)
(*                                                                         *)
(*      idle -> initialized -> running -> idle                             *)
(*                                                                         *)
(* on the commands of one client at a time, launching, starting and        *)
(* stopping the processes of AcqProcess through their control files.       *)
(*                                                                         *)
(* srv is the server's program point, cur its current_state.  A client may *)
(* close its end at any moment; the server may be interrupted (SIGINT) or  *)
(* killed at any moment and be started again, with the processes and the   *)
(* control files as they were left.                                        *)
(***************************************************************************)
EXTENDS AcqProcess

CONSTANTS
  Remote,   \* the processes launched on other nodes, through ssh
  Faults    \* bound: the kinds of fault that happen, see FaultKinds

(***************************************************************************)
(* client: the client closes its connection                                *)
(* sigint: the server receives SIGINT (at most once in its life)           *)
(* kill:   the server is killed                                            *)
(* popen:  a process cannot be launched                                    *)
(* hang:   a process outlives the time it is given to stop                 *)
(* crash:  a process crashes, or fails in its initialisation or its run    *)
(***************************************************************************)
FaultKinds == {"client", "sigint", "kill", "popen", "hang", "crash"}

ASSUME RemoteAssumption == Remote \subseteq Proc
ASSUME FaultsAssumption == Faults \subseteq FaultKinds

VARIABLES
  srv,      \* the program point of the server
  cur,      \* current_state
  conn,     \* the connection to the client
  leaving,  \* why the server is exiting: no, shutdown, sigint
  run,      \* how many runs have been launched
  fresh,    \* history: nothing was left of earlier runs when run was launched
  handle,   \* handle[p]: the instance of p whose Popen object the server holds
  cut,      \* the processes on other nodes whose ssh client was terminated
  todo,     \* the processes still to be launched or stopped
  bstat,    \* bstat[b]: status of board b: init, ready, fail
  ok        \* terminate_ok: all the processes stopped so far exited by themselves

srvVars == <<srv, cur, conn, leaving, run, fresh, handle, cut, todo, bstat, ok>>
vars == <<acqVars, srvVars>>

Up    == {"accept", "cmd", "dialog", "launch", "waittrig", "waitboards",
          "startdaq", "starttrig", "endcomment", "term", "quit", "stop",
          "stop2", "clean1", "clean2", "clean3", "clean4", "answer", "final"}
Down  == {"exited", "crashed"}
Stopping == {"stop", "stop2"}
Cleaning == {"clean1", "clean2", "clean3", "clean4"}

\* Points at which the server reads from its client, or may answer it.
Reading   == {"cmd", "dialog", "endcomment"}
Answering == Reading \cup {"launch", "waittrig", "waitboards", "starttrig",
                           "term", "stop", "stop2", "answer"}

(***************************************************************************)
(* none:   no client was ever accepted                                     *)
(* open:   a client is connected                                           *)
(* gone:   the client closed its end, the server has not noticed yet       *)
(* closed: the server closed the connection; sending on it raises          *)
(***************************************************************************)
CanSend == conn \in {"open", "gone"}

LaunchRank == [level1 |-> 1, merger |-> 2, trig |-> 3, zsup |-> 4, daq |-> 5]
StopRank   == [daq |-> 1, zsup |-> 2, trig |-> 3, merger |-> 4, level1 |-> 5]

IsNext(p, rank) ==
  p \in todo /\ \A q \in todo : rank[Kind(p)] <= rank[Kind(q)]

At(s)  == srv = s
To(s)  == srv' = s

-----------------------------------------------------------------------------
(* The connection. *)

Accept ==
  /\ At("accept") /\ To("cmd")
  /\ conn' = "open"
  /\ UNCHANGED <<acqVars, cur, leaving, run, fresh, handle, cut, todo, bstat, ok>>

ClientCloses ==
  /\ "client" \in Faults
  /\ conn = "open"
  /\ conn' = "gone"
  /\ UNCHANGED <<acqVars, srv, cur, leaving, run, fresh, handle, cut, todo, bstat, ok>>

(* get_command returns client_close: wait for another client in this state. *)
ClientClosed ==
  /\ srv \in Reading /\ cur # "initfail"
  /\ conn = "gone"
  /\ To("accept")
  /\ conn' = "closed"
  /\ UNCHANGED <<acqVars, cur, leaving, run, fresh, handle, cut, todo, bstat, ok>>

(* socket.error, which nobody catches: the server dies of it. *)
ConnectionError ==
  /\ srv \in Answering
  /\ conn # "open"
  /\ To("crashed")
  /\ todo' = {}
  /\ UNCHANGED <<acqVars, cur, conn, leaving, run, fresh, handle, cut, bstat, ok>>

-----------------------------------------------------------------------------
(* new_run. *)

NewRun ==
  /\ At("cmd") /\ cur = "idle" /\ CanSend
  /\ To("dialog")
  /\ UNCHANGED <<acqVars, cur, conn, leaving, run, fresh, handle, cut, todo, bstat, ok>>

(* A wrong run type, or a run number that is already in the DB. *)
NewRunError ==
  /\ At("dialog") /\ CanSend
  /\ To("cmd")
  /\ UNCHANGED <<acqVars, cur, conn, leaving, run, fresh, handle, cut, todo, bstat, ok>>

InitStart ==
  /\ At("dialog") /\ CanSend
  /\ run < MaxRuns
  /\ To("launch")
  /\ run' = run + 1
  /\ fresh' = /\ \A p \in Acq : initok[p] = 0
              /\ \A p \in Proc, n \in Runs : ~Alive(p, n)
  /\ todo' = Proc
  /\ bstat' = [b \in Boards |-> "init"]
  /\ UNCHANGED <<acqVars, cur, conn, leaving, handle, cut, ok>>

LaunchDone(p) ==
  /\ todo' = todo \ {p}
  /\ To(IF todo' = {} THEN "waittrig" ELSE "launch")

Launch(p) ==
  /\ At("launch") /\ CanSend
  /\ IsNext(p, LaunchRank)
  /\ Launched(p, run)
  /\ handle' = [handle EXCEPT ![p] = run]
  /\ cut' = cut \ {p}
  /\ LaunchDone(p)
  /\ UNCHANGED <<brk, joined, raced, statusFiles, runFiles>>
  /\ UNCHANGED <<cur, conn, leaving, run, fresh, bstat, ok>>

(* OSError: reported to the client; only a DAQ's failure is remembered. *)
LaunchFails(p) ==
  /\ "popen" \in Faults
  /\ At("launch") /\ CanSend
  /\ IsNext(p, LaunchRank)
  /\ bstat' = [b \in Boards |-> IF p = Daq(b) THEN "fail" ELSE bstat[b]]
  /\ LaunchDone(p)
  /\ UNCHANGED <<acqVars, cur, conn, leaving, run, fresh, handle, cut, ok>>

InitFailed ==
  /\ To("cmd")
  /\ cur' = "initfail"
  /\ UNCHANGED <<acqVars, conn, leaving, run, fresh, handle, cut, todo, bstat, ok>>

(* An InitOK file counts before an InitFail file. *)
TrigStatus ==
  IF initok[Trig] # 0 THEN "ready" ELSE IF Trig \in initfail THEN "fail" ELSE "init"

(* Mutants: the ZSUP's InitOK file is not looked at; nothing is returned    *)
(* while the board initialises.                                            *)
MutBoardStatus(b) ==
  IF initok[Daq(b)] # 0 THEN "ready"
  ELSE IF {Daq(b), Zsup(b)} \cap initfail # {} THEN "fail" ELSE "init"

MutBoardStatusName(b) ==
  IF initok[Daq(b)] # 0 /\ initok[Zsup(b)] # 0 THEN "ready"
  ELSE IF {Daq(b), Zsup(b)} \cap initfail # {} THEN "fail" ELSE "None"

BoardStatus(b) ==
  IF initok[Daq(b)] # 0 /\ initok[Zsup(b)] # 0 THEN "ready"
  ELSE IF {Daq(b), Zsup(b)} \cap initfail # {} THEN "fail" ELSE "init"

TrigReady ==
  /\ At("waittrig") /\ CanSend
  /\ TrigStatus = "ready"
  /\ To("waitboards")
  /\ UNCHANGED <<acqVars, cur, conn, leaving, run, fresh, handle, cut, todo, bstat, ok>>

(* The trigger failed, or is still initialising after 60 checks. *)
TrigNotReady ==
  /\ At("waittrig") /\ CanSend
  /\ TrigStatus # "ready"
  /\ InitFailed

CheckBoard(b) ==
  /\ At("waitboards") /\ CanSend
  /\ bstat[b] = "init"
  /\ bstat' = [bstat EXCEPT ![b] = BoardStatus(b)]
  /\ UNCHANGED <<acqVars, srv, cur, conn, leaving, run, fresh, handle, cut, todo, ok>>

InitReady ==
  /\ At("waitboards") /\ CanSend
  /\ \A b \in Boards : bstat[b] = "ready"
  /\ To("cmd")
  /\ cur' = "initialized"
  /\ UNCHANGED <<acqVars, conn, leaving, run, fresh, handle, cut, todo, bstat, ok>>

(* Mutant: no limit to the number of checks. *)
MutBoardsNotReady ==
  /\ At("waitboards") /\ CanSend
  /\ \A b \in Boards : bstat[b] # "init"
  /\ \E b \in Boards : bstat[b] = "fail"
  /\ InitFailed

(* A board failed and none is initialising, or 60 checks went by. *)
BoardsNotReady ==
  /\ At("waitboards") /\ CanSend
  /\ \E b \in Boards : bstat[b] # "ready"
  /\ InitFailed

(* state_initfail leaves everything as it is. *)
LeaveInitfail ==
  /\ At("cmd") /\ cur = "initfail"
  /\ cur' = "idle"
  /\ UNCHANGED <<acqVars, srv, conn, leaving, run, fresh, handle, cut, todo, bstat, ok>>

-----------------------------------------------------------------------------
(* start_run. *)

StartRun ==
  /\ At("cmd") /\ cur = "initialized" /\ CanSend
  /\ To("startdaq")
  /\ UNCHANGED <<acqVars, cur, conn, leaving, run, fresh, handle, cut, todo, bstat, ok>>

(* Mutant: the trigger's start file is created first. *)
MutStartDaqs ==
  /\ At("startdaq") /\ To("starttrig")
  /\ tstart' = TRUE
  /\ UNCHANGED <<pc, brk, joined, raced, statusFiles, start, quit, tstop>>
  /\ UNCHANGED <<cur, conn, leaving, run, fresh, handle, cut, todo, bstat, ok>>

StartDaqs ==
  /\ At("startdaq") /\ To("starttrig")
  /\ start' = TRUE
  /\ UNCHANGED <<pc, brk, joined, raced, statusFiles, quit, tstart, tstop>>
  /\ UNCHANGED <<cur, conn, leaving, run, fresh, handle, cut, todo, bstat, ok>>

EnableTriggers ==
  /\ At("starttrig") /\ CanSend
  /\ To("cmd")
  /\ cur' = "running"
  /\ tstart' = TRUE
  /\ UNCHANGED <<pc, brk, joined, raced, statusFiles, start, quit, tstop>>
  /\ UNCHANGED <<conn, leaving, run, fresh, handle, cut, todo, bstat, ok>>

-----------------------------------------------------------------------------
(* stop_run, abort_run, shutdown, SIGINT. *)

StopRun ==
  /\ At("cmd") /\ cur = "running" /\ CanSend
  /\ To("endcomment")
  /\ UNCHANGED <<acqVars, cur, conn, leaving, run, fresh, handle, cut, todo, bstat, ok>>

Terminate ==
  /\ \/ At("endcomment")
     \/ At("cmd") /\ cur = "initialized"     \* abort_run
  /\ CanSend
  /\ To("term")
  /\ UNCHANGED <<acqVars, cur, conn, leaving, run, fresh, handle, cut, todo, bstat, ok>>

(* server_exit, and the SIGINT handler *)
ExitPoint == IF cur \in {"initialized", "running"} THEN "term" ELSE "final"

(* main_loop closes the connection before server_exit runs. *)
Shutdown ==
  /\ At("cmd") /\ cur # "initfail" /\ CanSend
  /\ conn' = "closed"
  /\ leaving' = "shutdown"
  /\ To(ExitPoint)
  /\ UNCHANGED <<acqVars, cur, run, fresh, handle, cut, todo, bstat, ok>>

(* The handler runs on top of whatever the server was doing; once the      *)
(* server is in server_exit the default action kills it.                   *)
Sigint ==
  /\ "sigint" \in Faults
  /\ srv \in Up
  /\ leaving \in {"no", "shutdown"}
  /\ IF leaving = "no" THEN leaving' = "sigint" /\ To(ExitPoint)
                       ELSE To("crashed") /\ UNCHANGED leaving
  /\ todo' = {}
  /\ UNCHANGED <<acqVars, cur, conn, run, fresh, handle, cut, bstat, ok>>

(* Mutant: the trigger's stop file is not created. *)
MutTermStart ==
  /\ At("term") /\ CanSend
  /\ To("quit")
  /\ UNCHANGED acqVars
  /\ UNCHANGED <<cur, conn, leaving, run, fresh, handle, cut, todo, bstat, ok>>

TermStart ==
  /\ At("term") /\ CanSend
  /\ To("quit")
  /\ tstop' = TRUE
  /\ UNCHANGED <<pc, brk, joined, raced, statusFiles, start, quit, tstart>>
  /\ UNCHANGED <<cur, conn, leaving, run, fresh, handle, cut, todo, bstat, ok>>

TermQuit ==
  /\ At("quit") /\ To("stop")
  /\ quit' = TRUE
  /\ todo' = Proc
  /\ ok' = TRUE
  /\ UNCHANGED <<pc, brk, joined, raced, statusFiles, start, tstart, tstop>>
  /\ UNCHANGED <<cur, conn, leaving, run, fresh, handle, cut, bstat>>

\* poll() of the Popen object: for a process on another node, its ssh client
Exited(p) == pc[p][handle[p]] = "dead" \/ p \in cut

StopDone(p) ==
  /\ todo' = todo \ {p}
  /\ To(IF todo' = {} THEN "clean1" ELSE "stop")

(* The Popen object does not exist: AttributeError. *)
StopNothing(p) ==
  /\ srv \in Stopping
  /\ IsNext(p, StopRank)
  /\ handle[p] = 0
  /\ To("crashed")
  /\ todo' = {}
  /\ UNCHANGED <<acqVars, cur, conn, leaving, run, fresh, handle, cut, bstat, ok>>

StopExited(p) ==
  /\ srv \in Stopping /\ CanSend
  /\ IsNext(p, StopRank)
  /\ handle[p] # 0 /\ Exited(p)
  /\ StopDone(p)
  /\ UNCHANGED <<acqVars, cur, conn, leaving, run, fresh, handle, cut, bstat, ok>>

(***************************************************************************)
(* A DAQ or the trigger did not exit in 5 seconds: kill it.  On another    *)
(* node the pid is the one in the lock file; on the server's own node the  *)
(* command is built for both, and executed for the DAQ only.               *)
(***************************************************************************)
KillTarget(p) ==
  IF p \in Remote THEN lock[p] ELSE IF p \in Daqs THEN handle[p] ELSE 0

StopInterrupt(p) ==
  /\ "hang" \in Faults
  /\ At("stop")
  /\ IsNext(p, StopRank)
  /\ p \in Daqs \cup {Trig}
  /\ handle[p] # 0 /\ ~Exited(p)
  /\ To("stop2")
  /\ LET n == KillTarget(p) IN
       IF n # 0 /\ Alive(p, n)
       THEN Signalled(p, n) /\ UNCHANGED <<joined, raced, statusFiles, runFiles>>
       ELSE UNCHANGED acqVars
  /\ UNCHANGED <<cur, conn, leaving, run, fresh, handle, cut, todo, bstat, ok>>

(* The process is still there after all the waiting. *)
StopTimeout(p) ==
  /\ "hang" \in Faults
  /\ At(IF p \in Daqs \cup {Trig} THEN "stop2" ELSE "stop") /\ CanSend
  /\ IsNext(p, StopRank)
  /\ handle[p] # 0 /\ ~Exited(p)
  /\ StopDone(p)
  /\ cut' = cut \cup ({p} \cap Remote)
  /\ UNCHANGED <<cur, conn, leaving, run, fresh, handle, bstat>>

(* Mutants: a process killed is a process stopped; it is not terminated.    *)
MutTerminateOk(p) ==
  /\ StopTimeout(p)
  /\ IF p \in Remote THEN UNCHANGED acqVars
     ELSE Signalled(p, handle[p]) /\ UNCHANGED <<joined, raced, statusFiles, runFiles>>
  /\ UNCHANGED ok

MutTerminateNot(p) ==
  /\ StopTimeout(p)
  /\ UNCHANGED acqVars
  /\ ok' = FALSE

(***************************************************************************)
(* Popen.terminate(): it reaches the process on the server's own node, and *)
(* only the ssh client of a process on another node.                       *)
(***************************************************************************)
StopTerminate(p) ==
  /\ StopTimeout(p)
  /\ IF p \in Remote THEN UNCHANGED acqVars
     ELSE Signalled(p, handle[p]) /\ UNCHANGED <<joined, raced, statusFiles, runFiles>>
  /\ ok' = FALSE

(* clean_up, in its order. *)
CleanRunFiles ==
  /\ At("clean1") /\ To("clean2")
  /\ start' = FALSE /\ quit' = FALSE
  /\ UNCHANGED <<pc, brk, joined, raced, statusFiles, tstart, tstop>>

(* Mutant: the trigger's start file is not removed. *)
MutCleanTrigFiles ==
  /\ At("clean2") /\ To("clean3")
  /\ tstop' = FALSE
  /\ UNCHANGED <<pc, brk, joined, raced, statusFiles, start, quit, tstart>>

CleanTrigFiles ==
  /\ At("clean2") /\ To("clean3")
  /\ tstart' = FALSE /\ tstop' = FALSE
  /\ UNCHANGED <<pc, brk, joined, raced, statusFiles, start, quit>>

(* Mutant: the lock files are removed, too, whoever still holds them. *)
MutCleanStatus(ps) ==
  /\ initok' = [p \in Acq |-> IF p \in ps THEN 0 ELSE initok[p]]
  /\ initfail' = initfail \ ps
  /\ lock' = [p \in Acq |-> IF p \in ps THEN 0 ELSE lock[p]]
  /\ UNCHANGED <<pc, brk, joined, raced, runFiles>>

CleanStatus(ps) ==
  /\ initok' = [p \in Acq |-> IF p \in ps THEN 0 ELSE initok[p]]
  /\ initfail' = initfail \ ps
  /\ UNCHANGED <<pc, brk, joined, raced, lock, runFiles>>

CleanBoardStatus == At("clean3") /\ To("clean4") /\ CleanStatus(Daqs \cup Zsups)
CleanTrigStatus  == At("clean4") /\ To("answer") /\ CleanStatus({Trig})

(* Mutant: the start files are removed after the boards' status files. *)
MutCleanUp ==
  /\ \/ At("clean1") /\ To("clean2") /\ CleanStatus(Daqs \cup Zsups)
     \/ CleanTrigFiles
     \/ /\ At("clean3") /\ To("clean4")
        /\ start' = FALSE /\ quit' = FALSE
        /\ UNCHANGED <<pc, brk, joined, raced, statusFiles, tstart, tstop>>
     \/ CleanTrigStatus
  /\ UNCHANGED <<cur, conn, leaving, run, fresh, handle, cut, todo, bstat, ok>>

CleanUp ==
  /\ CleanRunFiles \/ CleanTrigFiles \/ CleanBoardStatus \/ CleanTrigStatus
  /\ UNCHANGED <<cur, conn, leaving, run, fresh, handle, cut, todo, bstat, ok>>

TermAnswer ==
  /\ At("answer") /\ CanSend
  /\ To(IF leaving = "no" THEN "cmd" ELSE "final")
  /\ cur' = "idle"
  /\ UNCHANGED <<acqVars, conn, leaving, run, fresh, handle, cut, todo, bstat, ok>>

FinalCleanup ==
  /\ At("final") /\ To("exited")
  /\ UNCHANGED <<acqVars, cur, conn, leaving, run, fresh, handle, cut, todo, bstat, ok>>

Kill ==
  /\ "kill" \in Faults
  /\ srv \in Up
  /\ To("crashed")
  /\ todo' = {}
  /\ UNCHANGED <<acqVars, cur, conn, leaving, run, fresh, handle, cut, bstat, ok>>

(* The lock file of a dead server does not stop the next one. *)
Restart ==
  /\ srv \in Down
  /\ run < MaxRuns
  /\ To("accept")
  /\ cur' = "idle" /\ conn' = "none" /\ leaving' = "no"
  /\ handle' = [p \in Proc |-> 0] /\ cut' = {}
  /\ bstat' = [b \in Boards |-> "init"]
  /\ ok' = TRUE
  /\ UNCHANGED <<acqVars, run, fresh, todo>>

-----------------------------------------------------------------------------
SrvInit ==
  /\ srv = "accept" /\ cur = "idle" /\ conn = "none" /\ leaving = "no"
  /\ run = 0 /\ fresh = TRUE
  /\ handle = [p \in Proc |-> 0] /\ cut = {}
  /\ todo = {}
  /\ bstat = [b \in Boards |-> "init"]
  /\ ok = TRUE

Init == AcqInit /\ SrvInit

(* What the server does of itself, once it has a command to carry out. *)
ServerStep ==
  \/ ClientClosed \/ ConnectionError
  \/ (\E p \in Proc : Launch(p) \/ LaunchFails(p))
  \/ TrigReady \/ TrigNotReady \/ (\E b \in Boards : CheckBoard(b))
  \/ InitReady \/ BoardsNotReady \/ LeaveInitfail
  \/ StartDaqs \/ EnableTriggers
  \/ TermStart \/ TermQuit
  \/ (\E p \in Proc : \/ StopNothing(p) \/ StopExited(p)
                      \/ StopInterrupt(p) \/ StopTerminate(p))
  \/ CleanUp \/ TermAnswer \/ FinalCleanup

ClientStep ==
  \/ Accept \/ ClientCloses
  \/ NewRun \/ NewRunError \/ InitStart
  \/ StartRun \/ StopRun \/ Terminate \/ Shutdown

OperatorStep == Sigint \/ Kill \/ Restart

(* The processes, with the faults the bound lets happen. *)
ProcStep ==
  /\ ProcWork \/ ("crash" \in Faults /\ ProcFault)
  /\ UNCHANGED srvVars

Next == ServerStep \/ ClientStep \/ OperatorStep \/ ProcStep

Spec == Init /\ [][Next]_vars

(***************************************************************************)
(* The server is one thread that never waits without a time limit while it *)
(* carries out a command; the operating system schedules every process.    *)
(***************************************************************************)
Fairness == WF_vars(ServerStep) /\ WF_vars(ProcWork /\ UNCHANGED srvVars)

FairSpec == Spec /\ Fairness

-----------------------------------------------------------------------------
SrvTypeOK ==
  /\ srv \in Up \cup Down
  /\ cur \in {"idle", "initialized", "running", "initfail"}
  /\ conn \in {"none", "open", "gone", "closed"}
  /\ leaving \in {"no", "shutdown", "sigint"}
  /\ run \in {0} \cup Runs
  /\ fresh \in BOOLEAN
  /\ handle \in [Proc -> {0} \cup Runs]
  /\ cut \in SUBSET Remote
  /\ todo \in SUBSET Proc
  /\ bstat \in [Boards -> {"init", "ready", "fail"}]
  /\ ok \in BOOLEAN

TypeOK == AcqTypeOK /\ SrvTypeOK

(***************************************************************************)
(* The start files exist only together with the InitOK files of the        *)
(* processes that wait for them, whatever interrupts the server between    *)
(* start_run and the end of clean_up and however often it is restarted.    *)
(* (clean_up removes the start files first, Run.py:902-925.)               *)
(***************************************************************************)
StartImpliesInitok ==
  /\ start => \A p \in Daqs : initok[p] # 0
  /\ tstart => initok[Trig] # 0

(***************************************************************************)
(* So a process that gets ready never finds the start file of an earlier   *)
(* run: it cannot start to take data before the operator says so.          *)
(***************************************************************************)
ReadyFindsNoStart ==
  [][\A p \in Acq, n \in Runs :
       pc[p][n] # "wait" /\ pc'[p][n] = "wait"
         => IF p = Trig THEN ~tstart ELSE p \in Daqs => ~start]_vars

(***************************************************************************)
(* Triggers are enabled after the digitizers are told to start: no trigger *)
(* reaches a board whose DAQ has not been started (Run.start's order).     *)
(***************************************************************************)
TriggerAfterDaqs ==
  [][\A n \in Runs : pc[Trig][n] = "wait" /\ pc'[Trig][n] = "run" => start]_vars

(***************************************************************************)
(* When nothing is left of earlier runs, "initialized" means what the      *)
(* server prints, "All subsystems initialized: DAQ run can be started":    *)
(* each process got ready in this very run (or has died since).            *)
(***************************************************************************)
InitializedIsTrue ==
  cur = "initialized" /\ At("cmd") /\ fresh
    => \A p \in Acq : initok[p] = run /\ pc[p][run] \in {"wait", "run", "dead"}

(***************************************************************************)
(* terminate_ok is sent only when nothing of the run is alive, on any      *)
(* node.  (Not so after a SIGINT during terminate_run, which polls the ssh *)
(* clients the first pass has terminated.)                                 *)
(***************************************************************************)
TerminateOkMeansGone ==
  At("answer") /\ ok /\ leaving # "sigint" => \A p \in Proc : ~Alive(p, run)

(***************************************************************************)
(* Whether it answers terminate_ok or terminate_error, terminate_run       *)
(* leaves no process of the run alive on the server's own node, except a   *)
(* ZSUP, which only notes the signal.                                      *)
(***************************************************************************)
NothingLeftHere ==
  srv \in Cleaning \cup {"answer"}
    => \A p \in Proc \ (Remote \cup Zsups) : ~Alive(p, run)

(***************************************************************************)
(* Whatever happens to the client, the processes and the server itself, a  *)
(* command that has been accepted comes to its end.                        *)
(***************************************************************************)
Busy == {"launch", "waittrig", "waitboards", "startdaq", "starttrig",
         "term", "quit", "answer"} \cup Stopping \cup Cleaning

CommandsEnd == srv \in Busy ~> srv \in {"accept", "cmd", "final"} \cup Down

(***************************************************************************)
(* With no fault and nothing left of earlier runs, the stop and quit files *)
(* are enough: every process of the run exits by itself.                   *)
(***************************************************************************)
StopIsEnough ==
  At("quit") /\ fresh ~> (At("answer") /\ ok) \/ srv \in Down

-----------------------------------------------------------------------------
(* What the code's comments and messages promise, and it does not keep. *)

(***************************************************************************)
(* On shutdown, "If a run is initialized/running, abort it as cleanly as   *)
(* possible" (RunControlServer.py:214): no process of the run outlives the *)
(* server.                                                                 *)
(***************************************************************************)
ShutdownAbortsRun ==
  leaving = "shutdown" /\ cur \in {"initialized", "running"} /\ srv \in Down
    => \A p \in Proc, n \in Runs : handle[p] = n => ~Alive(p, n)
=============================================================================

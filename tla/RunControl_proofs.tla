------------------------- MODULE RunControl_proofs -------------------------
(***************************************************************************)
(* Proofs about RunControl, for any boards, Level1 writers, distribution   *)
(* over nodes, number of runs and choice of faults.                        *)
(***************************************************************************)
EXTENDS RunControl, AcqProcess_proofs

(* InitStart is the only way to launch, and it has counted the run.        *)
LaunchesARun == At("launch") => run \in Runs

TypeInv == TypeOK /\ LaunchesARun

LEMMA SrvInitType == Init => SrvTypeOK /\ LaunchesARun
  BY MaxRunsAssumption DEF Init, SrvInit, SrvTypeOK, LaunchesARun, Up, Down, At, Runs

-----------------------------------------------------------------------------
(* Every step of the server is one the environment of AcqProcess may take. *)

LEMMA RunFilesAreEnv ==
  ASSUME UNCHANGED <<pc, brk, joined, raced, statusFiles>>,
         \/ start' \in BOOLEAN /\ quit' \in BOOLEAN /\ UNCHANGED <<tstart, tstop>>
         \/ tstart' \in BOOLEAN /\ tstop' \in BOOLEAN /\ UNCHANGED <<start, quit>>
  PROVE  EnvFiles
  BY DEF EnvFiles, statusFiles

LEMMA CleanUpIsEnv ==
  ASSUME CleanUp
  PROVE  EnvFiles
<1>1. CASE CleanRunFiles
  <2>1. start' \in BOOLEAN /\ quit' \in BOOLEAN /\ UNCHANGED <<tstart, tstop>>
    BY <1>1 DEF CleanRunFiles
  <2>2. QED
    BY <1>1, <2>1, RunFilesAreEnv DEF CleanRunFiles
<1>2. CASE CleanTrigFiles
  <2>1. tstart' \in BOOLEAN /\ tstop' \in BOOLEAN /\ UNCHANGED <<start, quit>>
    BY <1>2 DEF CleanTrigFiles
  <2>2. QED
    BY <1>2, <2>1, RunFilesAreEnv DEF CleanTrigFiles
<1>3. ASSUME NEW ps \in SUBSET Acq, CleanStatus(ps) PROVE EnvFiles
  BY <1>3 DEF CleanStatus, EnvFiles
<1>4. Daqs \cup Zsups \in SUBSET Acq /\ {Trig} \in SUBSET Acq
  BY DEF Acq
<1>5. QED
  BY <1>1, <1>2, <1>3, <1>4 DEF CleanUp, CleanBoardStatus, CleanTrigStatus

LEMMA FilesAreEnv ==
  ASSUME TypeInv, StartDaqs \/ EnableTriggers \/ TermStart \/ TermQuit
  PROVE  EnvFiles
<1>1. start \in BOOLEAN /\ quit \in BOOLEAN /\ tstart \in BOOLEAN /\ tstop \in BOOLEAN
  BY DEF TypeInv, TypeOK, AcqTypeOK
<1>2. CASE StartDaqs
  BY <1>1, <1>2, RunFilesAreEnv DEF StartDaqs
<1>3. CASE EnableTriggers
  BY <1>1, <1>3, RunFilesAreEnv DEF EnableTriggers
<1>4. CASE TermStart
  BY <1>1, <1>4, RunFilesAreEnv DEF TermStart
<1>5. CASE TermQuit
  BY <1>1, <1>5, RunFilesAreEnv DEF TermQuit
<1>6. QED
  BY <1>2, <1>3, <1>4, <1>5

LEMMA SignalsAreEnv ==
  ASSUME TypeInv, NEW p \in Proc, StopInterrupt(p) \/ StopTerminate(p)
  PROVE  UNCHANGED acqVars \/ EnvNext
<1>1. ASSUME NEW n \in {0} \cup Runs, n # 0, Signalled(p, n),
             UNCHANGED <<joined, raced, statusFiles, runFiles>>
      PROVE  EnvNext
  BY <1>1 DEF EnvNext
<1>2. handle[p] \in {0} \cup Runs
  BY DEF TypeInv, TypeOK, SrvTypeOK
<1>3. p \in Daqs \cup {Trig} => KillTarget(p) \in {0} \cup Runs
  BY <1>2 DEF KillTarget, TypeInv, TypeOK, AcqTypeOK, Acq
<1>4. CASE StopInterrupt(p)
  BY <1>1, <1>3, <1>4 DEF StopInterrupt
<1>5. CASE StopTerminate(p)
  BY <1>1, <1>2, <1>5 DEF StopTerminate, StopTimeout
<1>6. QED
  BY <1>4, <1>5

LEMMA LaunchIsEnv ==
  ASSUME TypeInv, NEW p \in Proc, Launch(p)
  PROVE  EnvNext
  BY DEF Launch, EnvNext, TypeInv, LaunchesARun

(* The other steps of the server leave the processes and files alone. *)
LEMMA OtherSteps ==
  ASSUME \/ ClientClosed \/ ConnectionError \/ TrigReady \/ TrigNotReady
         \/ InitReady \/ BoardsNotReady \/ LeaveInitfail \/ TermAnswer
         \/ FinalCleanup \/ ClientStep \/ OperatorStep
         \/ (\E b \in Boards : CheckBoard(b))
         \/ (\E p \in Proc : LaunchFails(p) \/ StopNothing(p) \/ StopExited(p))
  PROVE  UNCHANGED acqVars
  BY DEF ClientClosed, ConnectionError, TrigReady, TrigNotReady, InitFailed,
     InitReady, BoardsNotReady, LeaveInitfail, TermAnswer, FinalCleanup,
     ClientStep, Accept, ClientCloses, NewRun, NewRunError, InitStart, StartRun,
     StopRun, Terminate, Shutdown, OperatorStep, Sigint, Kill, Restart,
     CheckBoard, LaunchFails, StopNothing, StopExited

LEMMA StepIsAcqStep == TypeInv /\ [Next]_vars => [AcqNext]_acqVars
<1> SUFFICES ASSUME TypeInv, [Next]_vars PROVE [AcqNext]_acqVars
  OBVIOUS
<1>1. CASE ProcStep
  BY <1>1 DEF ProcStep, AcqNext, ProcNext
<1>2. CASE ServerStep
  <2>1. EnvFiles => AcqNext
    BY DEF AcqNext, EnvNext
  <2>2. QED
    BY <1>2, <2>1, CleanUpIsEnv, FilesAreEnv, SignalsAreEnv, LaunchIsEnv,
       OtherSteps DEF ServerStep, AcqNext
<1>3. CASE ClientStep \/ OperatorStep
  BY <1>3, OtherSteps
<1>4. CASE UNCHANGED vars
  BY <1>4 DEF vars
<1>5. QED
  BY <1>1, <1>2, <1>3, <1>4 DEF Next

-----------------------------------------------------------------------------
(* The types of the server's variables. *)

LEMMA ClientStepType ==
  ASSUME SrvTypeOK, LaunchesARun, ClientStep
  PROVE  SrvTypeOK' /\ LaunchesARun'
<1> USE DEF SrvTypeOK, LaunchesARun, At, To, Up, Down
<1>1. CASE Accept \/ ClientCloses
  BY <1>1 DEF Accept, ClientCloses
<1>2. CASE NewRun \/ NewRunError \/ StartRun \/ StopRun \/ Terminate
  BY <1>2 DEF NewRun, NewRunError, StartRun, StopRun, Terminate
<1>3. CASE InitStart
  <2>1. run' \in Runs
    BY <1>3, MaxRunsAssumption DEF InitStart, Runs
  <2>2. fresh' \in BOOLEAN
    BY <1>3 DEF InitStart
  <2>3. bstat' \in [Boards -> {"init", "ready", "fail"}]
    BY <1>3 DEF InitStart
  <2>4. QED
    BY <1>3, <2>1, <2>2, <2>3 DEF InitStart
<1>4. CASE Shutdown
  <2>1. ExitPoint \in Up /\ ExitPoint # "launch"
    BY DEF ExitPoint
  <2>2. QED
    BY <1>4, <2>1 DEF Shutdown
<1>5. QED
  BY <1>1, <1>2, <1>3, <1>4 DEF ClientStep

LEMMA OperatorStepType ==
  ASSUME SrvTypeOK, LaunchesARun, OperatorStep
  PROVE  SrvTypeOK' /\ LaunchesARun'
<1> USE DEF SrvTypeOK, LaunchesARun, At, To, Up, Down
<1>1. CASE Sigint
  <2>1. ExitPoint \in Up /\ ExitPoint # "launch"
    BY DEF ExitPoint
  <2>2. QED
    BY <1>1, <2>1 DEF Sigint
<1>2. CASE Kill
  BY <1>2 DEF Kill
<1>3. CASE Restart
  BY <1>3 DEF Restart
<1>4. QED
  BY <1>1, <1>2, <1>3 DEF OperatorStep

LEMMA ServerStepType ==
  ASSUME TypeInv, ServerStep
  PROVE  SrvTypeOK' /\ LaunchesARun'
<1>0. SrvTypeOK /\ LaunchesARun
  BY DEF TypeInv, TypeOK
<1> USE <1>0 DEF SrvTypeOK, LaunchesARun, At, To, Up, Down
<1>1. CASE ClientClosed \/ ConnectionError
  BY <1>1 DEF ClientClosed, ConnectionError
<1>2. ASSUME NEW p \in Proc, Launch(p) \/ LaunchFails(p)
      PROVE  SrvTypeOK' /\ LaunchesARun'
  <2>1. /\ srv' \in {"waittrig", "launch"} /\ todo' \in SUBSET Proc
        /\ run' = run /\ run \in Runs
    BY <1>2 DEF Launch, LaunchFails, LaunchDone
  <2>2. CASE Launch(p)
    BY <2>1, <2>2 DEF Launch
  <2>3. CASE LaunchFails(p)
    BY <2>1, <2>3 DEF LaunchFails
  <2>4. QED
    BY <1>2, <2>2, <2>3
<1>3. CASE TrigReady \/ TrigNotReady \/ InitReady \/ BoardsNotReady \/ LeaveInitfail
  BY <1>3 DEF TrigReady, TrigNotReady, InitFailed, InitReady, BoardsNotReady,
     LeaveInitfail
<1>4. ASSUME NEW b \in Boards, CheckBoard(b)
      PROVE  SrvTypeOK' /\ LaunchesARun'
  <2>1. BoardStatus(b) \in {"init", "ready", "fail"}
    BY DEF BoardStatus
  <2>2. QED
    BY <1>4, <2>1 DEF CheckBoard
<1>5. CASE StartDaqs \/ EnableTriggers \/ TermStart \/ TermQuit
  BY <1>5 DEF StartDaqs, EnableTriggers, TermStart, TermQuit
<1>6. ASSUME NEW p \in Proc,
             StopNothing(p) \/ StopExited(p) \/ StopInterrupt(p) \/ StopTerminate(p)
      PROVE  SrvTypeOK' /\ LaunchesARun'
  <2>1. /\ srv' \in {"stop2", "clean1", "stop", "crashed"}
        /\ todo' \in SUBSET Proc /\ ok' \in BOOLEAN /\ cut' \in SUBSET Remote
    BY <1>6 DEF StopNothing, StopExited, StopInterrupt, StopTerminate,
       StopTimeout, StopDone
  <2>2. UNCHANGED <<cur, conn, leaving, run, fresh, handle, bstat>>
    BY <1>6 DEF StopNothing, StopExited, StopInterrupt, StopTerminate, StopTimeout
  <2>3. QED
    BY <2>1, <2>2
<1>7. CASE CleanUp
  BY <1>7 DEF CleanUp, CleanRunFiles, CleanTrigFiles, CleanBoardStatus,
     CleanTrigStatus
<1>8. CASE TermAnswer \/ FinalCleanup
  BY <1>8 DEF TermAnswer, FinalCleanup
<1>9. QED
  BY <1>1, <1>2, <1>3, <1>4, <1>5, <1>6, <1>7, <1>8 DEF ServerStep

LEMMA TypeInductive == Spec => []TypeInv
<1>1. Init => TypeInv
  BY TypeInit, SrvInitType DEF Init, TypeInv, TypeOK
<1>2. TypeInv /\ [Next]_vars => TypeInv'
  <2> SUFFICES ASSUME TypeInv, [Next]_vars PROVE TypeInv'
    OBVIOUS
  <2>1. AcqTypeOK'
    BY StepIsAcqStep, TypeStep DEF TypeInv, TypeOK
  <2>2. CASE UNCHANGED srvVars
    BY <2>1, <2>2 DEF srvVars, TypeInv, TypeOK, SrvTypeOK, LaunchesARun, At
  <2>3. QED
    BY <2>1, <2>2, ClientStepType, OperatorStepType, ServerStepType
       DEF TypeInv, TypeOK, Next, ProcStep, vars
<1>3. QED
  BY <1>1, <1>2, PTL DEF Spec

(***************************************************************************)
(* Every variable of the server and of the processes keeps its type: the   *)
(* server holds handles only of runs that were launched, and has cut off   *)
(* only ssh clients.                                                       *)
(***************************************************************************)
THEOREM ServerTypeCorrect == Spec => []TypeOK
<1>1. TypeInv => TypeOK
  BY DEF TypeInv
<1>2. QED
  BY <1>1, TypeInductive, PTL

(***************************************************************************)
(* The server, its clients and its faults are an environment AcqProcess    *)
(* allows for: what is proved there of the processes holds of them here.   *)
(***************************************************************************)
THEOREM ImplementsAcqSpec == Spec => AcqSpec
<1>1. Init => AcqInit
  BY DEF Init
<1>2. QED
  BY <1>1, StepIsAcqStep, TypeInductive, PTL DEF Spec, AcqSpec

-----------------------------------------------------------------------------
(***************************************************************************)
(* The start files.  StartImpliesInitok is not inductive: that start_run   *)
(* finds the InitOK files depends on what the server saw of the boards     *)
(* before it became "initialized", and that clean_up may remove them on    *)
(* its having removed the start files first.                               *)
(***************************************************************************)
Prepared == \A p \in Acq : initok[p] # 0

BeforeStop == {"accept", "cmd", "dialog", "launch", "waittrig", "waitboards",
               "startdaq", "starttrig", "endcomment"}

SeenReady ==
  /\ srv \in {"launch", "waittrig"} => \A b \in Boards : bstat[b] # "ready"
  /\ At("waitboards") =>
       /\ initok[Trig] # 0
       /\ \A b \in Boards : bstat[b] = "ready"
                            => initok[Daq(b)] # 0 /\ initok[Zsup(b)] # 0

InitializedIsPrepared ==
  srv \in {"startdaq", "starttrig"} \/ (cur = "initialized" /\ srv \in BeforeStop)
    => Prepared

CleanedInOrder ==
  /\ srv \in {"clean2", "clean3", "clean4"} => ~start
  /\ srv \in {"clean3", "clean4"} => ~tstart

StartInv == StartImpliesInitok /\ SeenReady /\ InitializedIsPrepared /\ CleanedInOrder

(* The trigger is told to stop before the start file may disappear.        *)
TrigInv ==
  /\ tstart /\ ~tstop => start
  /\ At("starttrig") => start
  /\ srv \in {"quit", "stop", "stop2", "clean1", "clean2"} => tstop

(* No step of a process removes an InitOK file or touches a run file.      *)
LEMMA ProcKeepsFiles ==
  ASSUME AcqTypeOK, ProcNext
  PROVE  (\A p \in Acq : initok[p] # 0 => initok'[p] # 0) /\ UNCHANGED runFiles
<1> DEFINE Kept == (\A p \in Acq : initok[p] # 0 => initok'[p] # 0) /\ UNCHANGED runFiles
<1>1. initok' = initok /\ UNCHANGED runFiles => Kept
  OBVIOUS
<1>2. ASSUME NEW p \in Acq, NEW n \in Runs, Ready(p, n) PROVE Kept
  <2>1. initok' = [initok EXCEPT ![p] = n] /\ n # 0 /\ UNCHANGED runFiles
    BY <1>2 DEF Ready, Runs
  <2>2. QED
    BY <2>1 DEF AcqTypeOK
<1>3. ASSUME NEW p \in Acq, NEW n \in Runs,
             \/ LockRefused(p, n) \/ LockFree(p, n) \/ LockWritten(p, n)
             \/ InitFails(p, n) \/ InitDone(p, n) \/ OutOpened(p, n)
             \/ OpenFails(p, n) \/ StaleInitok(p, n) \/ RunEnds(p, n)
      PROVE  Kept
  BY <1>3 DEF LockRefused, LockFree, LockWritten, InitFails, InitDone,
     OutOpened, OpenFails, StaleInitok, RunEnds, Finish, Crash, Exit, statusFiles
<1>4. ASSUME NEW b \in Boards, NEW n \in Runs,
             \/ DaqQuitAtInit(b, n) \/ DaqInitDone(b, n) \/ StreamOpened(b, n)
             \/ DaqBegin(b, n) \/ DaqAbort(b, n) \/ DaqQuit(b, n)
             \/ ZsupBegin(b, n) \/ ZsupEnd(b, n) \/ ZsupBreak(b, n)
      PROVE  Kept
  BY <1>4 DEF DaqQuitAtInit, DaqInitDone, StreamOpened, DaqBegin, DaqAbort,
     DaqQuit, ZsupBegin, ZsupEnd, ZsupBreak, Finish, Crash, Exit, statusFiles
<1>5. ASSUME NEW n \in Runs, TrigBegin(n) \/ TrigStop(n) PROVE Kept
  BY <1>5 DEF TrigBegin, TrigStop, Finish, Crash, Exit, statusFiles
<1>6. ASSUME NEW p \in Proc, NEW n \in Runs, SinkEnds(p, n) \/ Crash(p, n)
      PROVE  Kept
  BY <1>6 DEF SinkEnds, Crash, statusFiles
<1>7. Sinks \subseteq Proc
  BY DEF Proc
<1>8. QED
  BY <1>2, <1>3, <1>4, <1>5, <1>6, <1>7 DEF ProcNext, ProcWork, ProcFault

(* Only clean_up removes InitOK files.                                     *)
LEMMA InitokKept ==
  ASSUME TypeInv, [Next]_vars, ~CleanUp
  PROVE  \A p \in Acq : initok[p] # 0 => initok'[p] # 0
<1> DEFINE Kept == \A p \in Acq : initok[p] # 0 => initok'[p] # 0
<1>1. UNCHANGED initok => Kept
  OBVIOUS
<1>2. CASE ProcStep
  BY <1>2, ProcKeepsFiles DEF ProcStep, ProcNext, TypeInv, TypeOK
<1>3. CASE ServerStep
  <2>1. ASSUME UNCHANGED acqVars PROVE Kept
    BY <2>1 DEF acqVars, statusFiles
  <2>2. ASSUME StartDaqs \/ EnableTriggers \/ TermStart \/ TermQuit PROVE Kept
    BY <2>2 DEF StartDaqs, EnableTriggers, TermStart, TermQuit, statusFiles, acqVars
  <2>3. ASSUME NEW p \in Proc, Launch(p) \/ StopInterrupt(p) \/ StopTerminate(p)
        PROVE  Kept
    BY <2>3 DEF Launch, StopInterrupt, StopTerminate, statusFiles, acqVars
  <2>4. QED
    BY <1>3, <2>1, <2>2, <2>3, OtherSteps DEF ServerStep
<1>4. CASE ClientStep \/ OperatorStep
  BY <1>4, OtherSteps DEF acqVars, statusFiles
<1>5. CASE UNCHANGED vars
  BY <1>5 DEF vars, acqVars, statusFiles
<1>6. QED
  BY <1>2, <1>3, <1>4, <1>5 DEF Next

(* The run files, step by step of the server.                              *)
LEMMA RunFilesKept ==
  ASSUME TypeInv, [Next]_vars,
         ~CleanUp, ~StartDaqs, ~EnableTriggers, ~TermStart, ~TermQuit
  PROVE  UNCHANGED runFiles
<1>1. ASSUME UNCHANGED acqVars PROVE UNCHANGED runFiles
  BY <1>1 DEF acqVars
<1>2. CASE ProcStep
  BY <1>2, ProcKeepsFiles DEF ProcStep, ProcNext, TypeInv, TypeOK
<1>3. CASE ServerStep
  <2>1. ASSUME NEW p \in Proc, Launch(p) \/ StopInterrupt(p) \/ StopTerminate(p)
        PROVE  UNCHANGED runFiles
    BY <2>1 DEF Launch, StopInterrupt, StopTerminate, acqVars
  <2>2. QED
    BY <1>1, <1>3, <2>1, OtherSteps DEF ServerStep
<1>4. CASE ClientStep \/ OperatorStep
  BY <1>1, <1>4, OtherSteps
<1>5. CASE UNCHANGED vars
  BY <1>5 DEF vars, acqVars
<1>6. QED
  BY <1>2, <1>3, <1>4, <1>5 DEF Next

(* The steps of clean_up. *)
LEMMA CleanUpStartInv ==
  ASSUME TypeInv, StartInv, CleanUp
  PROVE  StartInv'
<1> USE DEF StartInv, At, To, BeforeStop
<1>1. CASE CleanRunFiles
  BY <1>1 DEF CleanUp, CleanRunFiles, statusFiles, StartImpliesInitok,
     SeenReady, InitializedIsPrepared, CleanedInOrder
<1>2. CASE CleanTrigFiles
  BY <1>2 DEF CleanUp, CleanTrigFiles, statusFiles, StartImpliesInitok,
     SeenReady, InitializedIsPrepared, CleanedInOrder
<1>3. CASE CleanBoardStatus
  <2>1. ~start' /\ ~tstart'
    BY <1>3 DEF CleanBoardStatus, CleanStatus, CleanedInOrder, runFiles
  <2>2. QED
    BY <1>3, <2>1 DEF CleanUp, CleanBoardStatus, StartImpliesInitok, SeenReady,
       InitializedIsPrepared, CleanedInOrder
<1>4. CASE CleanTrigStatus
  <2>1. ~start' /\ ~tstart'
    BY <1>4 DEF CleanTrigStatus, CleanStatus, CleanedInOrder, runFiles
  <2>2. QED
    BY <1>4, <2>1 DEF CleanUp, CleanTrigStatus, StartImpliesInitok, SeenReady,
       InitializedIsPrepared, CleanedInOrder
<1>5. QED
  BY <1>1, <1>2, <1>3, <1>4 DEF CleanUp

(* A step of the server that leaves the run files alone and keeps the      *)
(* InitOK files can only break what the server knows of them.              *)
LEMMA KeptStartInv ==
  ASSUME TypeInv, StartInv, UNCHANGED runFiles,
         \A p \in Acq : initok[p] # 0 => initok'[p] # 0
  PROVE  StartImpliesInitok' /\ (Prepared => Prepared')
<1>1. Daqs \subseteq Acq /\ Trig \in Acq
  BY DEF Acq
<1>2. QED
  BY <1>1 DEF StartInv, StartImpliesInitok, Prepared, runFiles

LEMMA StartStep == TypeInv /\ StartInv /\ [Next]_vars => StartInv'
<1> SUFFICES ASSUME TypeInv, StartInv, [Next]_vars, ~CleanUp PROVE StartInv'
  BY CleanUpStartInv
<1>1. \A p \in Acq : initok[p] # 0 => initok'[p] # 0
  BY InitokKept
<1>2. \A b \in Boards : Daq(b) \in Acq /\ Daq(b) \in Daqs /\ Zsup(b) \in Acq
  BY DEF Acq, Daqs, Daq, Zsups, Zsup
<1>3. /\ Daqs \subseteq Acq /\ Trig \in Acq
      /\ Acq = {Daq(b) : b \in Boards} \cup {Zsup(b) : b \in Boards} \cup {Trig}
  BY DEF Acq, Daqs, Daq, Zsups, Zsup
<1>4. StartImpliesInitok /\ SeenReady /\ InitializedIsPrepared /\ CleanedInOrder
  BY DEF StartInv
<1>5. ASSUME UNCHANGED runFiles PROVE StartImpliesInitok' /\ (Prepared => Prepared')
  BY <1>1, <1>5, KeptStartInv
<1>6. Prepared => Prepared'
  BY <1>1, <1>3 DEF Prepared
<1> DEFINE Knows == SeenReady' /\ InitializedIsPrepared' /\ CleanedInOrder'
<1>7. ASSUME UNCHANGED srvVars, UNCHANGED runFiles PROVE Knows
  BY <1>1, <1>2, <1>3, <1>4, <1>6, <1>7 DEF SeenReady, InitializedIsPrepared,
     CleanedInOrder, At, srvVars, runFiles
<1>8. CASE StartDaqs
  <2>1. Prepared /\ Prepared' /\ start' /\ tstart' = tstart
    BY <1>4, <1>6, <1>8 DEF StartDaqs, InitializedIsPrepared, At
  <2>2. StartImpliesInitok'
    BY <1>3, <2>1 DEF StartImpliesInitok, Prepared
  <2>3. Knows
    BY <1>8, <2>1 DEF StartDaqs, To, SeenReady, InitializedIsPrepared,
       CleanedInOrder, At
  <2>4. QED
    BY <2>2, <2>3 DEF StartInv
<1>9. CASE EnableTriggers
  <2>1. Prepared /\ Prepared'
    BY <1>4, <1>6, <1>9 DEF EnableTriggers, InitializedIsPrepared, At
  <2>2. StartImpliesInitok'
    BY <1>3, <2>1 DEF StartImpliesInitok, Prepared
  <2>3. Knows
    BY <1>9, <2>1 DEF EnableTriggers, To, SeenReady, InitializedIsPrepared,
       CleanedInOrder, At
  <2>4. QED
    BY <2>2, <2>3 DEF StartInv
<1>10. CASE TermStart \/ TermQuit
  <2>1. start' = start /\ tstart' = tstart
    BY <1>10 DEF TermStart, TermQuit
  <2>2. StartImpliesInitok'
    BY <1>1, <1>3, <1>4, <2>1 DEF StartImpliesInitok
  <2>3. Knows
    BY <1>10 DEF TermStart, TermQuit, To, SeenReady, InitializedIsPrepared,
       CleanedInOrder, At, BeforeStop
  <2>4. QED
    BY <2>2, <2>3 DEF StartInv
<1>11. CASE ~StartDaqs /\ ~EnableTriggers /\ ~TermStart /\ ~TermQuit
  <2>1. UNCHANGED runFiles /\ start' = start /\ tstart' = tstart
    BY <1>11, RunFilesKept DEF runFiles
  <2> SUFFICES Knows
    BY <1>5, <2>1 DEF StartInv
  <2> USE <1>4 DEF SeenReady, InitializedIsPrepared, CleanedInOrder, At, To, BeforeStop
  <2>2. CASE ProcStep \/ UNCHANGED vars
    BY <1>7, <2>1, <2>2 DEF ProcStep, vars
  <2>3. CASE ClientStep
    <3>1. CASE \/ Accept \/ ClientCloses \/ NewRun \/ NewRunError
               \/ StartRun \/ StopRun \/ Terminate
      BY <1>1, <1>2, <1>3, <1>6, <3>1 DEF Accept, ClientCloses, NewRun,
         NewRunError, StartRun, StopRun, Terminate, acqVars, runFiles
    <3>2. CASE InitStart
      BY <1>6, <3>2 DEF InitStart
    <3>3. CASE Shutdown
      BY <3>3 DEF Shutdown, ExitPoint
    <3>4. QED
      BY <2>3, <3>1, <3>2, <3>3 DEF ClientStep
  <2>4. CASE OperatorStep
    BY <2>4 DEF OperatorStep, Sigint, Kill, Restart, ExitPoint, Down
  <2>5. CASE ServerStep
    <3>1. CASE ClientClosed \/ ConnectionError
      BY <1>6, <3>1 DEF ClientClosed, ConnectionError, Reading
    <3>2. ASSUME NEW p \in Proc, Launch(p) PROVE Knows
      BY <1>6, <3>2 DEF Launch, LaunchDone
    <3>3. ASSUME NEW p \in Proc, LaunchFails(p) PROVE Knows
      BY <1>6, <3>3 DEF LaunchFails, LaunchDone
    <3>4. CASE TrigReady
      <4>1. initok[Trig] # 0
        BY <3>4 DEF TrigReady, TrigStatus
      <4>2. QED
        BY <1>1, <1>3, <1>6, <3>4, <4>1 DEF TrigReady
    <3>5. CASE TrigNotReady \/ BoardsNotReady \/ LeaveInitfail
      BY <3>5 DEF TrigNotReady, BoardsNotReady, InitFailed, LeaveInitfail
    <3>6. ASSUME NEW b \in Boards, CheckBoard(b) PROVE Knows
      <4>1. bstat' = [bstat EXCEPT ![b] = BoardStatus(b)] /\ srv' = srv /\ cur' = cur
            /\ At("waitboards") /\ UNCHANGED acqVars
        BY <3>6 DEF CheckBoard
      <4>2. BoardStatus(b) = "ready" => initok[Daq(b)] # 0 /\ initok[Zsup(b)] # 0
        BY DEF BoardStatus
      <4>3. \A c \in Boards : bstat'[c] = "ready"
              => initok[Daq(c)] # 0 /\ initok[Zsup(c)] # 0
        BY <4>1, <4>2 DEF TypeInv, TypeOK, SrvTypeOK
      <4>4. QED
        BY <1>1, <1>2, <1>3, <1>6, <4>1, <4>3
    <3>7. CASE InitReady
      <4>1. Prepared
        BY <1>3, <3>7 DEF InitReady, Prepared
      <4>2. QED
        BY <1>6, <3>7, <4>1 DEF InitReady
    <3>8. ASSUME NEW p \in Proc,
                 \/ StopNothing(p) \/ StopExited(p)
                 \/ StopInterrupt(p) \/ StopTerminate(p)
          PROVE  Knows
      BY <3>8 DEF StopNothing, StopExited, StopInterrupt, StopTerminate,
         StopTimeout, StopDone, Stopping
    <3>9. CASE TermAnswer \/ FinalCleanup
      BY <3>9 DEF TermAnswer, FinalCleanup
    <3>10. QED
      BY <1>11, <2>5, <3>1, <3>2, <3>3, <3>4, <3>5, <3>6, <3>7, <3>8, <3>9
         DEF ServerStep
  <2>6. QED
    BY <2>2, <2>3, <2>4, <2>5 DEF Next
<1>12. QED
  BY <1>8, <1>9, <1>10, <1>11

LEMMA StartInductive == Spec => []StartInv
<1>1. Init => StartInv
  BY DEF Init, AcqInit, SrvInit, StartInv, StartImpliesInitok, SeenReady,
     InitializedIsPrepared, CleanedInOrder, At
<1>2. QED
  BY <1>1, StartStep, TypeInductive, PTL DEF Spec

(***************************************************************************)
(* At any moment, and wherever the server was interrupted, killed or       *)
(* started again, a start file is accompanied by the InitOK files of the   *)
(* processes that wait for it.                                             *)
(***************************************************************************)
THEOREM StartFilesAccompanied == Spec => []StartImpliesInitok
<1>1. StartInv => StartImpliesInitok
  BY DEF StartInv
<1>2. QED
  BY <1>1, StartInductive, PTL

-----------------------------------------------------------------------------
(* Which steps take an instance to the wait for the start of the run, and  *)
(* a trigger into its run.                                                 *)
LEMMA StepsForward ==
  ASSUME TypeInv, [Next]_vars, NEW p \in Acq, NEW n \in Runs
  PROVE  /\ pc[p][n] # "wait" /\ pc'[p][n] = "wait" => Ready(p, n)
         /\ p = Trig /\ pc[p][n] = "wait" /\ pc'[p][n] = "run" => TrigBegin(n)
<1> DEFINE Fine == /\ pc[p][n] # "wait" /\ pc'[p][n] = "wait" => Ready(p, n)
                   /\ p = Trig /\ pc[p][n] = "wait" /\ pc'[p][n] = "run" => TrigBegin(n)
<1>1. pc \in [Proc -> [Runs -> PState]] /\ Acq \subseteq Proc /\ Sinks \subseteq Proc
  BY Names DEF TypeInv, TypeOK, AcqTypeOK
<1>2. ASSUME UNCHANGED pc PROVE Fine
  BY <1>2
<1>3. ASSUME NEW q \in Proc, NEW m \in Runs, NEW s, Goto(q, m, s), s # "wait",
             s # "run" \/ q # Trig
      PROVE  Fine
  BY <1>1, <1>3, GotoPoint
<1>4. ASSUME NEW q \in Acq, NEW m \in Runs, Ready(q, m) PROVE Fine
  <2>1. pc'[p][n] = IF p = q /\ n = m THEN "wait" ELSE pc[p][n]
    BY <1>1, <1>4, GotoPoint DEF Ready
  <2>2. QED
    BY <1>4, <2>1
<1>5. ASSUME NEW m \in Runs, TrigBegin(m) PROVE Fine
  <2>1. pc'[p][n] = IF p = Trig /\ n = m THEN "run" ELSE pc[p][n]
    BY <1>1, <1>5, Names, GotoPoint DEF TrigBegin
  <2>2. QED
    BY <1>5, <2>1
<1>6. ASSUME NEW q \in Acq, NEW m \in Runs,
             \/ LockRefused(q, m) \/ LockFree(q, m) \/ LockWritten(q, m)
             \/ InitFails(q, m) \/ InitDone(q, m) \/ OutOpened(q, m)
             \/ OpenFails(q, m) \/ StaleInitok(q, m) \/ RunEnds(q, m)
      PROVE  Fine
  BY <1>1, <1>3, <1>6 DEF LockRefused, LockFree, LockWritten, InitFails, InitDone,
     OutOpened, OpenFails, StaleInitok, RunEnds, Finish, Crash, Exit
<1>7. ASSUME NEW b \in Boards, NEW m \in Runs,
             \/ DaqQuitAtInit(b, m) \/ DaqInitDone(b, m) \/ DaqBegin(b, m)
             \/ DaqAbort(b, m) \/ DaqQuit(b, m)
             \/ ZsupBegin(b, m) \/ ZsupEnd(b, m) \/ ZsupBreak(b, m)
      PROVE  Fine
  BY <1>1, <1>3, <1>7, Names DEF DaqQuitAtInit, DaqInitDone, DaqBegin, DaqAbort,
     DaqQuit, ZsupBegin, ZsupEnd, ZsupBreak, Finish, Crash, Exit
<1>8. ASSUME NEW b \in Boards, NEW m \in Runs, StreamOpened(b, m) PROVE Fine
  BY <1>1, <1>8, Names DEF StreamOpened
<1>9. ASSUME NEW m \in Runs, TrigStop(m) PROVE Fine
  BY <1>1, <1>3, <1>9, Names DEF TrigStop, Finish, Crash, Exit
<1>10. ASSUME NEW q \in Proc, NEW m \in Runs, SinkEnds(q, m) \/ Crash(q, m)
       PROVE  Fine
  BY <1>3, <1>10 DEF SinkEnds, Crash
<1>11. ASSUME EnvFiles PROVE Fine
  BY <1>2, <1>11 DEF EnvFiles
<1>12. ASSUME NEW q \in Proc, NEW m \in Runs,
              Launched(q, m) \/ Signalled(q, m)
       PROVE  Fine
  <2>1. CASE Launched(q, m)
    BY <1>3, <2>1, Names DEF Launched
  <2>2. CASE Signalled(q, m)
    BY <1>2, <1>3, <2>2 DEF Signalled
  <2>3. QED
    BY <1>12, <2>1, <2>2
<1>13. [AcqNext]_acqVars
  BY StepIsAcqStep
<1>14. QED
  BY <1>1, <1>2, <1>4, <1>5, <1>6, <1>7, <1>8, <1>9, <1>10, <1>11, <1>12, <1>13
     DEF AcqNext, ProcNext, ProcWork, ProcFault, EnvNext, acqVars

(***************************************************************************)
(* A process that gets ready never finds the start file of an earlier run: *)
(* it creates its InitOK file only if there is none, and a start file      *)
(* without an InitOK file does not exist.                                  *)
(***************************************************************************)
THEOREM NoEarlyStart == Spec => ReadyFindsNoStart
<1>1. TypeInv /\ StartImpliesInitok /\ [Next]_vars
        => [\A p \in Acq, n \in Runs :
              pc[p][n] # "wait" /\ pc'[p][n] = "wait"
                => IF p = Trig THEN ~tstart ELSE p \in Daqs => ~start]_vars
  BY StepsForward DEF Ready, StartImpliesInitok
<1>2. QED
  BY <1>1, TypeInductive, StartFilesAccompanied, PTL DEF Spec, ReadyFindsNoStart

-----------------------------------------------------------------------------
LEMMA TrigStep == TypeInv /\ TrigInv /\ [Next]_vars => TrigInv'
<1> SUFFICES ASSUME TypeInv, TrigInv, [Next]_vars PROVE TrigInv'
  OBVIOUS
<1> USE DEF TrigInv, At, To
<1>1. CASE CleanUp
  BY <1>1 DEF CleanUp, CleanRunFiles, CleanTrigFiles, CleanBoardStatus,
     CleanTrigStatus, CleanStatus, runFiles
<1>2. CASE StartDaqs \/ EnableTriggers \/ TermStart \/ TermQuit
  BY <1>2 DEF StartDaqs, EnableTriggers, TermStart, TermQuit
<1>3. CASE ~CleanUp /\ ~StartDaqs /\ ~EnableTriggers /\ ~TermStart /\ ~TermQuit
  <2>1. UNCHANGED <<start, tstart, tstop>>
    BY <1>3, RunFilesKept DEF runFiles
  <2>2. CASE ProcStep \/ UNCHANGED vars
    BY <2>1, <2>2 DEF ProcStep, vars, srvVars
  <2>3. CASE ClientStep
    BY <2>1, <2>3 DEF ClientStep, Accept, ClientCloses, NewRun, NewRunError,
       InitStart, StartRun, StopRun, Terminate, Shutdown, ExitPoint
  <2>4. CASE OperatorStep
    BY <2>1, <2>4 DEF OperatorStep, Sigint, Kill, Restart, ExitPoint
  <2>5. CASE ServerStep
    <3>1. CASE \/ ClientClosed \/ ConnectionError \/ TrigReady \/ TrigNotReady
               \/ InitReady \/ BoardsNotReady \/ LeaveInitfail \/ TermAnswer
               \/ FinalCleanup \/ (\E b \in Boards : CheckBoard(b))
      BY <2>1, <3>1 DEF ClientClosed, ConnectionError, TrigReady, TrigNotReady,
         InitFailed, InitReady, BoardsNotReady, LeaveInitfail, TermAnswer,
         FinalCleanup, CheckBoard
    <3>2. ASSUME NEW p \in Proc,
                 \/ Launch(p) \/ LaunchFails(p) \/ StopNothing(p)
                 \/ StopExited(p) \/ StopInterrupt(p) \/ StopTerminate(p)
          PROVE  TrigInv'
      <4>1. \/ srv' \in {"launch", "waittrig", "crashed"}
            \/ srv \in Stopping /\ srv' \in Stopping \cup {"clean1"}
        BY <3>2 DEF Launch, LaunchFails, LaunchDone, StopNothing, StopExited,
           StopInterrupt, StopTerminate, StopTimeout, StopDone, Stopping
      <4>2. QED
        BY <2>1, <4>1 DEF Stopping
    <3>3. QED
      BY <1>3, <2>5, <3>1, <3>2 DEF ServerStep
  <2>6. QED
    BY <2>2, <2>3, <2>4, <2>5 DEF Next
<1>4. QED
  BY <1>1, <1>2, <1>3

(***************************************************************************)
(* No trigger process of any run begins to deliver triggers before the     *)
(* DAQs' start file is there: while it is absent, either start_trig is     *)
(* absent too or stop_trig tells the trigger to stop.                      *)
(***************************************************************************)
THEOREM DaqsStartFirst == Spec => TriggerAfterDaqs
<1>1. Init => TrigInv
  BY DEF Init, AcqInit, SrvInit, TrigInv, At
<1>2. TypeInv /\ TrigInv /\ [Next]_vars
        => [\A n \in Runs :
              pc[Trig][n] = "wait" /\ pc'[Trig][n] = "run" => start]_vars
  <2>1. Trig \in Acq
    BY Names
  <2>2. QED
    BY <2>1, StepsForward DEF TrigBegin, TrigInv
<1>3. QED
  BY <1>1, <1>2, TrigStep, TypeInductive, PTL DEF Spec, TriggerAfterDaqs

-----------------------------------------------------------------------------
(***************************************************************************)
(* The end of a run.  That nothing of the run is left when terminate_run   *)
(* is through depends on its having a handle for everything that is alive, *)
(* and on the processes it polls not being ssh clients that were cut off   *)
(* before, from which it would learn nothing.                              *)
(***************************************************************************)
InRun ==
  /\ srv \in Up
  /\ srv \in {"launch", "waittrig", "waitboards"} \/ cur \in {"initialized", "running"}

AfterQuit == Stopping \cup Cleaning \cup {"answer"}

LaunchedRuns ==
  /\ \A p \in Proc, n \in Runs : n > run => pc[p][n] = "none"
  /\ InRun => run \in Runs

(* A command is carried out in the state that allows it, and none is once  *)
(* the server is leaving.                                                  *)
Phases ==
  /\ srv \in BeforeStop => leaving = "no"
  /\ srv \in {"dialog", "launch", "waittrig", "waitboards"} => cur = "idle"
  /\ srv \in AfterQuit \cup {"startdaq", "starttrig", "endcomment", "term", "quit"}
       => cur \in {"initialized", "running"}

HandlesOfRun == InRun => \A p \in Proc : Alive(p, run) => handle[p] = run

(* An ssh client that was cut off belongs to an earlier run, unless it was *)
(* cut off in this very pass, which is then not ok, or in a pass that a    *)
(* SIGINT broke off.                                                       *)
CutOff ==
  InRun /\ leaving # "sigint" =>
    \/ srv \in AfterQuit /\ ~ok
    \/ \A p \in cut : ~Alive(p, run)

Stopped ==
  srv \in AfterQuit => \A p \in Proc :
    \/ ~Alive(p, run)
    \/ srv \in Stopping /\ p \in todo
    \/ p \in Remote \cup Zsups /\ (~ok \/ leaving = "sigint")

StopInv == LaunchedRuns /\ Phases /\ HandlesOfRun /\ CutOff /\ Stopped

(* An instance that is not alive does not come to life.                    *)
GoesOn(p, n) ==
  pc'[p][n] = pc[p][n] \/ (Alive(p, n) /\ pc'[p][n] # "none")

LEMMA GotoGoesOn ==
  ASSUME pc \in [Proc -> [Runs -> PState]],
         NEW q \in Proc, NEW m \in Runs, NEW s, Goto(q, m, s), Alive(q, m), s # "none",
         NEW p \in Proc, NEW n \in Runs
  PROVE  GoesOn(p, n)
  BY GotoPoint DEF GoesOn, Alive

LEMMA SignalGoesOn ==
  ASSUME pc \in [Proc -> [Runs -> PState]],
         NEW q \in Proc, NEW m \in Runs, Signalled(q, m),
         NEW p \in Proc, NEW n \in Runs
  PROVE  GoesOn(p, n)
  BY GotoGoesOn DEF Signalled, GoesOn

LEMMA ProcGoesOn ==
  ASSUME AcqTypeOK, ProcNext, NEW p \in Proc, NEW n \in Runs
  PROVE  GoesOn(p, n)
<1>0. /\ pc \in [Proc -> [Runs -> PState]]
      /\ Acq \subseteq Proc /\ Sinks \subseteq Proc /\ Trig \in Acq
      /\ \A b \in Boards : Daq(b) \in Acq /\ Zsup(b) \in Acq
  BY Names DEF AcqTypeOK
<1> USE <1>0, GotoGoesOn DEF Alive
<1>1. ASSUME NEW q \in Acq, NEW m \in Runs,
             \/ LockRefused(q, m) \/ LockFree(q, m) \/ LockWritten(q, m)
             \/ InitDone(q, m) \/ Ready(q, m)
      PROVE  GoesOn(p, n)
  BY <1>1 DEF LockRefused, LockFree, LockWritten, InitDone, Ready
<1>2. ASSUME NEW q \in Acq, NEW m \in Runs, OutOpened(q, m)
      PROVE  GoesOn(p, n)
  <2>1. PICK s \in {"opened", "open"} : Goto(q, m, s)
    BY ONLY <1>2 DEF OutOpened
  <2>2. QED
    BY <1>2, <2>1 DEF OutOpened
<1>3. ASSUME NEW q \in Acq, NEW m \in Runs, Exit(q, m, TRUE) \/ Exit(q, m, FALSE),
             Alive(q, m)
      PROVE  GoesOn(p, n)
  BY <1>3 DEF Exit
<1>4. ASSUME NEW q \in Acq, NEW m \in Runs, Finish(q, m), Alive(q, m)
      PROVE  GoesOn(p, n)
  BY <1>3, <1>4 DEF Finish, Crash
<1>5. ASSUME NEW q \in Acq, NEW m \in Runs,
             \/ StaleInitok(q, m) \/ InitFails(q, m) \/ OpenFails(q, m)
             \/ RunEnds(q, m)
      PROVE  GoesOn(p, n)
  BY <1>3, <1>4, <1>5 DEF StaleInitok, InitFails, OpenFails, RunEnds, Exit
<1>6. ASSUME NEW b \in Boards, NEW m \in Runs,
             \/ DaqQuitAtInit(b, m) \/ DaqInitDone(b, m) \/ DaqBegin(b, m)
             \/ DaqAbort(b, m) \/ DaqQuit(b, m)
             \/ ZsupBegin(b, m) \/ ZsupEnd(b, m) \/ ZsupBreak(b, m)
      PROVE  GoesOn(p, n)
  BY <1>3, <1>4, <1>6 DEF DaqQuitAtInit, DaqInitDone, DaqBegin, DaqAbort, DaqQuit,
     ZsupBegin, ZsupEnd, ZsupBreak
<1>7. ASSUME NEW b \in Boards, NEW m \in Runs, StreamOpened(b, m)
      PROVE  GoesOn(p, n)
  BY <1>7, Names DEF StreamOpened, GoesOn
<1>8. ASSUME NEW m \in Runs, TrigBegin(m) \/ TrigStop(m)
      PROVE  GoesOn(p, n)
  BY <1>3, <1>4, <1>8 DEF TrigBegin, TrigStop
<1>9. ASSUME NEW q \in Proc, NEW m \in Runs, SinkEnds(q, m) \/ Crash(q, m)
      PROVE  GoesOn(p, n)
  BY <1>9 DEF SinkEnds, Crash
<1>10. QED
  BY <1>1, <1>2, <1>5, <1>6, <1>7, <1>8, <1>9 DEF ProcNext, ProcWork, ProcFault

(* What the processes do of themselves, or when they are signalled, cannot *)
(* break StopInv.                                                          *)
LEMMA SameStop ==
  ASSUME TypeInv, StopInv, \A p \in Proc, n \in Runs : GoesOn(p, n),
         UNCHANGED <<cur, leaving, run, handle>>
  PROVE  /\ srv' = srv => LaunchedRuns' /\ Phases' /\ HandlesOfRun'
         /\ InRun => \A p \in Proc : Alive(p, run)' => Alive(p, run)
         /\ UNCHANGED srvVars => StopInv'
<1>1. \A p \in Proc, n \in Runs : Alive(p, n)' => Alive(p, n)
  BY DEF GoesOn, Alive
<1>2. InRun => run \in Runs
  BY DEF StopInv, LaunchedRuns
<1>3. srv' = srv => LaunchedRuns' /\ Phases' /\ HandlesOfRun'
  <2> SUFFICES ASSUME srv' = srv PROVE LaunchedRuns' /\ Phases' /\ HandlesOfRun'
    OBVIOUS
  <2>1. LaunchedRuns' /\ Phases'
    BY DEF StopInv, LaunchedRuns, Phases, InRun, GoesOn, Alive
  <2>2. HandlesOfRun'
    BY <1>1, <1>2 DEF StopInv, HandlesOfRun, InRun, Alive
  <2>3. QED
    BY <2>1, <2>2
<1>4. InRun => \A p \in Proc : Alive(p, run)' => Alive(p, run)
  BY <1>1, <1>2 DEF Alive
<1>5. UNCHANGED srvVars => StopInv'
  <2> SUFFICES ASSUME UNCHANGED srvVars PROVE StopInv'
    OBVIOUS
  <2>1. LaunchedRuns' /\ Phases' /\ HandlesOfRun'
    BY <1>3 DEF srvVars
  <2>2. CutOff'
    <3>1. cut \subseteq Proc
      BY RemoteAssumption DEF TypeInv, TypeOK, SrvTypeOK
    <3>2. QED
      BY <1>4, <3>1 DEF StopInv, CutOff, InRun, srvVars, Alive
  <2>3. Stopped'
    <3>1. srv \in AfterQuit => InRun
      BY DEF StopInv, Phases, InRun, AfterQuit, Stopping, Cleaning, Up
    <3>2. QED
      BY <1>4, <3>1 DEF StopInv, Stopped, srvVars, Alive
  <2>4. QED
    BY <2>1, <2>2, <2>3 DEF StopInv
<1>6. QED
  BY <1>3, <1>4, <1>5

LEMMA ClientStop ==
  ASSUME TypeInv, StopInv, ClientStep
  PROVE  StopInv'
<1>0. UNCHANGED pc
  BY OtherSteps DEF acqVars
<1> USE <1>0 DEF StopInv, LaunchedRuns, Phases, HandlesOfRun, CutOff, Stopped, InRun, BeforeStop,
      AfterQuit, Stopping, Cleaning, At, To, Alive
<1>1. CASE Accept \/ ClientCloses
  BY <1>1 DEF Accept, ClientCloses, Up
<1>2. CASE NewRun \/ NewRunError
  BY <1>2 DEF NewRun, NewRunError, Up
<1>3. CASE StartRun \/ StopRun \/ Terminate
  BY <1>3 DEF StartRun, StopRun, Terminate, Up
<1>4. CASE InitStart
  <2>1. run' = run + 1 /\ run' \in Runs /\ run \in Nat
    BY <1>4, MaxRunsAssumption DEF InitStart, TypeInv, TypeOK, SrvTypeOK, Runs
  <2>2. \A p \in Proc, n \in Runs : n > run' => pc'[p][n] = "none"
    BY <2>1 DEF Runs
  <2>3. \A p \in Proc : pc'[p][run'] = "none"
    BY <2>1
  <2>4. cut \subseteq Proc
    BY RemoteAssumption DEF TypeInv, TypeOK, SrvTypeOK
  <2>5. /\ srv = "dialog" /\ srv' = "launch" /\ cur = "idle"
        /\ UNCHANGED <<cur, cut, leaving>>
    BY <1>4 DEF InitStart
  <2>6. QED
    BY <2>1, <2>2, <2>3, <2>4, <2>5
<1>5. CASE Shutdown
  BY <1>5 DEF Shutdown, ExitPoint, Up
<1>6. QED
  BY <1>1, <1>2, <1>3, <1>4, <1>5 DEF ClientStep

LEMMA OperatorStop ==
  ASSUME TypeInv, StopInv, OperatorStep
  PROVE  StopInv'
<1>0. UNCHANGED pc
  BY OtherSteps DEF acqVars
<1> USE <1>0 DEF StopInv, LaunchedRuns, Phases, HandlesOfRun, CutOff, Stopped, InRun, BeforeStop,
      AfterQuit, Stopping, Cleaning, At, To, Alive
<1>1. CASE Sigint
  BY <1>1 DEF Sigint, ExitPoint, Up
<1>2. CASE Kill
  BY <1>2 DEF Kill, Up
<1>3. CASE Restart
  BY <1>3 DEF Restart, Down
<1>4. QED
  BY <1>1, <1>2, <1>3 DEF OperatorStep

LEMMA LaunchStop ==
  ASSUME TypeInv, StopInv, NEW p \in Proc, Launch(p) \/ LaunchFails(p)
  PROVE  StopInv'
<1>0. /\ pc \in [Proc -> [Runs -> PState]] /\ handle \in [Proc -> {0} \cup Runs]
      /\ run \in Runs /\ cut \subseteq Proc
  BY RemoteAssumption DEF TypeInv, TypeOK, SrvTypeOK, AcqTypeOK, LaunchesARun, Launch, LaunchFails
<1>1. /\ At("launch") /\ srv' \in {"waittrig", "launch"}
      /\ UNCHANGED <<cur, leaving, run, ok>>
  BY DEF Launch, LaunchFails, LaunchDone, To
<1>2. cur = "idle"
  BY <1>1 DEF StopInv, Phases, At
<1>3. CASE Launch(p)
  <2>1. \E s : s # "none" /\ Goto(p, run, s)
    BY <1>3 DEF Launch, Launched
  <2>2. \A q \in Proc, n \in Runs : q # p \/ n # run => pc'[q][n] = pc[q][n]
    BY <1>0, <2>1, GotoPoint
  <2>3. handle' = [handle EXCEPT ![p] = run] /\ cut' = cut \ {p}
    BY <1>3 DEF Launch
  <2>4. LaunchedRuns'
    BY <1>0, <1>1, <2>2 DEF LaunchedRuns, StopInv, Runs
  <2>5. HandlesOfRun'
    BY <1>0, <1>1, <2>2, <2>3 DEF HandlesOfRun, StopInv, InRun, Alive, At, Up
  <2>6. CutOff'
    BY <1>0, <1>1, <2>2, <2>3 DEF CutOff, StopInv, InRun, Alive, At, Up, AfterQuit,
       Stopping, Cleaning
  <2>7. Phases' /\ Stopped'
    BY <1>1, <1>2 DEF StopInv, Phases, BeforeStop, At, Stopped, AfterQuit, Stopping, Cleaning
  <2>8. QED
    BY <2>4, <2>5, <2>6, <2>7 DEF StopInv
<1>4. CASE LaunchFails(p)
  BY <1>0, <1>1, <1>2, <1>4 DEF LaunchFails, acqVars, StopInv, LaunchedRuns, Phases,
     HandlesOfRun, CutOff, Stopped, InRun, BeforeStop, AfterQuit, Stopping, Cleaning, At, Up, Alive
<1>5. QED
  BY <1>3, <1>4

(* One process less to stop.                                               *)
LEMMA StopOne ==
  ASSUME TypeInv, StopInv, NEW p \in Proc,
         StopExited(p) \/ StopInterrupt(p) \/ StopTerminate(p)
  PROVE  StopInv'
<1>0. /\ pc \in [Proc -> [Runs -> PState]] /\ handle \in [Proc -> {0} \cup Runs]
      /\ cut \subseteq Remote /\ Remote \subseteq Proc
      /\ ok \in BOOLEAN
  BY RemoteAssumption DEF TypeInv, TypeOK, SrvTypeOK, AcqTypeOK
<1>1. /\ srv \in Stopping /\ srv' \in {"stop", "stop2", "clean1"}
      /\ todo' \in {todo, todo \ {p}} /\ (srv' = "clean1" => todo' = {})
      /\ UNCHANGED <<cur, leaving, run, handle>>
  BY DEF StopExited, StopInterrupt, StopTerminate, StopTimeout, StopDone, Stopping, At, To
<1>2. /\ InRun /\ run \in Runs
      /\ \A q \in Proc : Alive(q, run) => handle[q] = run
  BY <1>1 DEF StopInv, LaunchedRuns, HandlesOfRun, Phases, InRun, AfterQuit, Stopping,
     Up
<1>3. \A q \in Proc, n \in Runs : GoesOn(q, n)
  <2>1. UNCHANGED pc \/ \E n \in Runs : Signalled(p, n)
    <3>1. CASE StopExited(p)
      BY <3>1 DEF StopExited, acqVars
    <3>2. CASE StopInterrupt(p)
      <4>1. KillTarget(p) \in {0} \cup Runs
        BY <3>2, <1>0 DEF StopInterrupt, KillTarget, TypeInv, TypeOK, AcqTypeOK, Acq
      <4>2. QED
        BY <3>2, <4>1 DEF StopInterrupt, acqVars
    <3>3. CASE StopTerminate(p)
      <4>1. handle[p] \in Runs
        BY <1>0, <3>3 DEF StopTerminate, StopTimeout
      <4>2. QED
        BY <3>3, <4>1 DEF StopTerminate, acqVars
    <3>4. QED
      BY <3>1, <3>2, <3>3
  <2>2. QED
    BY <1>0, <2>1, SignalGoesOn DEF GoesOn
<1>4. \A q \in Proc : Alive(q, run)' => Alive(q, run)
  BY <1>1, <1>2, <1>3, SameStop
<1>5. LaunchedRuns' /\ Phases'
  BY <1>1, <1>2, <1>3 DEF StopInv, LaunchedRuns, Phases, BeforeStop, InRun, AfterQuit, Stopping,
     Cleaning, GoesOn, Alive
<1>6. HandlesOfRun'
  BY <1>1, <1>2, <1>4 DEF HandlesOfRun
<1>7. CASE StopInterrupt(p)
  <2>1. srv' \in Stopping /\ UNCHANGED <<todo, cut, ok>>
    BY <1>7 DEF StopInterrupt, To, Stopping
  <2>2. CutOff' /\ Stopped'
    BY <1>0, <1>1, <1>2, <1>4, <2>1 DEF StopInv, CutOff, Stopped, AfterQuit
  <2>3. QED
    BY <1>5, <1>6, <2>2 DEF StopInv
<1>8. CASE StopExited(p)
  <2>1. /\ todo' = todo \ {p} /\ srv' \in {"stop", "clean1"}
        /\ UNCHANGED <<pc, cut, ok>> /\ Exited(p)
    BY <1>8 DEF StopExited, StopDone, acqVars, To
  <2>2. CutOff'
    BY <1>0, <1>1, <1>2, <1>4, <2>1 DEF StopInv, CutOff, AfterQuit, Stopping, Cleaning
  <2>3. \/ ~Alive(p, run)
        \/ p \in Remote /\ (~ok \/ leaving = "sigint")
    BY <1>0, <1>2, <2>1 DEF Exited, StopInv, CutOff, Alive
  <2>4. Stopped'
    <3> SUFFICES ASSUME NEW q \in Proc, Alive(q, run)'
                 PROVE  \/ srv' \in Stopping /\ q \in todo'
                        \/ q \in Remote \cup Zsups /\ (~ok' \/ leaving' = "sigint")
      BY DEF Stopped
    <3>1. Alive(q, run)
      BY <1>4
    <3>2. CASE q = p
      BY <1>1, <2>1, <2>3, <3>1, <3>2
    <3>3. CASE q # p
      <4>1. \/ q \in todo
            \/ q \in Remote \cup Zsups /\ (~ok \/ leaving = "sigint")
        BY <1>1, <3>1 DEF StopInv, Stopped, AfterQuit
      <4>2. q \in todo => q \in todo' /\ srv' = "stop"
        BY <1>1, <2>1, <3>3
      <4>3. QED
        BY <1>1, <2>1, <4>1, <4>2 DEF Stopping
    <3>4. QED
      BY <3>2, <3>3
  <2>5. QED
    BY <1>5, <1>6, <2>2, <2>4 DEF StopInv
<1>9. CASE StopTerminate(p)
  <2>1. todo' = todo \ {p} /\ srv' \in {"stop", "clean1"} /\ ~ok'
    BY <1>9 DEF StopTerminate, StopTimeout, StopDone, To
  <2>2. CutOff'
    BY <2>1 DEF CutOff, AfterQuit, Stopping, Cleaning
  <2>3. p \in Remote \cup Zsups \/ ~Alive(p, run)'
    <3> SUFFICES ASSUME p \notin Remote \cup Zsups PROVE ~Alive(p, run)'
      OBVIOUS
    <3>1. handle[p] \in Runs /\ Goto(p, handle[p], "dead")
      BY <1>0, <1>9 DEF StopTerminate, StopTimeout, Signalled
    <3>2. CASE handle[p] = run
      <4>1. pc'[p][run] = "dead"
        BY <1>0, <1>2, <3>1, <3>2, GotoPoint
      <4>2. QED
        BY <1>1, <4>1 DEF Alive
    <3>3. CASE handle[p] # run
      BY <1>2, <1>4, <3>3
    <3>4. QED
      BY <3>2, <3>3
  <2>4. Stopped'
    <3> SUFFICES ASSUME NEW q \in Proc, Alive(q, run)'
                 PROVE  \/ srv' \in Stopping /\ q \in todo'
                        \/ q \in Remote \cup Zsups /\ (~ok' \/ leaving' = "sigint")
      BY DEF Stopped
    <3>1. Alive(q, run)
      BY <1>4
    <3>2. CASE q = p
      BY <2>1, <2>3, <3>2
    <3>3. CASE q # p
      <4>1. q \in todo \/ q \in Remote \cup Zsups
        BY <1>1, <3>1 DEF StopInv, Stopped, AfterQuit
      <4>2. q \in todo => q \in todo' /\ srv' = "stop"
        BY <1>1, <2>1, <3>3
      <4>3. QED
        BY <2>1, <4>1, <4>2 DEF Stopping
    <3>4. QED
      BY <3>2, <3>3
  <2>5. QED
    BY <1>5, <1>6, <2>2, <2>4 DEF StopInv
<1>10. QED
  BY <1>7, <1>8, <1>9

LEMMA ServerStop ==
  ASSUME TypeInv, StopInv, ServerStep
  PROVE  StopInv'
<1> USE DEF At, To
<1> DEFINE SameRun == UNCHANGED <<pc, run, handle, cut, leaving>>
<1> DEFINE Parts == LaunchedRuns' /\ Phases' /\ HandlesOfRun' /\ CutOff' /\ Stopped'
<1>1. CASE ClientClosed \/ ConnectionError \/ \E p \in Proc : StopNothing(p)
  <2>1. SameRun /\ UNCHANGED cur /\ srv' \in {"accept", "crashed"}
    BY <1>1, OtherSteps DEF ClientClosed, ConnectionError, StopNothing, acqVars
  <2>2. srv' = "accept" => srv \in Reading
    BY <1>1 DEF ClientClosed, ConnectionError, StopNothing
  <2>3. QED
    BY <2>1, <2>2 DEF StopInv, LaunchedRuns, Phases, HandlesOfRun, CutOff, Stopped, InRun, BeforeStop,
       AfterQuit, Stopping, Cleaning, Alive, Reading, Up
<1>2. CASE TrigReady \/ (\E b \in Boards : CheckBoard(b)) \/ InitReady
  <2>1. /\ SameRun /\ srv \in {"waittrig", "waitboards"}
        /\ \/ UNCHANGED cur /\ srv' = "waitboards"
           \/ cur' = "initialized" /\ srv' = "cmd"
    BY <1>2, OtherSteps DEF TrigReady, CheckBoard, InitReady, acqVars
  <2>2. QED
    BY <2>1 DEF StopInv, LaunchedRuns, Phases, HandlesOfRun, CutOff, Stopped, InRun, BeforeStop,
       AfterQuit, Stopping, Cleaning, Alive, Up
<1>3. CASE TrigNotReady \/ BoardsNotReady \/ LeaveInitfail \/ TermAnswer \/ FinalCleanup
  <2>1. /\ SameRun
        /\ \/ srv' = "exited" /\ UNCHANGED cur
           \/ cur' \in {"idle", "initfail"} /\ srv' = "final"
           \/ /\ cur' \in {"idle", "initfail"} /\ srv' = "cmd"
              /\ srv \in BeforeStop \/ leaving = "no"
    BY <1>3, OtherSteps DEF TrigNotReady, BoardsNotReady, InitFailed, LeaveInitfail,
       TermAnswer, FinalCleanup, acqVars, BeforeStop
  <2>2. QED
    BY <2>1 DEF StopInv, LaunchedRuns, Phases, HandlesOfRun, CutOff, Stopped, InRun, BeforeStop,
       AfterQuit, Stopping, Cleaning, Alive, Up
<1>4. CASE StartDaqs \/ EnableTriggers
  <2>1. /\ SameRun /\ srv \in {"startdaq", "starttrig"}
        /\ \/ UNCHANGED cur /\ srv' = "starttrig"
           \/ cur' = "running" /\ srv' = "cmd"
    BY <1>4 DEF StartDaqs, EnableTriggers
  <2>2. QED
    BY <2>1 DEF StopInv, LaunchedRuns, Phases, HandlesOfRun, CutOff, Stopped, InRun, BeforeStop,
       AfterQuit, Stopping, Cleaning, Alive, Up
<1>5. CASE TermStart \/ TermQuit
  <2>1. /\ SameRun /\ UNCHANGED cur
        /\ \/ srv = "term" /\ srv' = "quit"
           \/ srv = "quit" /\ srv' = "stop" /\ todo' = Proc
    BY <1>5 DEF TermStart, TermQuit
  <2>2. QED
    BY <2>1 DEF StopInv, LaunchedRuns, Phases, HandlesOfRun, CutOff, Stopped, InRun, BeforeStop,
       AfterQuit, Stopping, Cleaning, Alive, Up
<1>6. CASE CleanUp
  <2>1. /\ SameRun /\ UNCHANGED <<cur, todo, ok>>
        /\ srv \in Cleaning /\ srv' \in Cleaning \cup {"answer"}
    BY <1>6 DEF CleanUp, CleanRunFiles, CleanTrigFiles, CleanBoardStatus, CleanTrigStatus,
       CleanStatus, Cleaning
  <2>2. QED
    BY <2>1 DEF StopInv, LaunchedRuns, Phases, HandlesOfRun, CutOff, Stopped, InRun, BeforeStop,
       AfterQuit, Stopping, Cleaning, Alive, Up
<1>7. QED
  BY <1>1, <1>2, <1>3, <1>4, <1>5, <1>6, LaunchStop, StopOne DEF ServerStep

LEMMA StopInductive == Spec => []StopInv
<1>1. Init => StopInv
  BY Names DEF Init, AcqInit, SrvInit, StopInv, LaunchedRuns, Phases, HandlesOfRun, CutOff,
     Stopped, InRun, AfterQuit, Stopping, Cleaning
<1>2. TypeInv /\ StopInv /\ [Next]_vars => StopInv'
  <2> SUFFICES ASSUME TypeInv, StopInv, [Next]_vars PROVE StopInv'
    OBVIOUS
  <2>1. CASE ProcStep
    BY <2>1, ProcGoesOn, SameStop DEF ProcStep, ProcNext, TypeInv, TypeOK, srvVars
  <2>2. CASE UNCHANGED vars
    BY <2>2, SameStop DEF vars, srvVars, acqVars, GoesOn
  <2>3. QED
    BY <2>1, <2>2, ClientStop, OperatorStop, ServerStop DEF Next
<1>3. QED
  BY <1>1, <1>2, TypeInductive, PTL DEF Spec

(***************************************************************************)
(* However processes hang, crash or are left over, and however often the   *)
(* server was interrupted or started again, terminate_run ends with        *)
(* nothing of the run alive on the server's node but ZSUPs.                *)
(***************************************************************************)
THEOREM NothingLeft == Spec => []NothingLeftHere
<1>1. StopInv => NothingLeftHere
  BY DEF StopInv, Stopped, NothingLeftHere, AfterQuit, Stopping, Cleaning
<1>2. QED
  BY <1>1, StopInductive, PTL

(***************************************************************************)
(* terminate_ok means what it says, on every node, as long as terminate_run *)
(* was not broken off by a SIGINT.                                         *)
(***************************************************************************)
THEOREM TerminateOkIsTrue == Spec => []TerminateOkMeansGone
<1>1. StopInv => TerminateOkMeansGone
  BY DEF StopInv, Stopped, TerminateOkMeansGone, AfterQuit, Stopping, Cleaning, At
<1>2. QED
  BY <1>1, StopInductive, PTL

-----------------------------------------------------------------------------
(***************************************************************************)
(* What "initialized" means.  In a run launched when nothing was left of   *)
(* earlier ones, no other instance is alive, so that an InitOK file can    *)
(* only be the work of this run; with what the server has seen (StartInv)  *)
(* every process has made its own.                                         *)
(***************************************************************************)
Preparing ==
  srv \in {"launch", "waittrig", "waitboards"} \/ (cur = "initialized" /\ srv \in BeforeStop)

FreshRun ==
  fresh /\ Preparing =>
    /\ \A p \in Acq : initok[p] \in {0, run}
    /\ \A p \in Proc, n \in Runs : Alive(p, n) => n = run

(* An InitOK file is made by an instance that is alive.                    *)
LEMMA ProcMakesInitok ==
  ASSUME AcqTypeOK, ProcNext, NEW p \in Acq
  PROVE  initok'[p] = initok[p] \/ \E n \in Runs : Alive(p, n) /\ initok'[p] = n
<1> DEFINE Made == initok'[p] = initok[p] \/ \E n \in Runs : Alive(p, n) /\ initok'[p] = n
<1>1. initok' = initok => Made
  OBVIOUS
<1>2. ASSUME NEW q \in Acq, NEW n \in Runs, Ready(q, n) PROVE Made
  BY <1>2 DEF Ready, AcqTypeOK, Alive
<1>3. ASSUME NEW q \in Acq, NEW n \in Runs,
             \/ LockRefused(q, n) \/ LockFree(q, n) \/ LockWritten(q, n)
             \/ InitFails(q, n) \/ InitDone(q, n) \/ OutOpened(q, n)
             \/ OpenFails(q, n) \/ StaleInitok(q, n) \/ RunEnds(q, n)
      PROVE  Made
  BY <1>3 DEF LockRefused, LockFree, LockWritten, InitFails, InitDone,
     OutOpened, OpenFails, StaleInitok, RunEnds, Finish, Crash, Exit, statusFiles
<1>4. ASSUME NEW b \in Boards, NEW n \in Runs,
             \/ DaqQuitAtInit(b, n) \/ DaqInitDone(b, n) \/ StreamOpened(b, n)
             \/ DaqBegin(b, n) \/ DaqAbort(b, n) \/ DaqQuit(b, n)
             \/ ZsupBegin(b, n) \/ ZsupEnd(b, n) \/ ZsupBreak(b, n)
      PROVE  Made
  BY <1>4 DEF DaqQuitAtInit, DaqInitDone, StreamOpened, DaqBegin, DaqAbort,
     DaqQuit, ZsupBegin, ZsupEnd, ZsupBreak, Finish, Crash, Exit, statusFiles
<1>5. ASSUME NEW n \in Runs, TrigBegin(n) \/ TrigStop(n) PROVE Made
  BY <1>5 DEF TrigBegin, TrigStop, Finish, Crash, Exit, statusFiles
<1>6. ASSUME NEW q \in Proc, NEW n \in Runs, SinkEnds(q, n) \/ Crash(q, n)
      PROVE  Made
  BY <1>6 DEF SinkEnds, Crash, statusFiles
<1>7. Sinks \subseteq Proc
  BY DEF Proc
<1>8. QED
  BY <1>2, <1>3, <1>4, <1>5, <1>6, <1>7 DEF ProcNext, ProcWork, ProcFault

LEMMA FreshStep == TypeInv /\ FreshRun /\ [Next]_vars => FreshRun'
<1> SUFFICES ASSUME TypeInv, FreshRun, [Next]_vars PROVE FreshRun'
  OBVIOUS
<1> USE DEF FreshRun, Preparing, At, To, BeforeStop
<1>0. /\ Acq \subseteq Proc
      /\ pc \in [Proc -> [Runs -> PState]]
  BY Names DEF TypeInv, TypeOK, AcqTypeOK
<1>1. CASE ProcStep
  <2>1. AcqTypeOK /\ ProcNext /\ UNCHANGED srvVars
    BY <1>1 DEF ProcStep, ProcNext, TypeInv, TypeOK
  <2>2. \A p \in Proc, n \in Runs : Alive(p, n)' => Alive(p, n)
    BY <2>1, ProcGoesOn DEF GoesOn, Alive
  <2>3. \A p \in Acq :
          initok'[p] = initok[p] \/ \E n \in Runs : Alive(p, n) /\ initok'[p] = n
    BY <2>1, ProcMakesInitok
  <2>4. UNCHANGED <<srv, cur, fresh, run>>
    BY <2>1 DEF srvVars
  <2>5. QED
    BY <1>0, <2>2, <2>3, <2>4
<1>2. CASE UNCHANGED vars
  BY <1>2 DEF vars, acqVars, srvVars, statusFiles, Alive
<1>3. CASE ClientStep
  <2>1. UNCHANGED acqVars
    BY <1>3, OtherSteps
  <2>2. CASE \/ Accept \/ ClientCloses \/ NewRun \/ NewRunError
             \/ StartRun \/ StopRun \/ Terminate \/ Shutdown
    BY <2>1, <2>2 DEF Accept, ClientCloses, NewRun, NewRunError, StartRun, StopRun,
       Terminate, Shutdown, ExitPoint, acqVars, statusFiles, Alive
  <2>3. CASE InitStart
    BY <2>1, <2>3 DEF InitStart, acqVars, statusFiles, Alive
  <2>4. QED
    BY <1>3, <2>2, <2>3 DEF ClientStep
<1>4. CASE OperatorStep
  <2>1. ~Preparing'
    BY <1>4 DEF OperatorStep, Sigint, Kill, Restart, ExitPoint
  <2>2. QED
    BY <2>1
<1>5. CASE ServerStep
  <2>1. CASE \/ ClientClosed \/ ConnectionError \/ TrigReady \/ TrigNotReady
             \/ InitReady \/ BoardsNotReady \/ LeaveInitfail \/ TermAnswer
             \/ FinalCleanup
    <3>1. /\ UNCHANGED acqVars /\ UNCHANGED <<fresh, run>>
          /\ Preparing' => Preparing
      BY <2>1, OtherSteps DEF ClientClosed, ConnectionError, TrigReady, TrigNotReady,
         InitFailed, InitReady, BoardsNotReady, LeaveInitfail, TermAnswer, FinalCleanup,
         Reading
    <3>2. QED
      BY <3>1 DEF acqVars, statusFiles, Alive
  <2>2. ASSUME NEW b \in Boards, CheckBoard(b) PROVE FreshRun'
    BY <2>2 DEF CheckBoard, acqVars, statusFiles, Alive
  <2>3. ASSUME NEW p \in Proc, Launch(p) PROVE FreshRun'
    <3>1. /\ At("launch") /\ UNCHANGED <<fresh, run, initok>> /\ run \in Runs
          /\ \E s : Goto(p, run, s)
      BY <2>3 DEF Launch, Launched, statusFiles, TypeInv, LaunchesARun
    <3>2. \A q \in Proc, n \in Runs : Alive(q, n)' => Alive(q, n) \/ n = run
      BY <1>0, <3>1, GotoPoint DEF Alive
    <3>3. QED
      BY <3>1, <3>2
  <2>4. ASSUME NEW p \in Proc, LaunchFails(p) PROVE FreshRun'
    BY <2>4 DEF LaunchFails, acqVars, statusFiles, Alive
  <2>5. CASE StartDaqs \/ EnableTriggers \/ TermStart \/ TermQuit
    <3>1. /\ UNCHANGED <<pc, initok, fresh, run>>
          /\ Preparing' => Preparing
      BY <2>5 DEF StartDaqs, EnableTriggers, TermStart, TermQuit, statusFiles
    <3>2. QED
      BY <3>1 DEF Alive
  <2>6. ASSUME NEW p \in Proc,
               \/ StopNothing(p) \/ StopExited(p)
               \/ StopInterrupt(p) \/ StopTerminate(p)
        PROVE  FreshRun'
    <3>1. srv' \in {"stop", "stop2", "clean1", "crashed"}
      BY <2>6 DEF StopNothing, StopExited, StopInterrupt, StopTerminate,
         StopTimeout, StopDone
    <3>2. QED
      BY <3>1
  <2>7. CASE CleanUp
    BY <2>7 DEF CleanUp, CleanRunFiles, CleanTrigFiles, CleanBoardStatus, CleanTrigStatus
  <2>8. QED
    BY <1>5, <2>1, <2>2, <2>3, <2>4, <2>5, <2>6, <2>7 DEF ServerStep
<1>6. QED
  BY <1>1, <1>2, <1>3, <1>4, <1>5 DEF Next

(***************************************************************************)
(* When the server is initialized by a run that found nothing left of      *)
(* earlier ones, every process of that run got ready, whatever faults      *)
(* came in between.                                                        *)
(***************************************************************************)
THEOREM InitializedMeansReady == Spec => []InitializedIsTrue
<1>1. Spec => []InitokIsEarned
  BY ImplementsAcqSpec, InitokEarned, PTL
<1>2. Init => FreshRun
  BY DEF Init, SrvInit, FreshRun, Preparing
<1>3. Spec => []FreshRun
  BY <1>2, FreshStep, TypeInductive, PTL DEF Spec
<1>4. TypeInv /\ StartInv /\ FreshRun /\ InitokIsEarned => InitializedIsTrue
  <2> SUFFICES ASSUME TypeInv, StartInv, FreshRun, InitokIsEarned,
                      cur = "initialized", At("cmd"), fresh,
                      NEW p \in Acq
               PROVE  initok[p] = run /\ pc[p][run] \in {"wait", "run", "dead"}
    BY DEF InitializedIsTrue
  <2>1. initok[p] \in {0, run} /\ initok[p] # 0
    BY DEF FreshRun, Preparing, StartInv, InitializedIsPrepared, Prepared, BeforeStop, At
  <2>2. QED
    BY <2>1 DEF InitokIsEarned
<1>5. QED
  BY <1>1, <1>3, <1>4, TypeInductive, StartInductive, PTL
=============================================================================

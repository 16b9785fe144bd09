------------------------- MODULE AcqProcess_proofs -------------------------
(***************************************************************************)
(* Proofs about AcqProcess, for any boards, Level1 writers and number of   *)
(* runs, and for any environment.                                          *)
(***************************************************************************)
EXTENDS AcqProcess, TLAPS

(* The process names, told apart. *)
LEMMA Names ==
  /\ \A b \in Boards : /\ Daq(b) \in Acq /\ Zsup(b) \in Acq /\ Daq(b) # Zsup(b)
                       /\ Daq(b) \notin Inputs /\ Zsup(b) \in Zsups
                       /\ Daq(b) # Trig /\ Zsup(b) # Trig
  /\ Trig \in Acq /\ Merger \in Proc
  /\ Zsups \subseteq Inputs /\ Trig \in Inputs /\ Inputs \subseteq Acq
  /\ Acq \subseteq Proc /\ Sinks \subseteq Proc /\ Acq \cap Sinks = {}
  BY DEF Proc, Acq, Sinks, Inputs, Daqs, Zsups, Trig, Merger, Daq, Zsup

LEMMA TypeInit == AcqInit => AcqTypeOK
  BY Names DEF AcqInit, AcqTypeOK, PState

LEMMA GotoType ==
  ASSUME pc \in [Proc -> [Runs -> PState]],
         NEW p \in Proc, NEW n \in Runs, NEW s \in PState, Goto(p, n, s)
  PROVE  pc' \in [Proc -> [Runs -> PState]]
  BY DEF Goto

LEMMA ExitType ==
  ASSUME AcqTypeOK, NEW p \in Acq, NEW n \in Runs, NEW f, Exit(p, n, f)
  PROVE  AcqTypeOK'
<1>1. pc' \in [Proc -> [Runs -> PState]]
  BY GotoType, Names DEF AcqTypeOK, Exit, PState
<1>2. QED
  BY <1>1 DEF AcqTypeOK, Exit, runFiles

LEMMA FinishType ==
  ASSUME AcqTypeOK, NEW p \in Acq, NEW n \in Runs, Finish(p, n)
  PROVE  AcqTypeOK'
<1>1. CASE Exit(p, n, FALSE)
  BY <1>1, ExitType
<1>2. CASE Crash(p, n)
  BY <1>2, GotoType, Names DEF Crash, AcqTypeOK, PState, statusFiles, runFiles
<1>3. QED
  BY <1>1, <1>2 DEF Finish

LEMMA TypeStep == AcqTypeOK /\ [AcqNext]_acqVars => AcqTypeOK'
<1> SUFFICES ASSUME AcqTypeOK, [AcqNext]_acqVars
             PROVE  AcqTypeOK'
  OBVIOUS
<1>0. /\ Acq \subseteq Proc /\ Sinks \subseteq Proc /\ Trig \in Acq
      /\ Inputs \subseteq Acq /\ PState = Holding \cup {"none", "start", "locking", "dead"}
      /\ \A b \in Boards : Daq(b) \in Acq /\ Zsup(b) \in Acq
  BY Names DEF PState
<1> USE <1>0, GotoType, ExitType, FinishType DEF AcqTypeOK, runFiles, statusFiles
<1>1. ASSUME NEW p \in Acq, NEW n \in Runs,
             \/ LockRefused(p, n) \/ LockFree(p, n) \/ LockWritten(p, n)
             \/ InitFails(p, n) \/ InitDone(p, n) \/ OutOpened(p, n)
             \/ OpenFails(p, n) \/ StaleInitok(p, n) \/ Ready(p, n)
             \/ RunEnds(p, n)
      PROVE  AcqTypeOK'
  <2>1. ASSUME LockRefused(p, n) PROVE AcqTypeOK'
    BY <2>1 DEF LockRefused
  <2>2. ASSUME LockFree(p, n) PROVE AcqTypeOK'
    BY <2>2 DEF LockFree
  <2>3. ASSUME LockWritten(p, n) PROVE AcqTypeOK'
    BY <2>3 DEF LockWritten, Holding
  <2>4. ASSUME InitDone(p, n) PROVE AcqTypeOK'
    BY <2>4 DEF InitDone, Holding
  <2>5. ASSUME OutOpened(p, n) PROVE AcqTypeOK'
    <3>1. \E s \in PState : Goto(p, n, s)
      BY ONLY <1>0, <2>5 DEF OutOpened, Holding
    <3>2. pc' \in [Proc -> [Runs -> PState]]
      BY <3>1
    <3>3. joined' \in SUBSET (Inputs \X Runs)
      BY <2>5 DEF OutOpened
    <3>4. QED
      BY <2>5, <3>2, <3>3 DEF OutOpened
  <2>6. ASSUME Ready(p, n) PROVE AcqTypeOK'
    BY <2>6 DEF Ready, Holding
  <2>7. ASSUME \/ InitFails(p, n) \/ OpenFails(p, n) \/ StaleInitok(p, n)
               \/ RunEnds(p, n)
        PROVE  AcqTypeOK'
    BY <2>7 DEF InitFails, OpenFails, StaleInitok, RunEnds
  <2>8. QED
    BY <1>1, <2>1, <2>2, <2>3, <2>4, <2>5, <2>6, <2>7
<1>2. ASSUME NEW b \in Boards, NEW n \in Runs,
             \/ DaqQuitAtInit(b, n) \/ DaqInitDone(b, n) \/ StreamOpened(b, n)
             \/ DaqBegin(b, n) \/ DaqAbort(b, n) \/ DaqQuit(b, n)
             \/ ZsupBegin(b, n) \/ ZsupEnd(b, n) \/ ZsupBreak(b, n)
      PROVE  AcqTypeOK'
  <2>1. ASSUME DaqInitDone(b, n) \/ DaqBegin(b, n) \/ ZsupBegin(b, n)
        PROVE  AcqTypeOK'
    BY <2>1 DEF DaqInitDone, DaqBegin, ZsupBegin, Holding
  <2>2. ASSUME \/ DaqQuitAtInit(b, n) \/ DaqAbort(b, n) \/ DaqQuit(b, n)
               \/ ZsupEnd(b, n) \/ ZsupBreak(b, n)
        PROVE  AcqTypeOK'
    BY <2>2 DEF DaqQuitAtInit, DaqAbort, DaqQuit, ZsupEnd, ZsupBreak
  <2>3. ASSUME StreamOpened(b, n) PROVE AcqTypeOK'
    BY <2>3 DEF StreamOpened, Holding
  <2>4. QED
    BY <1>2, <2>1, <2>2, <2>3
<1>3. ASSUME NEW n \in Runs, TrigBegin(n) \/ TrigStop(n)
      PROVE  AcqTypeOK'
  BY <1>3 DEF TrigBegin, TrigStop, Holding
<1>4. ASSUME NEW p \in Proc, NEW n \in Runs, SinkEnds(p, n) \/ Crash(p, n)
      PROVE  AcqTypeOK'
  BY <1>4 DEF SinkEnds, Crash
<1>5. ASSUME EnvFiles PROVE AcqTypeOK'
  BY <1>5 DEF EnvFiles
<1>6. ASSUME NEW p \in Proc, NEW n \in Runs,
             \/ Launched(p, n) /\ UNCHANGED brk
             \/ Signalled(p, n),
             UNCHANGED <<joined, raced, statusFiles, runFiles>>
      PROVE  AcqTypeOK'
  <2>1. CASE brk' = brk /\ \E s \in PState : Goto(p, n, s)
    BY <1>6, <2>1
  <2>2. CASE pc' = pc /\ p \in Zsups /\ brk' = brk \cup {<<p, n>>}
    BY <1>6, <2>2
  <2>3. CASE Launched(p, n) /\ brk' = brk
    <3>1. \E s \in PState : Goto(p, n, s)
      BY ONLY <1>0, <2>3 DEF Launched, Holding
    <3>2. QED
      BY <2>1, <2>3, <3>1
  <2>4. QED
    BY <1>6, <2>1, <2>2, <2>3 DEF Signalled
<1>7. CASE UNCHANGED acqVars
  BY <1>7 DEF acqVars
<1>8. QED
  BY <1>1, <1>2, <1>3, <1>4, <1>5, <1>6, <1>7
     DEF AcqNext, ProcNext, ProcWork, ProcFault, EnvNext

(***************************************************************************)
(* Every variable keeps its type: in particular BreakSignal is only ever   *)
(* set in ZSUP processes, and only inputs are opened by the merger.        *)
(***************************************************************************)
THEOREM TypeCorrect == AcqSpec => []AcqTypeOK
  BY TypeInit, TypeStep, PTL DEF AcqSpec

-----------------------------------------------------------------------------
(***************************************************************************)
(* The lock.  LockNamesHolder is not inductive: an instance between        *)
(* access() and fopen() will write the file whoever holds it.  So of a     *)
(* process that did not race at most one instance is there (OneLocking),   *)
(* and then none is past create_lock (LockingAlone).                       *)
(***************************************************************************)
OneLocking ==
  \A p \in Acq \ raced : \A m, n \in Runs :
    pc[p][m] = "locking" /\ pc[p][n] = "locking" => m = n

LockingAlone ==
  \A p \in Acq \ raced : \A m, n \in Runs :
    pc[p][m] = "locking" => pc[p][n] \notin Holding

LockParts == OneLocking /\ LockingAlone /\ LockNamesHolder

LockInv == AcqTypeOK /\ LockParts

(* What one step does to the point of one instance. *)
LEMMA GotoPoint ==
  ASSUME pc \in [Proc -> [Runs -> PState]],
         NEW p \in Proc, NEW n \in Runs, NEW s, Goto(p, n, s),
         NEW q \in Proc, NEW m \in Runs
  PROVE  pc'[q][m] = IF q = p /\ m = n THEN s ELSE pc[q][m]
  BY DEF Goto

(* A step that takes no instance into create_lock or past it. *)
LEMMA SameLock ==
  ASSUME LockInv, lock' = lock, raced' = raced,
         \A q \in Acq, m \in Runs :
           \/ pc'[q][m] = pc[q][m]
           \/ pc'[q][m] # "locking" /\ (pc'[q][m] \in Holding => pc[q][m] \in Holding)
  PROVE  LockParts'
<1>1. \A q \in Acq, m \in Runs :
        /\ pc'[q][m] = "locking" => pc[q][m] = "locking"
        /\ pc'[q][m] \in Holding => pc[q][m] \in Holding
  BY DEF Holding
<1>2. OneLocking'
  BY <1>1 DEF LockInv, LockParts, OneLocking
<1>3. LockingAlone'
  BY <1>1 DEF LockInv, LockParts, LockingAlone
<1>4. LockNamesHolder'
  BY <1>1 DEF LockInv, LockParts, LockNamesHolder
<1>5. QED
  BY <1>2, <1>3, <1>4 DEF LockParts

(* An instance that holds the lock may leave: the file was its own. *)
LEMMA ExitLock ==
  ASSUME LockInv, NEW p \in Acq, NEW n \in Runs, NEW f,
         Exit(p, n, f), pc[p][n] \in Holding
  PROVE  LockParts'
<1>1. ASSUME NEW q \in Acq, NEW m \in Runs
      PROVE  pc'[q][m] = IF q = p /\ m = n THEN "dead" ELSE pc[q][m]
  BY GotoPoint, Names DEF LockInv, AcqTypeOK, Exit
<1>2. raced' = raced /\ lock' = [q \in Acq |-> IF q = p THEN 0 ELSE lock[q]]
  BY DEF LockInv, AcqTypeOK, Exit
<1>3. p \notin raced => \A m \in Runs : pc[p][m] \in Holding => m = n
  BY DEF LockInv, LockParts, LockNamesHolder
<1>4. OneLocking'
  BY <1>1, <1>2 DEF LockInv, LockParts, OneLocking
<1>5. LockingAlone'
  BY <1>1, <1>2 DEF LockInv, LockParts, LockingAlone, Holding
<1>6. LockNamesHolder'
  BY <1>1, <1>2, <1>3 DEF LockInv, LockParts, LockNamesHolder, Holding
<1>7. QED
  BY <1>4, <1>5, <1>6 DEF LockParts

LEMMA FinishLock ==
  ASSUME LockInv, NEW p \in Acq, NEW n \in Runs, Finish(p, n), pc[p][n] \in Holding
  PROVE  LockParts'
<1>1. CASE Exit(p, n, FALSE)
  BY <1>1, ExitLock
<1>2. CASE Crash(p, n)
  <2>1. \A q \in Acq, m \in Runs :
          pc'[q][m] = IF q = p /\ m = n THEN "dead" ELSE pc[q][m]
    BY <1>2, GotoPoint, Names DEF LockInv, AcqTypeOK, Crash
  <2>2. QED
    BY <1>2, <2>1, SameLock DEF Crash, statusFiles, Holding
<1>3. QED
  BY <1>1, <1>2 DEF Finish

(* access(): who sees no file has no holder to fear, or the race is noted. *)
LEMMA LockFreeStep ==
  ASSUME LockInv, NEW p \in Acq, NEW n \in Runs, LockFree(p, n)
  PROVE  LockParts'
<1>1. \A q \in Acq, m \in Runs :
        pc'[q][m] = IF q = p /\ m = n THEN "locking" ELSE pc[q][m]
  BY GotoPoint, Names DEF LockInv, AcqTypeOK, LockFree
<1>2. lock' = lock /\ lock[p] = 0
  BY DEF LockFree, statusFiles
<1>3. \A q \in Acq \ raced' : q # p => q \in Acq \ raced
  BY DEF LockFree
<1>4. ASSUME p \notin raced'
      PROVE  \A m \in Runs : pc[p][m] # "locking" /\ pc[p][m] \notin Holding
  <2>1. ~ \E m \in Runs : pc[p][m] = "locking"
    BY <1>4 DEF LockFree
  <2>2. CASE \E m \in Runs : pc[p][m] \in Holding
    <3>1. p \notin raced
      BY <1>4, <2>1, <2>2 DEF LockFree
    <3>2. QED
      BY <1>2, <2>2, <3>1 DEF LockInv, LockParts, LockNamesHolder, Runs
  <2>3. QED
    BY <2>1, <2>2
<1>5. OneLocking'
  BY <1>1, <1>3, <1>4 DEF LockInv, LockParts, OneLocking
<1>6. LockingAlone'
  BY <1>1, <1>3, <1>4 DEF LockInv, LockParts, LockingAlone, Holding
<1>7. LockNamesHolder'
  BY <1>1, <1>2, <1>3, <1>4 DEF LockInv, LockParts, LockNamesHolder, Holding
<1>8. QED
  BY <1>5, <1>6, <1>7 DEF LockParts

(* fopen(): of a process that did not race nobody else is near the lock. *)
LEMMA LockWrittenStep ==
  ASSUME LockInv, NEW p \in Acq, NEW n \in Runs, LockWritten(p, n)
  PROVE  LockParts'
<1>1. \A q \in Acq, m \in Runs :
        pc'[q][m] = IF q = p /\ m = n THEN "init" ELSE pc[q][m]
  BY GotoPoint, Names DEF LockInv, AcqTypeOK, LockWritten
<1>2. /\ lock' = [q \in Acq |-> IF q = p THEN n ELSE lock[q]]
      /\ raced' = raced
      /\ pc[p][n] = "locking"
  BY DEF LockInv, AcqTypeOK, LockWritten
<1>3. p \notin raced => \A m \in Runs : /\ pc[p][m] = "locking" => m = n
                                        /\ pc[p][m] \notin Holding
  BY <1>2 DEF LockInv, LockParts, OneLocking, LockingAlone
<1>4. OneLocking'
  BY <1>1, <1>2 DEF LockInv, LockParts, OneLocking
<1>5. LockingAlone'
  BY <1>1, <1>2, <1>3 DEF LockInv, LockParts, LockingAlone
<1>6. LockNamesHolder'
  BY <1>1, <1>2, <1>3 DEF LockInv, LockParts, LockNamesHolder
<1>7. QED
  BY <1>4, <1>5, <1>6 DEF LockParts

LEMMA LockStep ==
  ASSUME LockInv, AcqNext
  PROVE  LockParts'
<1>0. /\ pc \in [Proc -> [Runs -> PState]]
      /\ Acq \subseteq Proc /\ Sinks \subseteq Proc
      /\ Trig \in Acq /\ Inputs \subseteq Acq
      /\ \A b \in Boards : Daq(b) \in Acq /\ Zsup(b) \in Acq
  BY Names DEF LockInv, AcqTypeOK
<1> DEFINE Done == LockParts'
<1>1. ASSUME NEW p \in Acq, NEW n \in Runs, LockFree(p, n) \/ LockWritten(p, n)
      PROVE  Done
  BY <1>1, LockFreeStep, LockWrittenStep
<1>2. ASSUME NEW p \in Acq, NEW n \in Runs,
             \/ InitFails(p, n) \/ OpenFails(p, n) \/ StaleInitok(p, n)
             \/ RunEnds(p, n)
      PROVE  Done
  BY <1>2, ExitLock, FinishLock DEF InitFails, OpenFails, StaleInitok, RunEnds, Holding
<1>3. ASSUME NEW b \in Boards, NEW n \in Runs,
             \/ DaqQuitAtInit(b, n) \/ DaqAbort(b, n) \/ DaqQuit(b, n)
             \/ ZsupEnd(b, n) \/ ZsupBreak(b, n)
      PROVE  Done
  BY <1>0, <1>3, ExitLock, FinishLock
     DEF DaqQuitAtInit, DaqAbort, DaqQuit, ZsupEnd, ZsupBreak, Holding
<1>4. ASSUME NEW n \in Runs, TrigStop(n) PROVE Done
  BY <1>0, <1>4, ExitLock, FinishLock DEF TrigStop, Holding
<1>5. ASSUME NEW p \in Proc, NEW n \in Runs, NEW s, lock' = lock, raced' = raced,
             Goto(p, n, s), s # "locking",
             s \in Holding => p \notin Acq \/ pc[p][n] \in Holding
      PROVE  Done
  BY <1>0, <1>5, GotoPoint, SameLock
<1>6. ASSUME NEW p \in Acq, NEW n \in Runs,
             \/ LockRefused(p, n) \/ InitDone(p, n)
             \/ OutOpened(p, n) \/ Ready(p, n)
      PROVE  Done
  BY <1>0, <1>5, <1>6
     DEF LockRefused, InitDone, OutOpened, Ready, statusFiles, Holding
<1>7. ASSUME NEW b \in Boards, NEW n \in Runs,
             DaqInitDone(b, n) \/ DaqBegin(b, n) \/ ZsupBegin(b, n)
      PROVE  Done
  BY <1>0, <1>5, <1>7 DEF DaqInitDone, DaqBegin, ZsupBegin, statusFiles, Holding
<1>8. ASSUME NEW b \in Boards, NEW n \in Runs, StreamOpened(b, n) PROVE Done
  BY <1>0, <1>8, SameLock DEF StreamOpened, statusFiles, Holding
<1>9. ASSUME NEW n \in Runs, TrigBegin(n) PROVE Done
  BY <1>0, <1>5, <1>9 DEF TrigBegin, statusFiles, Holding
<1>10. ASSUME NEW p \in Proc, NEW n \in Runs, SinkEnds(p, n) \/ Crash(p, n)
       PROVE  Done
  BY <1>0, <1>5, <1>10 DEF SinkEnds, Crash, statusFiles, Holding
<1>11. ASSUME EnvFiles PROVE Done
  BY <1>11, SameLock DEF EnvFiles
<1>12. ASSUME NEW p \in Proc, NEW n \in Runs,
              \/ Launched(p, n) /\ UNCHANGED brk
              \/ Signalled(p, n),
              UNCHANGED <<joined, raced, statusFiles, runFiles>>
       PROVE  Done
  <2>1. CASE UNCHANGED pc
    BY <1>12, <2>1, SameLock DEF statusFiles
  <2>2. CASE Launched(p, n)
    BY <1>5, <1>12, <2>2, Names DEF Launched, statusFiles, Holding
  <2>3. CASE Goto(p, n, "dead")
    BY <1>5, <1>12, <2>3 DEF statusFiles, Holding
  <2>4. QED
    BY <1>12, <2>1, <2>2, <2>3 DEF Signalled
<1>13. QED
  BY <1>0, <1>1, <1>2, <1>3, <1>4, <1>6, <1>7, <1>8, <1>9, <1>10, <1>11,
     <1>12
     DEF AcqNext, ProcNext, ProcWork, ProcFault, EnvNext

LEMMA LockInductive == AcqSpec => []LockInv
<1>1. AcqInit => LockInv
  BY TypeInit, Names DEF AcqInit, LockInv, LockParts, OneLocking, LockingAlone,
     LockNamesHolder, Holding
<1>2. LockInv /\ [AcqNext]_acqVars => LockInv'
  <2> SUFFICES ASSUME LockInv, [AcqNext]_acqVars PROVE LockInv'
    OBVIOUS
  <2>1. AcqTypeOK'
    BY TypeStep DEF LockInv
  <2>2. CASE AcqNext
    BY <2>1, <2>2, LockStep DEF LockInv
  <2>3. CASE UNCHANGED acqVars
    BY <2>1, <2>3, SameLock DEF LockInv, acqVars, statusFiles
  <2>4. QED
    BY <2>2, <2>3
<1>3. QED
  BY <1>1, <1>2, PTL DEF AcqSpec

(***************************************************************************)
(* However many instances are launched, killed or crash, and whatever      *)
(* other programs do to the control files, the lock file names the one     *)
(* instance that is past create_lock, unless two of them were between      *)
(* access() and fopen() at the same time.                                  *)
(***************************************************************************)
THEOREM LockNamesItsHolder == AcqSpec => []LockNamesHolder
<1>1. LockInv => LockNamesHolder
  BY DEF LockInv, LockParts
<1>2. QED
  BY <1>1, LockInductive, PTL

(***************************************************************************)
(* So that meeting there is the only way for two instances of a process to *)
(* be past create_lock together.                                           *)
(***************************************************************************)
THEOREM MutualExclusion == AcqSpec => []OneHolder
<1>1. LockInv => OneHolder
  BY DEF LockInv, LockParts, LockNamesHolder, OneHolder
<1>2. QED
  BY <1>1, LockInductive, PTL

-----------------------------------------------------------------------------
(***************************************************************************)
(* The InitOK files.  InitokIsEarned is inductive given the types: no step *)
(* takes an instance back from the points at which it has been ready.      *)
(***************************************************************************)
Been == {"wait", "run", "dead"}

LEMMA SameInitok ==
  ASSUME AcqTypeOK, InitokIsEarned, initok' = initok,
         NEW p \in Proc, NEW n \in Runs, NEW s, Goto(p, n, s),
         pc[p][n] \in Been => s \in Been
  PROVE  InitokIsEarned'
<1>1. \A q \in Acq, m \in Runs :
        pc'[q][m] = IF q = p /\ m = n THEN s ELSE pc[q][m]
  BY GotoPoint, Names DEF AcqTypeOK
<1>2. QED
  BY <1>1 DEF AcqTypeOK, InitokIsEarned, Been

LEMMA InitokStep ==
  ASSUME AcqTypeOK, InitokIsEarned, AcqNext
  PROVE  InitokIsEarned'
<1>0. /\ pc \in [Proc -> [Runs -> PState]] /\ initok \in [Acq -> {0} \cup Runs]
      /\ Acq \subseteq Proc /\ Sinks \subseteq Proc /\ Trig \in Acq
      /\ \A b \in Boards : Daq(b) \in Acq /\ Zsup(b) \in Acq
  BY Names DEF AcqTypeOK
<1>1. ASSUME NEW p \in Acq, NEW n \in Runs, Ready(p, n)
      PROVE  InitokIsEarned'
  <2>1. \A q \in Acq, m \in Runs :
          pc'[q][m] = IF q = p /\ m = n THEN "wait" ELSE pc[q][m]
    BY <1>0, <1>1, GotoPoint DEF Ready
  <2>2. initok' = [q \in Acq |-> IF q = p THEN n ELSE initok[q]]
    BY <1>0, <1>1 DEF Ready
  <2>3. QED
    BY <1>0, <2>1, <2>2 DEF InitokIsEarned
<1>2. ASSUME NEW p \in Acq, NEW n \in Runs, NEW f, Exit(p, n, f)
      PROVE  InitokIsEarned'
  BY <1>0, <1>2, SameInitok DEF Exit, Been
<1>2a. ASSUME NEW p \in Acq, NEW n \in Runs, Finish(p, n)
       PROVE  InitokIsEarned'
  BY <1>0, <1>2, <1>2a, SameInitok DEF Finish, Crash, statusFiles, Been
<1>3. ASSUME NEW p \in Acq, NEW n \in Runs,
             \/ LockRefused(p, n) \/ LockFree(p, n) \/ LockWritten(p, n)
             \/ InitDone(p, n) \/ OutOpened(p, n)
      PROVE  InitokIsEarned'
  BY <1>0, <1>3, SameInitok
     DEF LockRefused, LockFree, LockWritten, InitDone, OutOpened, statusFiles, Been
<1>4. ASSUME NEW p \in Acq, NEW n \in Runs,
             \/ InitFails(p, n) \/ OpenFails(p, n) \/ StaleInitok(p, n)
             \/ RunEnds(p, n)
      PROVE  InitokIsEarned'
  BY <1>2, <1>4, <1>2a DEF InitFails, OpenFails, StaleInitok, RunEnds
<1>5. ASSUME NEW b \in Boards, NEW n \in Runs,
             DaqInitDone(b, n) \/ DaqBegin(b, n) \/ ZsupBegin(b, n)
      PROVE  InitokIsEarned'
  BY <1>0, <1>5, SameInitok
     DEF DaqInitDone, DaqBegin, ZsupBegin, statusFiles, Been
<1>6. ASSUME NEW b \in Boards, NEW n \in Runs,
             \/ DaqQuitAtInit(b, n) \/ DaqAbort(b, n) \/ DaqQuit(b, n)
             \/ ZsupEnd(b, n) \/ ZsupBreak(b, n)
      PROVE  InitokIsEarned'
  BY <1>0, <1>2, <1>6, <1>2a DEF DaqQuitAtInit, DaqAbort, DaqQuit, ZsupEnd, ZsupBreak
<1>7. ASSUME NEW b \in Boards, NEW n \in Runs, StreamOpened(b, n)
      PROVE  InitokIsEarned'
  BY <1>0, <1>7 DEF StreamOpened, InitokIsEarned, statusFiles
<1>8. ASSUME NEW n \in Runs, TrigBegin(n) \/ TrigStop(n)
      PROVE  InitokIsEarned'
  BY <1>0, <1>2, <1>8, <1>2a, SameInitok DEF TrigBegin, TrigStop, statusFiles, Been
<1>9. ASSUME NEW p \in Proc, NEW n \in Runs, SinkEnds(p, n) \/ Crash(p, n)
      PROVE  InitokIsEarned'
  BY <1>0, <1>9, SameInitok DEF SinkEnds, Crash, statusFiles, Been
<1>10. ASSUME EnvFiles PROVE InitokIsEarned'
  BY <1>0, <1>10 DEF EnvFiles, InitokIsEarned, runFiles
<1>11. ASSUME NEW p \in Proc, NEW n \in Runs,
              \/ Launched(p, n) /\ UNCHANGED brk
              \/ Signalled(p, n),
              UNCHANGED <<joined, raced, statusFiles, runFiles>>
       PROVE  InitokIsEarned'
  <2>1. CASE UNCHANGED pc
    BY <1>11, <2>1 DEF InitokIsEarned, statusFiles
  <2>2. CASE Launched(p, n)
    BY <1>11, <2>2, SameInitok DEF Launched, statusFiles, Been
  <2>3. CASE Goto(p, n, "dead")
    BY <1>11, <2>3, SameInitok DEF statusFiles, Been
  <2>4. QED
    BY <1>11, <2>1, <2>2, <2>3 DEF Signalled
<1>12. QED
  BY <1>0, <1>1, <1>3, <1>4, <1>5, <1>6, <1>7, <1>8, <1>9, <1>10, <1>11
     DEF AcqNext, ProcNext, ProcWork, ProcFault, EnvNext

(***************************************************************************)
(* An InitOK file was made by an instance that completed its               *)
(* initialisation, even if instances race through create_lock.             *)
(***************************************************************************)
THEOREM InitokEarned == AcqSpec => []InitokIsEarned
<1>1. AcqInit => AcqTypeOK /\ InitokIsEarned
  BY TypeInit DEF AcqInit, InitokIsEarned
<1>2. AcqTypeOK /\ InitokIsEarned /\ [AcqNext]_acqVars
        => (AcqTypeOK /\ InitokIsEarned)'
  <2> SUFFICES ASSUME AcqTypeOK, InitokIsEarned, [AcqNext]_acqVars
               PROVE  InitokIsEarned'
    BY TypeStep
  <2>1. CASE UNCHANGED acqVars
    BY <2>1 DEF InitokIsEarned, acqVars, statusFiles
  <2>2. QED
    BY <2>1, InitokStep
<1>3. QED
  BY <1>1, <1>2, PTL DEF AcqSpec

-----------------------------------------------------------------------------
(***************************************************************************)
(* The stream between a DAQ and its ZSUP.  DaqStreamsToZsup is inductive   *)
(* given the types: only StreamOpened brings a DAQ past its open, and it   *)
(* brings the ZSUP with it, which then can only go on or die.              *)
(***************************************************************************)
Linked == {"opened", "wait", "run"}

LEMMA SameStreams ==
  ASSUME AcqTypeOK, DaqStreamsToZsup,
         NEW p \in Proc, NEW n \in Runs, NEW s, Goto(p, n, s),
         p \in Daqs => (s \in Linked => pc[p][n] \in Linked),
         p \in Zsups => (pc[p][n] \in Linked \cup {"dead"} => s \in Linked \cup {"dead"})
  PROVE  DaqStreamsToZsup'
<1>1. \A q \in Acq, m \in Runs :
        pc'[q][m] = IF q = p /\ m = n THEN s ELSE pc[q][m]
  BY GotoPoint, Names DEF AcqTypeOK
<1>2. \A b \in Boards : /\ Daq(b) \in Acq /\ Zsup(b) \in Acq /\ Daq(b) # Zsup(b)
                        /\ Daq(b) \in Daqs /\ Zsup(b) \in Zsups
  BY Names DEF Daq, Daqs
<1>3. QED
  BY <1>1, <1>2 DEF DaqStreamsToZsup, Linked

LEMMA StreamStep ==
  ASSUME AcqTypeOK, DaqStreamsToZsup, AcqNext
  PROVE  DaqStreamsToZsup'
<1> DEFINE Done == DaqStreamsToZsup'
<1>0. /\ pc \in [Proc -> [Runs -> PState]]
      /\ Acq \subseteq Proc /\ Sinks \subseteq Proc /\ Trig \in Acq
      /\ \A b \in Boards : Daq(b) \in Acq /\ Zsup(b) \in Acq
      /\ \A b, c \in Boards : Daq(b) # Zsup(c)
  BY Names DEF AcqTypeOK, Daq, Zsup
<1>1. /\ \A p \in Inputs : p \notin Daqs
      /\ \A b \in Boards : Daq(b) \notin Zsups /\ Zsup(b) \notin Daqs
      /\ Trig \notin Daqs /\ Trig \notin Zsups
      /\ \A p \in Sinks : p \notin Daqs /\ p \notin Zsups
  BY DEF Inputs, Daqs, Zsups, Trig, Daq, Zsup, Sinks, Merger
<1>2. ASSUME UNCHANGED pc PROVE Done
  BY <1>2 DEF DaqStreamsToZsup
<1>3. ASSUME NEW p \in Proc, NEW n \in Runs, Goto(p, n, "dead") PROVE Done
  BY <1>3, SameStreams DEF Linked
<1>4. ASSUME NEW p \in Acq, NEW n \in Runs,
             \/ LockRefused(p, n) \/ InitFails(p, n) \/ OpenFails(p, n)
             \/ StaleInitok(p, n) \/ RunEnds(p, n)
      PROVE  Done
  BY <1>0, <1>3, <1>4 DEF LockRefused, InitFails, OpenFails, StaleInitok, RunEnds,
     Finish, Crash, Exit
<1>5. ASSUME NEW p \in Acq, NEW n \in Runs,
             \/ LockFree(p, n) \/ LockWritten(p, n) \/ InitDone(p, n)
             \/ OutOpened(p, n) \/ Ready(p, n)
      PROVE  Done
  <2>1. CASE LockFree(p, n) \/ LockWritten(p, n) \/ InitDone(p, n)
    BY <1>0, <2>1, SameStreams DEF LockFree, LockWritten, InitDone, Linked
  <2>2. CASE OutOpened(p, n)
    BY <1>0, <1>1, <2>2, SameStreams DEF OutOpened, Linked
  <2>3. CASE Ready(p, n)
    BY <1>0, <2>3, SameStreams DEF Ready, Linked
  <2>4. QED
    BY <1>5, <2>1, <2>2, <2>3
<1>6. ASSUME NEW b \in Boards, NEW n \in Runs,
             \/ DaqInitDone(b, n) \/ DaqBegin(b, n) \/ ZsupBegin(b, n)
      PROVE  Done
  BY <1>0, <1>1, <1>6, SameStreams DEF DaqInitDone, DaqBegin, ZsupBegin, Linked
<1>7. ASSUME NEW b \in Boards, NEW n \in Runs,
             \/ DaqQuitAtInit(b, n) \/ DaqAbort(b, n) \/ DaqQuit(b, n)
             \/ ZsupEnd(b, n) \/ ZsupBreak(b, n)
      PROVE  Done
  BY <1>0, <1>3, <1>7 DEF DaqQuitAtInit, DaqAbort, DaqQuit, ZsupEnd, ZsupBreak,
     Finish, Crash, Exit
<1>8. ASSUME NEW b \in Boards, NEW n \in Runs, StreamOpened(b, n) PROVE Done
  <2>1. \A q \in Proc, m \in Runs :
          pc'[q][m] = IF q \in {Daq(b), Zsup(b)} /\ m = n THEN "opened" ELSE pc[q][m]
    BY <1>0, <1>8 DEF StreamOpened
  <2>2. \A c \in Boards : (Daq(c) = Daq(b) => c = b) /\ (Zsup(c) = Zsup(b) => c = b)
    BY DEF Daq, Zsup
  <2>3. QED
    BY <1>0, <2>1, <2>2 DEF DaqStreamsToZsup
<1>9. ASSUME NEW n \in Runs, TrigBegin(n) PROVE Done
  BY <1>0, <1>1, <1>9, SameStreams DEF TrigBegin, Linked
<1>10. ASSUME NEW n \in Runs, TrigStop(n) PROVE Done
  BY <1>0, <1>3, <1>10 DEF TrigStop, Finish, Crash, Exit
<1>11. ASSUME NEW p \in Proc, NEW n \in Runs, SinkEnds(p, n) \/ Crash(p, n)
       PROVE  Done
  BY <1>3, <1>11 DEF SinkEnds, Crash
<1>12. ASSUME EnvFiles PROVE Done
  BY <1>2, <1>12 DEF EnvFiles
<1>13. ASSUME NEW p \in Proc, NEW n \in Runs, Launched(p, n) PROVE Done
  <2>1. CASE p \in Sinks
    BY <1>1, <1>13, <2>1, SameStreams DEF Launched
  <2>2. CASE p \notin Sinks
    BY <1>13, <2>2, SameStreams DEF Launched, Linked
  <2>3. QED
    BY <2>1, <2>2
<1>14. ASSUME NEW p \in Proc, NEW n \in Runs, Signalled(p, n) PROVE Done
  BY <1>2, <1>3, <1>14 DEF Signalled
<1>15. QED
  BY <1>0, <1>4, <1>5, <1>6, <1>7, <1>8, <1>9, <1>10, <1>11, <1>12, <1>13, <1>14
     DEF AcqNext, ProcNext, ProcWork, ProcFault, EnvNext

(***************************************************************************)
(* A DAQ that takes data has a ZSUP at the other end of its stream that    *)
(* completed the same rendezvous, or has exited since: whatever is         *)
(* launched, killed or crashes, and whether or not create_lock is atomic.  *)
(***************************************************************************)
THEOREM StreamHasReader == AcqSpec => []DaqStreamsToZsup
<1>1. AcqInit => AcqTypeOK /\ DaqStreamsToZsup
  BY TypeInit, Names DEF AcqInit, DaqStreamsToZsup
<1>2. AcqTypeOK /\ DaqStreamsToZsup /\ [AcqNext]_acqVars
        => (AcqTypeOK /\ DaqStreamsToZsup)'
  <2> SUFFICES ASSUME AcqTypeOK, DaqStreamsToZsup, [AcqNext]_acqVars
               PROVE  DaqStreamsToZsup'
    BY TypeStep
  <2>1. CASE UNCHANGED acqVars
    BY <2>1 DEF DaqStreamsToZsup, acqVars
  <2>2. QED
    BY <2>1, StreamStep
<1>3. QED
  BY <1>1, <1>2, PTL DEF AcqSpec
=============================================================================

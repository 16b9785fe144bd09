--------------------------- MODULE RunBook_proofs ---------------------------
(***************************************************************************)
(* Proofs about RunBook, for any sites, servers and setups, and any number *)
(* of runs.                                                                *)
(***************************************************************************)
EXTENDS RunBook, FiniteSetTheorems, SequenceTheorems, TLAPS

Points == Serving \cup {"off", "locking", "loading", "loaded", "bound", "closed", "dead"}

BookTypeOK ==
  /\ pc \in [Servers -> Points]
  /\ site \in [Servers -> Sites \cup {NoOne}]
  /\ lock \in [Sites -> Servers \cup {NoOne}]
  /\ port \in [Sites -> Servers \cup {NoOne}]
  /\ lus \in [Sites -> Setups]
  /\ setup \in [Servers -> Setups \cup {NoConfig}]
  /\ config \in [Servers -> Setups \cup {NoConfig}]
  /\ number \in [Servers -> Nat]
  /\ knew \in [Servers -> SUBSET Nat]
  /\ rows \in SUBSET Nat
  /\ runs \in Seq([by : Servers, n : Nat, knew : SUBSET Nat])
  /\ raced \in [Sites -> BOOLEAN]

(* A server that was started has a site, one that has loaded a setup has   *)
(* one, and has its processes or none.                                     *)
Settled(s) ==
  /\ pc[s] # "off" => site[s] \in Sites
  /\ pc[s] \in Serving \cup {"loaded", "bound"} => setup[s] \in Setups
  /\ config[s] \in {NoConfig, setup[s]}
  /\ pc[s] \in {"checked", "launched"} => config[s] # NoConfig
AllSettled == \A s \in Servers : Settled(s)

(* The numbers are 1 to k, and nobody has chosen more than the next.       *)
Counted(k) == rows = 1..k /\ \A s \in Servers : number[s] <= k + 1
RowsCounted == \E k \in Nat : Counted(k)

(* Whoever serves listens, so one server serves a site.                    *)
ServerListens == \A s \in Servers : pc[s] \in Serving => port[site[s]] = s

-----------------------------------------------------------------------------
(* Types. *)

LEMMA LastOfRows ==
  ASSUME NEW k \in Nat, rows = 1..k
  PROVE  LastRun = k
<1>1. \A y \in {0} \cup rows : k >= y
  OBVIOUS
<1>2. k \in {0} \cup rows
  OBVIOUS
<1>3. \A x \in {0} \cup rows : (\A y \in {0} \cup rows : x >= y) => x = k
  BY <1>1, <1>2
<1>4. QED
  BY <1>1, <1>2, <1>3 DEF LastRun, Max

LEMMA LastIsNat == RowsCounted => LastRun \in Nat
  BY LastOfRows DEF RowsCounted, Counted

LEMMA GotoType ==
  ASSUME pc \in [Servers -> Points], NEW s \in Servers, NEW l \in Points, Goto(s, l)
  PROVE  pc' \in [Servers -> Points] /\ pc' = [pc EXCEPT ![s] = l]
  BY DEF Goto

TypeInv == BookTypeOK /\ AllSettled /\ RowsCounted

LEMMA TypeInit == Init => TypeInv
<1> SUFFICES ASSUME Init PROVE TypeInv
  OBVIOUS
<1>1. BookTypeOK
  BY BookAssumption DEF Init, BookTypeOK, Points
<1>2. AllSettled
  BY DEF Init, AllSettled, Settled, Serving
<1>3. Counted(0)
  BY DEF Init, Counted
<1>4. QED
  BY <1>1, <1>2, <1>3 DEF TypeInv, RowsCounted

LEMMA BookTypeStep == TypeInv /\ [Next]_vars => BookTypeOK'
<1> SUFFICES ASSUME TypeInv, [Next]_vars PROVE BookTypeOK'
  OBVIOUS
<1> USE GotoType DEF TypeInv, BookTypeOK, Points, Serving, places, dialogue, book, memory
<1>1. ASSUME NEW s \in Servers, NEW x \in Sites, CheckLock(s, x) \/ Refused(s, x)
      PROVE  BookTypeOK'
  <2>1. CASE CheckLock(s, x)
    BY <2>1 DEF CheckLock
  <2>2. CASE Refused(s, x)
    BY <2>2 DEF Refused
  <2>3. QED
    BY <1>1, <2>1, <2>2
<1>2. ASSUME NEW s \in Servers, WriteLock(s) \/ LoadInitial(s) \/ Bind(s) \/ BindFails(s) \/ Listen(s)
      PROVE  BookTypeOK'
  <2>0. pc[s] # "off" => site[s] \in Sites
    BY DEF AllSettled, Settled
  <2>1. CASE WriteLock(s)
    BY <2>0, <2>1 DEF WriteLock
  <2>2. CASE LoadInitial(s)
    BY <2>0, <2>2, BookAssumption DEF LoadInitial, Load, Forget
  <2>3. CASE Bind(s)
    BY <2>3 DEF Bind
  <2>4. CASE BindFails(s)
    BY <2>0, <2>4 DEF BindFails, Forget, AllSettled, Settled
  <2>5. CASE Listen(s)
    BY <2>0, <2>5 DEF Listen, Forget
  <2>6. QED
    BY <1>2, <2>1, <2>2, <2>3, <2>4, <2>5
<1>3. ASSUME NEW s \in Servers, NEW x \in Setups, ChangeSetup(s, x)
      PROVE  BookTypeOK'
  BY <1>3, BookAssumption DEF ChangeSetup, Load, AllSettled, Settled
<1>4. ASSUME NEW s \in Servers, NewRun(s) \/ GiveUp(s) \/ CheckNumber(s) \/ CreateRun(s) \/ RunOver(s)
      PROVE  BookTypeOK'
  <2>1. CASE NewRun(s)
    BY <2>1, LastIsNat DEF NewRun
  <2>2. CASE GiveUp(s)
    BY <2>2 DEF GiveUp, EndDialogue
  <2>3. CASE CheckNumber(s)
    <3>0. site[s] \in Sites
      BY <2>3 DEF CheckNumber, ChangeRun, AllSettled, Settled
    <3>1. /\ pc' \in [Servers -> Points]
          /\ setup' \in [Servers -> Setups \cup {NoConfig}]
          /\ config' \in [Servers -> Setups \cup {NoConfig}]
      BY <2>3 DEF CheckNumber, ChangeRun, Ends, Forget
    <3>2. port' \in [Sites -> Servers \cup {NoOne}]
      BY <2>3, <3>0 DEF CheckNumber, ChangeRun, Ends
    <3>3. number' \in [Servers -> Nat] /\ knew' \in [Servers -> SUBSET Nat]
      <4>1. PICK n \in {0, number[s]}, K \in {{}, rows, knew[s]} :
              number' = [number EXCEPT ![s] = n] /\ knew' = [knew EXCEPT ![s] = K]
        BY <2>3 DEF CheckNumber, ChangeRun, EndDialogue
      <4>2. n \in Nat
        OBVIOUS
      <4>3. K \in SUBSET Nat
        BY {} \in SUBSET Nat, knew[s] \in SUBSET Nat
      <4>4. QED
        BY <4>1, <4>2, <4>3
    <3>4. QED
      BY <2>3, <3>1, <3>2, <3>3 DEF CheckNumber, ChangeRun
  <2>4. CASE CreateRun(s)
    <3>1. [by |-> s, n |-> number[s], knew |-> knew[s]] \in [by : Servers, n : Nat, knew : SUBSET Nat]
      OBVIOUS
    <3>2. runs' \in Seq([by : Servers, n : Nat, knew : SUBSET Nat]) /\ rows' \in SUBSET Nat
      <4>1. CASE number[s] = 0
        <5>1. rows' = rows /\ runs' = runs
          BY <2>4, <4>1 DEF CreateRun
        <5>2. QED
          BY <5>1
      <4>2. CASE number[s] # 0
        <5>1. number[s] \in Nat
          OBVIOUS
        <5>2. rows' = rows \cup {number[s]}
          BY <2>4, <4>2 DEF CreateRun
        <5>3. runs' = Append(runs, [by |-> s, n |-> number[s], knew |-> knew[s]])
          BY <2>4, <4>2 DEF CreateRun
        <5>4. runs' \in Seq([by : Servers, n : Nat, knew : SUBSET Nat])
          BY ONLY <3>1, <5>3, runs \in Seq([by : Servers, n : Nat, knew : SUBSET Nat])
        <5>5. QED
          BY <5>1, <5>2, <5>4
      <4>3. QED
        BY <4>1, <4>2
    <3>3. QED
      BY <2>4, <3>2 DEF CreateRun, EndDialogue
  <2>5. CASE RunOver(s)
    BY <2>5 DEF RunOver
  <2>6. QED
    BY <1>4, <2>1, <2>2, <2>3, <2>4, <2>5
<1>5. ASSUME NEW s \in Servers, SaveSetup(s) \/ CloseSocket(s) \/ RemoveLock(s) \/ Dies(s)
      PROVE  BookTypeOK'
  <2>0. pc[s] # "off" => site[s] \in Sites
    BY DEF AllSettled, Settled
  <2>1. CASE SaveSetup(s)
    BY <2>0, <2>1 DEF SaveSetup, EndDialogue, AllSettled, Settled
  <2>2. CASE CloseSocket(s)
    BY <2>0, <2>2 DEF CloseSocket
  <2>3. CASE RemoveLock(s)
    BY <2>0, <2>3 DEF RemoveLock, Forget
  <2>4. CASE Dies(s)
    BY <2>0, <2>4 DEF Dies, Alive, Ends, Forget, EndDialogue
  <2>5. QED
    BY <1>5, <2>1, <2>2, <2>3, <2>4
<1>6. CASE UNCHANGED vars
  BY <1>6 DEF vars
<1>7. QED
  BY <1>1, <1>2, <1>3, <1>4, <1>5, <1>6 DEF Next

LEMMA SettledStep == TypeInv /\ [Next]_vars => AllSettled'
<1> SUFFICES ASSUME TypeInv, [Next]_vars, NEW t \in Servers
             PROVE  Settled(t)'
  BY DEF AllSettled
<1>0. Settled(t)
  BY DEF TypeInv, AllSettled
<1> USE <1>0 DEF TypeInv, BookTypeOK, Points, Serving, Settled, Goto, places, dialogue, book, memory
<1>1. ASSUME NEW s \in Servers, NEW x \in Sites, CheckLock(s, x) \/ Refused(s, x)
      PROVE  Settled(t)'
  BY <1>1 DEF CheckLock, Refused
<1>2. ASSUME NEW s \in Servers, WriteLock(s) \/ LoadInitial(s) \/ Bind(s) \/ BindFails(s) \/ Listen(s)
      PROVE  Settled(t)'
  <2>0. Settled(s)
    BY DEF AllSettled
  <2>1. CASE WriteLock(s) \/ Bind(s) \/ BindFails(s) \/ Listen(s)
    BY <2>1 DEF WriteLock, Bind, BindFails, Listen, Forget
  <2>2. CASE LoadInitial(s)
    BY <2>0, <2>2, BookAssumption DEF LoadInitial, Load, Forget
  <2>3. QED
    BY <1>2, <2>1, <2>2
<1>3. ASSUME NEW s \in Servers, NEW x \in Setups, ChangeSetup(s, x)
      PROVE  Settled(t)'
  BY <1>3 DEF ChangeSetup, Load
<1>4. ASSUME NEW s \in Servers, NewRun(s) \/ GiveUp(s) \/ CheckNumber(s) \/ CreateRun(s) \/ RunOver(s)
      PROVE  Settled(t)'
  BY <1>4 DEF NewRun, GiveUp, CheckNumber, ChangeRun, CreateRun, RunOver, EndDialogue, Ends, Forget
<1>5. ASSUME NEW s \in Servers, SaveSetup(s) \/ CloseSocket(s) \/ RemoveLock(s) \/ Dies(s)
      PROVE  Settled(t)'
  BY <1>5 DEF SaveSetup, CloseSocket, RemoveLock, Dies, Alive, EndDialogue, Ends, Forget
<1>6. CASE UNCHANGED vars
  BY <1>6 DEF vars
<1>7. QED
  BY <1>1, <1>2, <1>3, <1>4, <1>5, <1>6 DEF Next

LEMMA RowsStep == TypeInv /\ [Next]_vars => RowsCounted'
<1> SUFFICES ASSUME TypeInv, [Next]_vars PROVE RowsCounted'
  OBVIOUS
<1>0. PICK k \in Nat : Counted(k)
  BY DEF TypeInv, RowsCounted
<1>1. ASSUME NEW s \in Servers, NewRun(s) PROVE RowsCounted'
  <2>1. LastRun = k
    BY <1>0, LastOfRows DEF Counted
  <2>2. Counted(k)'
    BY <1>0, <1>1, <2>1 DEF NewRun, Counted, TypeInv, BookTypeOK
  <2>3. QED
    BY <2>2 DEF RowsCounted
<1>2. ASSUME NEW s \in Servers, CreateRun(s) PROVE RowsCounted'
  <2>1. /\ number[s] \in Nat /\ number[s] <= k + 1
        /\ \A t \in Servers : number'[t] \in Nat /\ number'[t] <= k + 1
    BY <1>0, <1>2 DEF CreateRun, EndDialogue, Counted, TypeInv, BookTypeOK
  <2>2. CASE number[s] = k + 1
    <3>1. rows' = 1..(k + 1)
      <4>1. rows' = rows \cup {k + 1} /\ rows = 1..k
        BY <1>0, <1>2, <2>2 DEF CreateRun, Counted
      <4>2. \A x : x \in 1..(k + 1) <=> x \in 1..k \/ x = k + 1
        OBVIOUS
      <4>3. QED
        BY <4>1, <4>2
    <3>2. Counted(k + 1)'
      BY <2>1, <3>1 DEF Counted
    <3>3. QED
      BY <3>2 DEF RowsCounted
  <2>3. CASE number[s] # k + 1
    <3>1. rows' = 1..k
      <4>1. rows' = rows \/ (rows' = rows \cup {number[s]} /\ number[s] # 0)
        BY <1>2 DEF CreateRun
      <4>2. number[s] # 0 => number[s] \in 1..k
        BY <2>1, <2>3
      <4>3. QED
        BY <1>0, <4>1, <4>2 DEF Counted
    <3>2. Counted(k)'
      BY <2>1, <3>1 DEF Counted
    <3>3. QED
      BY <3>2 DEF RowsCounted
  <2>4. QED
    BY <2>2, <2>3
<1>3. ASSUME UNCHANGED rows,
             \/ UNCHANGED number
             \/ \E s \in Servers : number' = [number EXCEPT ![s] = 0]
      PROVE  RowsCounted'
  <2>1. Counted(k)'
    BY <1>0, <1>3 DEF Counted, TypeInv, BookTypeOK
  <2>2. QED
    BY <2>1 DEF RowsCounted
<1>4. [Next]_vars => \/ \E s \in Servers : NewRun(s) \/ CreateRun(s)
                     \/ /\ UNCHANGED rows
                        /\ \/ UNCHANGED number
                           \/ \E s \in Servers : number' = [number EXCEPT ![s] = 0]
  BY DEF Next, vars, book, dialogue, CheckLock, Refused, WriteLock, LoadInitial, Bind, BindFails,
         Listen, ChangeSetup, GiveUp, CheckNumber, ChangeRun, RunOver, SaveSetup, CloseSocket,
         RemoveLock, Dies, EndDialogue
<1>5. QED
  BY <1>1, <1>2, <1>3, <1>4

(* The types of the variables, that numbers in the table have no gap, and  *)
(* that a server's processes are none or those of its setup.               *)
THEOREM BookTypesCorrect == Spec => []TypeInv
<1>1. TypeInv /\ [Next]_vars => TypeInv'
  BY BookTypeStep, SettledStep, RowsStep DEF TypeInv
<1>2. QED
  BY TypeInit, <1>1, PTL DEF Spec

(* RunsAsNamed: no run is launched with the processes of another setup     *)
(* than the one it is said to have (Run.py:631).                           *)
THEOREM LaunchedAsNamed == Spec => []RunsAsNamed
<1>1. TypeInv => RunsAsNamed
  BY DEF TypeInv, AllSettled, Settled, RunsAsNamed
<1>2. QED
  BY BookTypesCorrect, <1>1, PTL

-----------------------------------------------------------------------------
(* The site of a server that was alone in create_lock_file.                *)

(***************************************************************************)
(* SiteInOrder is not inductive: it takes that such a server is the only   *)
(* one alive at its site, and that one with a setup loaded has the last    *)
(* used setup before it serves.                                            *)
(***************************************************************************)
Alone(s) == \A t \in Servers : Alive(t) /\ site[t] = site[s] => t = s
Remembers(s) ==
  pc[s] \in Serving \cup {"loaded", "bound"} => lus[site[s]] = setup[s] \/ config[s] = NoConfig
SiteInv ==
  \A s \in Servers : Alive(s) /\ ~raced[site[s]] => Alone(s) /\ LockNamesServer(s) /\ Remembers(s)

LEMMA SiteInit == Init => SiteInv
  BY DEF Init, SiteInv, Alive

(* A step of a server touches the files of its own site only, and nobody   *)
(* else starts in the steps but CheckLock.                                 *)
LEMMA OwnSite ==
  ASSUME TypeInv, SiteInv, NEW s \in Servers, Alive(s),
         UNCHANGED <<site, raced>>,
         \A t \in Servers \ {s} : pc'[t] = pc[t] /\ setup'[t] = setup[t] /\ config'[t] = config[t],
         \A x \in Sites \ {site[s]} : lock'[x] = lock[x] /\ lus'[x] = lus[x],
         Alive(s)' /\ ~raced[site[s]] => LockNamesServer(s)' /\ Remembers(s)'
  PROVE  SiteInv'
<1> SUFFICES ASSUME NEW t \in Servers, Alive(t)', ~raced[site[t]]
             PROVE  (Alone(t) /\ LockNamesServer(t) /\ Remembers(t))'
  BY DEF SiteInv
<1>1. \A u \in Servers : Alive(u)' => Alive(u)
  BY DEF Alive
<1>2. Alone(t) /\ LockNamesServer(t) /\ Remembers(t)
  BY <1>1 DEF SiteInv
<1>3. Alone(t)'
  BY <1>1, <1>2 DEF Alone
<1>4. CASE t = s
  BY <1>3, <1>4
<1>5. CASE t # s
  <2>1. site[t] \in Sites \ {site[s]}
    BY <1>1, <1>2, <1>5 DEF Alone, TypeInv, AllSettled, Settled, Alive
  <2>2. lock'[site[t]] = lock[site[t]] /\ lus'[site[t]] = lus[site[t]]
    BY <2>1
  <2>3. pc'[t] = pc[t] /\ setup'[t] = setup[t] /\ config'[t] = config[t]
    BY <1>5
  <2>4. QED
    BY <1>2, <1>3, <2>2, <2>3 DEF LockNamesServer, Remembers
<1>6. QED
  BY <1>4, <1>5

LEMMA SiteStep == TypeInv /\ SiteInv /\ [Next]_vars => SiteInv'
<1> SUFFICES ASSUME TypeInv, SiteInv, [Next]_vars PROVE SiteInv'
  OBVIOUS
<1> USE DEF Points, Serving, Goto, places, dialogue, book, memory
<1>1. ASSUME NEW s \in Servers, NEW x \in Sites, CheckLock(s, x)
      PROVE  SiteInv'
  <2> SUFFICES ASSUME NEW t \in Servers, Alive(t)', ~raced'[site'[t]]
               PROVE  (Alone(t) /\ LockNamesServer(t) /\ Remembers(t))'
    BY DEF SiteInv
  <2>0. /\ site' = [site EXCEPT ![s] = x] /\ pc' = [pc EXCEPT ![s] = "locking"]
        /\ UNCHANGED <<lock, lus, setup, config>>
        /\ pc[s] = "off" /\ (lock[x] \in Servers => ~Alive(lock[x]))
        /\ \A y \in Sites : y # x => raced'[y] = raced[y]
        /\ ~raced'[x] => AliveAt(x) = {} \/ (~raced[x] /\ \A u \in AliveAt(x) : pc[u] # "locking")
    BY <1>1 DEF CheckLock, TypeInv, BookTypeOK
  <2>a. /\ pc \in [Servers -> Points] /\ site \in [Servers -> Sites \cup {NoOne}]
        /\ \A u \in Servers : pc[u] # "off" => site[u] \in Sites
    BY DEF TypeInv, BookTypeOK, AllSettled, Settled
  <2>1. ~raced'[x] => AliveAt(x) = {}
    <3> SUFFICES ASSUME ~raced[x], \A u \in AliveAt(x) : pc[u] # "locking",
                        NEW u \in AliveAt(x)
                 PROVE  FALSE
      BY <2>0
    <3>1. u \in Servers /\ Alive(u) /\ site[u] = x
      BY DEF AliveAt
    <3>2. lock[x] = u
      BY <3>1 DEF SiteInv, LockNamesServer
    <3>3. QED
      BY <2>0, <3>1, <3>2
  <2>2. CASE t = s
    BY <2>0, <2>1, <2>2, <2>a DEF Alone, AliveAt, Alive, LockNamesServer, Remembers
  <2>3. CASE t # s
    <3>1. Alive(t) /\ site'[t] = site[t] /\ pc'[t] = pc[t]
      BY <2>0, <2>3, <2>a DEF Alive
    <3>2. site[t] # x
      BY <2>0, <2>1, <2>3, <3>1 DEF AliveAt
    <3>3. ~raced[site[t]]
      BY <2>0, <2>a, <3>1, <3>2 DEF Alive
    <3>4. Alone(t) /\ LockNamesServer(t) /\ Remembers(t)
      BY <3>1, <3>3 DEF SiteInv
    <3>5. QED
      BY <2>0, <2>a, <3>1, <3>2, <3>4 DEF Alone, LockNamesServer, Remembers, Alive
  <2>4. QED
    BY <2>2, <2>3
<1>2. ASSUME NEW s \in Servers, NEW x \in Sites, Refused(s, x)
      PROVE  SiteInv'
  <2>1. \A t \in Servers : Alive(t)' => t # s
    BY <1>2 DEF Refused, Alive, TypeInv, BookTypeOK
  <2>2. \A t \in Servers \ {s} : pc'[t] = pc[t] /\ site'[t] = site[t]
    BY <1>2 DEF Refused, TypeInv, BookTypeOK
  <2>3. UNCHANGED <<lock, lus, setup, config, raced>>
    BY <1>2 DEF Refused
  <2>4. QED
    BY <2>1, <2>2, <2>3 DEF SiteInv, Alone, LockNamesServer, Remembers, Alive
<1>3. ASSUME NEW s \in Servers,
             \/ WriteLock(s) \/ LoadInitial(s) \/ Bind(s) \/ BindFails(s) \/ Listen(s)
             \/ (\E x \in Setups : ChangeSetup(s, x))
             \/ NewRun(s) \/ GiveUp(s) \/ CheckNumber(s) \/ CreateRun(s) \/ RunOver(s)
             \/ SaveSetup(s) \/ CloseSocket(s) \/ RemoveLock(s) \/ Dies(s)
      PROVE  SiteInv'
  <2>1. Alive(s) /\ UNCHANGED <<site, raced>>
    BY <1>3 DEF WriteLock, LoadInitial, Bind, BindFails, Listen, ChangeSetup, NewRun, GiveUp,
                CheckNumber, ChangeRun, CreateRun, RunOver, SaveSetup, CloseSocket, RemoveLock, Dies, Alive
  <2>2. \A t \in Servers \ {s} : pc'[t] = pc[t]
    BY <1>3 DEF TypeInv, BookTypeOK, WriteLock, LoadInitial, Bind, BindFails, Listen, ChangeSetup,
                NewRun, GiveUp, CheckNumber, ChangeRun, CreateRun, RunOver, SaveSetup, CloseSocket,
                RemoveLock, Dies, Ends
  <2>3. \A t \in Servers \ {s} : setup'[t] = setup[t] /\ config'[t] = config[t]
    BY <1>3 DEF TypeInv, BookTypeOK, WriteLock, LoadInitial, Bind, BindFails, Listen, ChangeSetup,
                NewRun, GiveUp, CheckNumber, ChangeRun, CreateRun, RunOver, SaveSetup, CloseSocket,
                RemoveLock, Dies, Ends, Load, Forget
  <2>4. \A x \in Sites \ {site[s]} : lock'[x] = lock[x] /\ lus'[x] = lus[x]
    BY <1>3 DEF TypeInv, BookTypeOK, WriteLock, LoadInitial, Bind, BindFails, Listen, ChangeSetup,
                NewRun, GiveUp, CheckNumber, ChangeRun, CreateRun, RunOver, SaveSetup, CloseSocket,
                RemoveLock, Dies
  <2>5. ASSUME Alive(s)', ~raced[site[s]]
        PROVE  LockNamesServer(s)' /\ Remembers(s)'
    <3>1. LockNamesServer(s) /\ Remembers(s) /\ site[s] \in Sites
      BY <2>1, <2>5 DEF SiteInv, TypeInv, AllSettled, Settled, Alive
    <3> USE <2>1, <2>5, <3>1 DEF TypeInv, BookTypeOK, Alive, LockNamesServer, Remembers
    <3>2. CASE WriteLock(s)
      BY <3>2 DEF WriteLock
    <3>3. CASE LoadInitial(s)
      BY <3>3 DEF LoadInitial, Load, Forget
    <3>4. CASE Bind(s) \/ BindFails(s) \/ Listen(s) \/ CloseSocket(s) \/ RemoveLock(s)
      BY <3>4 DEF Bind, BindFails, Listen, CloseSocket, RemoveLock
    <3>5. ASSUME NEW x \in Setups, ChangeSetup(s, x)
          PROVE  LockNamesServer(s)' /\ Remembers(s)'
      BY <3>5 DEF ChangeSetup, Load
    <3>6. CASE NewRun(s) \/ GiveUp(s) \/ CreateRun(s) \/ RunOver(s)
      BY <3>6 DEF NewRun, GiveUp, CreateRun, RunOver
    <3>7. CASE CheckNumber(s)
      BY <3>7 DEF CheckNumber, ChangeRun, Ends
    <3>8. CASE SaveSetup(s)
      BY <3>8 DEF SaveSetup
    <3>9. CASE Dies(s)
      BY <3>9 DEF Dies, Ends
    <3>10. QED
      BY <1>3, <3>2, <3>3, <3>4, <3>5, <3>6, <3>7, <3>8, <3>9
  <2>6. QED
    BY <2>1, <2>2, <2>3, <2>4, <2>5, OwnSite
<1>4. CASE UNCHANGED vars
  BY <1>4 DEF vars, SiteInv, Alone, LockNamesServer, Remembers, Alive
<1>5. QED
  BY <1>1, <1>2, <1>3, <1>4 DEF Next

(* SiteInOrder: without a race at the start, the lock file names the one   *)
(* server of the site and last_used_setup its setup                        *)
(* (RunControlServer.py:128, 603).                                         *)
THEOREM FilesNameTheServer == Spec => []SiteInOrder
<1>1. TypeInv /\ SiteInv => SiteInOrder
  BY DEF SiteInv, SiteInOrder, Remembers, SetupRemembered
<1>2. QED
  BY SiteInit, SiteStep, BookTypesCorrect, <1>1, PTL DEF Spec

-----------------------------------------------------------------------------
(* Run numbers. *)

LEMMA ListensStep == TypeInv /\ ServerListens /\ [Next]_vars => ServerListens'
<1> SUFFICES ASSUME TypeInv, ServerListens, [Next]_vars, NEW t \in Servers, pc'[t] \in Serving
             PROVE  port'[site'[t]] = t
  BY DEF ServerListens
<1>0. /\ pc \in [Servers -> Points] /\ site \in [Servers -> Sites \cup {NoOne}]
      /\ port \in [Sites -> Servers \cup {NoOne}]
      /\ \A s \in Servers : pc[s] # "off" => site[s] \in Sites
      /\ \A s \in Servers : pc[s] \in Serving => port[site[s]] = s
  BY DEF TypeInv, BookTypeOK, AllSettled, Settled, ServerListens
<1> USE <1>0 DEF Points, Serving, Goto, places, dialogue, book, memory
<1>1. ASSUME NEW s \in Servers, NEW x \in Sites, CheckLock(s, x) \/ Refused(s, x)
      PROVE  port'[site'[t]] = t
  BY <1>1 DEF CheckLock, Refused
<1>2. ASSUME NEW s \in Servers, WriteLock(s) \/ LoadInitial(s) \/ Bind(s) \/ BindFails(s)
      PROVE  port'[site'[t]] = t
  BY <1>2 DEF WriteLock, LoadInitial, Bind, BindFails
<1>3. ASSUME NEW s \in Servers, Listen(s) PROVE port'[site'[t]] = t
  BY <1>3, BookAssumption DEF Listen
<1>4. ASSUME NEW s \in Servers, NEW x \in Setups, ChangeSetup(s, x) PROVE port'[site'[t]] = t
  BY <1>4 DEF ChangeSetup
<1>5. ASSUME NEW s \in Servers, NewRun(s) \/ GiveUp(s) \/ CreateRun(s) \/ RunOver(s) \/ SaveSetup(s)
      PROVE  port'[site'[t]] = t
  BY <1>5 DEF NewRun, GiveUp, CreateRun, RunOver, SaveSetup
<1>6. ASSUME NEW s \in Servers, CheckNumber(s) PROVE port'[site'[t]] = t
  BY <1>6 DEF CheckNumber, ChangeRun, Ends
<1>7. ASSUME NEW s \in Servers, CloseSocket(s) \/ RemoveLock(s) PROVE port'[site'[t]] = t
  BY <1>7 DEF CloseSocket, RemoveLock
<1>8. ASSUME NEW s \in Servers, Dies(s) PROVE port'[site'[t]] = t
  BY <1>8 DEF Dies, Ends
<1>9. CASE UNCHANGED vars
  BY <1>9 DEF vars
<1>10. QED
  BY <1>1, <1>2, <1>3, <1>4, <1>5, <1>6, <1>7, <1>8, <1>9 DEF Next

(***************************************************************************)
(* NumbersInOrder takes that a server about to insert its number has asked *)
(* when all the runs of its site were in the table already.                *)
(***************************************************************************)
RunsInserted == \A i \in DOMAIN runs : runs[i].n \in rows /\ pc[runs[i].by] # "off"
HasAsked(s) ==
  pc[s] = "checked" =>
    /\ number[s] # 0 => number[s] \notin knew[s]
    /\ \A i \in DOMAIN runs : site[runs[i].by] = site[s] => runs[i].n \in knew[s]
SharedByRace ==
  \A i, j \in DOMAIN runs :
    i < j /\ runs[i].n = runs[j].n
      => site[runs[i].by] # site[runs[j].by] /\ runs[j].n \notin runs[j].knew
NumberInv == ServerListens /\ RunsInserted /\ (\A s \in Servers : HasAsked(s)) /\ SharedByRace

LEMMA NumberInit == Init => NumberInv
  BY DEF Init, NumberInv, ServerListens, RunsInserted, HasAsked, SharedByRace, Serving

LEMMA RunTypes ==
  ASSUME runs \in Seq([by : Servers, n : Nat, knew : SUBSET Nat])
  PROVE  \A i \in DOMAIN runs : runs[i].by \in Servers
<1>0. DOMAIN runs = 1..Len(runs)
  OBVIOUS
<1>1. \A i \in DOMAIN runs : runs[i] \in [by : Servers, n : Nat, knew : SUBSET Nat]
  BY <1>0, ElementOfSeq
<1>2. QED
  BY <1>1

(* What the steps but CreateRun do to the runs there are, and the answers. *)
LEMMA NumberKept ==
  ASSUME TypeInv, NumberInv, NEW s \in Servers,
         UNCHANGED <<rows, runs>>,
         \A t \in Servers \ {s} : UNCHANGED <<pc[t], number[t], knew[t]>>,
         \A t \in Servers : pc[t] # "off" => pc'[t] # "off" /\ site'[t] = site[t],
         pc'[s] = "checked" => pc[s] # "off" /\ HasAsked(s)'
  PROVE  RunsInserted' /\ (\A t \in Servers : HasAsked(t)') /\ SharedByRace'
<1>0. \A i \in DOMAIN runs : runs[i].by \in Servers /\ pc[runs[i].by] # "off"
  BY RunTypes DEF TypeInv, BookTypeOK, NumberInv, RunsInserted
<1>1. RunsInserted'
  BY <1>0 DEF NumberInv, RunsInserted
<1>2. ASSUME NEW t \in Servers PROVE HasAsked(t)'
  <2>1. CASE t = s
    BY <2>1 DEF HasAsked
  <2>2. CASE t # s
    BY <1>0, <2>2 DEF NumberInv, HasAsked
  <2>3. QED
    BY <2>1, <2>2
<1>3. SharedByRace'
  BY <1>0 DEF NumberInv, SharedByRace
<1>4. QED
  BY <1>1, <1>2, <1>3

LEMMA NumberCreated ==
  ASSUME TypeInv, NumberInv, NEW s \in Servers, CreateRun(s)
  PROVE  RunsInserted' /\ (\A t \in Servers : HasAsked(t)') /\ SharedByRace'
<1> DEFINE r == [by |-> s, n |-> number[s], knew |-> knew[s]]
<1>0. /\ pc \in [Servers -> Points] /\ pc[s] = "checked" /\ pc' = [pc EXCEPT ![s] = "launched"]
      /\ UNCHANGED site
      /\ number' = [number EXCEPT ![s] = 0] /\ knew' = [knew EXCEPT ![s] = {}]
      /\ number \in [Servers -> Nat] /\ knew \in [Servers -> SUBSET Nat]
      /\ runs \in Seq([by : Servers, n : Nat, knew : SUBSET Nat])
  BY DEF CreateRun, Goto, EndDialogue, TypeInv, BookTypeOK
<1>1. \A t \in Servers \ {s} : pc[t] = "checked" => site[t] # site[s]
  BY <1>0 DEF NumberInv, ServerListens, Serving
<1>2. CASE UNCHANGED <<rows, runs>>
  <2>1. pc'[s] # "checked" /\ \A t \in Servers : pc[t] # "off" => pc'[t] # "off"
    BY <1>0
  <2>2. \A t \in Servers \ {s} : UNCHANGED <<pc[t], number[t], knew[t]>>
    BY <1>0
  <2>3. QED
    BY <1>0, <1>2, <2>1, <2>2, NumberKept
<1>3. CASE number[s] # 0 /\ rows' = rows \cup {number[s]} /\ runs' = Append(runs, r)
  <2>1. /\ DOMAIN runs' = DOMAIN runs \cup {Len(runs) + 1} /\ DOMAIN runs = 1..Len(runs) /\ Len(runs) \in Nat
        /\ \A i \in DOMAIN runs : runs'[i] = runs[i] /\ runs[i].by \in Servers
        /\ runs'[Len(runs) + 1] = r
    <3>1. r \in [by : Servers, n : Nat, knew : SUBSET Nat]
      BY <1>0
    <3>2. QED
      BY ONLY <1>0, <1>3, <3>1, RunTypes
  <2>2. RunsInserted'
    BY <1>0, <1>3, <2>1 DEF NumberInv, RunsInserted
  <2>3. ASSUME NEW t \in Servers PROVE HasAsked(t)'
    BY <1>0, <1>1, <2>1 DEF NumberInv, HasAsked
  <2>4. ASSUME NEW i \in DOMAIN runs', NEW j \in DOMAIN runs', i < j, runs'[i].n = runs'[j].n
        PROVE  site[runs'[i].by] # site[runs'[j].by] /\ runs'[j].n \notin runs'[j].knew
    <3>1. i \in DOMAIN runs
      BY <2>1, <2>4
    <3>2. CASE j \in DOMAIN runs
      BY <2>1, <2>4, <3>1, <3>2 DEF NumberInv, SharedByRace
    <3>3. CASE j = Len(runs) + 1
      BY <1>0, <1>3, <2>1, <2>4, <3>1, <3>3 DEF NumberInv, HasAsked
    <3>4. QED
      BY <2>1, <3>2, <3>3
  <2>5. QED
    BY <1>0, <2>2, <2>3, <2>4 DEF SharedByRace
<1>4. QED
  BY <1>2, <1>3 DEF CreateRun

LEMMA NumberStep == TypeInv /\ NumberInv /\ [Next]_vars => NumberInv'
<1> SUFFICES ASSUME TypeInv, NumberInv, [Next]_vars
             PROVE  RunsInserted' /\ (\A t \in Servers : HasAsked(t)') /\ SharedByRace'
  BY ListensStep DEF NumberInv
<1>0. /\ pc \in [Servers -> Points] /\ site \in [Servers -> Sites \cup {NoOne}]
      /\ number \in [Servers -> Nat] /\ knew \in [Servers -> SUBSET Nat]
      /\ runs \in Seq([by : Servers, n : Nat, knew : SUBSET Nat])
  BY DEF TypeInv, BookTypeOK
<1>1. ASSUME NEW s \in Servers,
             \/ \E x \in Sites : CheckLock(s, x) \/ Refused(s, x)
             \/ WriteLock(s) \/ LoadInitial(s) \/ Bind(s) \/ BindFails(s) \/ Listen(s)
             \/ (\E x \in Setups : ChangeSetup(s, x))
             \/ NewRun(s) \/ GiveUp(s) \/ CheckNumber(s) \/ RunOver(s)
             \/ SaveSetup(s) \/ CloseSocket(s) \/ RemoveLock(s) \/ Dies(s)
      PROVE  RunsInserted' /\ (\A t \in Servers : HasAsked(t)') /\ SharedByRace'
  <2> USE <1>0 DEF Goto, places, dialogue, book, memory, EndDialogue
  <2>1. UNCHANGED <<rows, runs>>
    BY <1>1 DEF CheckLock, Refused, WriteLock, LoadInitial, Bind, BindFails, Listen, ChangeSetup,
                NewRun, GiveUp, CheckNumber, ChangeRun, RunOver, SaveSetup, CloseSocket, RemoveLock, Dies
  <2>2. \A t \in Servers \ {s} : pc'[t] = pc[t]
    BY <1>1 DEF CheckLock, Refused, WriteLock, LoadInitial, Bind, BindFails, Listen, ChangeSetup,
                NewRun, GiveUp, CheckNumber, ChangeRun, RunOver, SaveSetup, CloseSocket, RemoveLock,
                Dies, Ends
  <2>3. \A t \in Servers \ {s} : UNCHANGED <<number[t], knew[t]>>
    BY <1>1 DEF CheckLock, Refused, WriteLock, LoadInitial, Bind, BindFails, Listen, ChangeSetup,
                NewRun, GiveUp, CheckNumber, ChangeRun, RunOver, SaveSetup, CloseSocket, RemoveLock, Dies
  <2>4. pc'[s] # "off"
    BY <1>1 DEF CheckLock, Refused, WriteLock, LoadInitial, Bind, BindFails, Listen, ChangeSetup,
                NewRun, GiveUp, CheckNumber, ChangeRun, RunOver, SaveSetup, CloseSocket, RemoveLock,
                Dies, Ends
  <2>5. \A t \in Servers : pc[t] # "off" => site'[t] = site[t]
    BY <1>1 DEF CheckLock, Refused, WriteLock, LoadInitial, Bind, BindFails, Listen, ChangeSetup,
                NewRun, GiveUp, CheckNumber, ChangeRun, RunOver, SaveSetup, CloseSocket, RemoveLock, Dies
  <2>6. ASSUME pc'[s] = "checked" PROVE pc[s] # "off" /\ HasAsked(s)'
    <3>1. CheckNumber(s)
      BY <1>1, <2>6 DEF CheckLock, Refused, WriteLock, LoadInitial, Bind, BindFails, Listen,
                ChangeSetup, NewRun, GiveUp, RunOver, SaveSetup, CloseSocket, RemoveLock, Dies, Ends
    <3>2. /\ pc[s] = "dialogue" /\ UNCHANGED <<site, number>> /\ knew'[s] = rows
          /\ ~(number[s] # 0 /\ number[s] \in rows)
      BY <2>6, <3>1 DEF CheckNumber, ChangeRun, Ends
    <3>3. QED
      BY <2>1, <3>2 DEF HasAsked, NumberInv, RunsInserted
  <2>7. QED
    BY <2>1, <2>2, <2>3, <2>4, <2>5, <2>6, NumberKept
<1>2. ASSUME NEW s \in Servers, CreateRun(s)
      PROVE  RunsInserted' /\ (\A t \in Servers : HasAsked(t)') /\ SharedByRace'
  BY <1>2, NumberCreated
<1>3. CASE UNCHANGED vars
  <2>1. UNCHANGED <<pc, site, number, knew, rows, runs>>
    BY <1>3 DEF vars, book, dialogue
  <2>2. RunsInserted' /\ SharedByRace'
    BY <2>1 DEF NumberInv, RunsInserted, SharedByRace
  <2>3. ASSUME NEW t \in Servers PROVE HasAsked(t)'
    BY <2>1 DEF NumberInv, HasAsked
  <2>4. QED
    BY <2>2, <2>3
<1>4. QED
  BY <1>1, <1>2, <1>3 DEF Next

(* NumbersInOrder: the numbers in the table have no gap, and two runs have *)
(* the same, other than 0, only at different sites, the later of which had *)
(* asked before the earlier was inserted (Run.py:75,                       *)
(* RunControlServer.py:638).                                               *)
THEOREM NumbersNameRuns == Spec => []NumbersInOrder
<1>1. TypeInv /\ NumberInv => NumbersInOrder
  <2> SUFFICES ASSUME TypeInv, NumberInv PROVE NumbersInOrder
    OBVIOUS
  <2>1. PICK k \in Nat : rows = 1..k
    BY DEF TypeInv, RowsCounted, Counted
  <2>2. Cardinality(rows) = k
    BY <2>1, FS_Interval
  <2>3. QED
    BY <2>1, <2>2 DEF NumbersInOrder, NumberInv, SharedByRace
<1>2. QED
  BY NumberInit, NumberStep, BookTypesCorrect, <1>1, PTL DEF Spec
=============================================================================

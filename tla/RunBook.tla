------------------------------- MODULE RunBook -------------------------------
(***************************************************************************)
(* Several run control servers: how one gets to serve a site (create_lock_ *)
(* file, the port), what it leaves for the next (last_used_setup), how it  *)
(* changes setups, and how it numbers its runs in the database, which all  *)
(* sites share ("if more than one RunControl program is running at the     *)
(* same time", Run.py:74).                                                 *)
(*                                                                         *)
(* A site is a PADME_DAQ_DIR with its port.  A server is a process: it is  *)
(* started once, and its name is its pid.  What a run does once it is      *)
(* launched is in RunControl.  A file of one line is written in one step.  *)
(*                                                                         *)
(* Bounds: the servers ever started; MaxRuns runs launched or on the way.  *)
(***************************************************************************)
EXTENDS Naturals, Sequences, FiniteSetsExt

CONSTANTS
  Sites, Servers,
  Setups,    \* the directories in setup/, what read_setup_list returns
  Good,      \* those with a run.cfg, which read_setup can read
  NoOne,     \* no lock file, nobody listens, not started
  NoConfig,  \* a Run after set_default_config: no boards, trigger, merger None
  MaxRuns

ASSUME BookAssumption ==
  /\ Good # {} /\ Good \subseteq Setups
  /\ NoOne \notin Servers /\ NoConfig \notin Setups
  /\ MaxRuns \in Nat

VARIABLES
  pc,      \* what a server does
  site,    \* where it was started
  lock,    \* run/lock: the pid in it
  port,    \* who listens
  lus,     \* setup/last_used_setup
  setup,   \* run.setup
  config,  \* the setup run's lists of processes were made from
  number,  \* newrun_number, in new_run
  knew,    \* history: the numbers in the database when it asked is_run_in_db
  rows,    \* table run: the numbers inserted
  runs,    \* history: the numbered runs launched, one after the other
  raced    \* history: see CheckLock

places == <<lock, port, lus, raced>>
dialogue == <<number, knew>>
book == <<dialogue, rows, runs>>
memory == <<setup, config>>
vars == <<pc, site, memory, places, book>>

Goto(s, l) == pc' = [pc EXCEPT ![s] = l]
(* What a process had in its memory is gone with it, what new_run had in   *)
(* local variables is gone when it returns.                                *)
Forget(s) ==
  /\ setup' = [setup EXCEPT ![s] = NoConfig]
  /\ config' = [config EXCEPT ![s] = NoConfig]
Ends(s) ==
  /\ Goto(s, "dead") /\ Forget(s)
  /\ port' = IF port[site[s]] = s THEN [port EXCEPT ![site[s]] = NoOne] ELSE port
EndDialogue(s) ==
  /\ number' = [number EXCEPT ![s] = 0]
  /\ knew' = [knew EXCEPT ![s] = {}]
Serving == {"idle", "dialogue", "checked", "launched", "closing"}
Alive(s) == pc[s] \notin {"off", "dead"}
AliveAt(x) == {s \in Servers : Alive(s) /\ site[s] = x}

-----------------------------------------------------------------------------
(* The start of a server. *)

(***************************************************************************)
(* create_lock_file looks for a living process with the pid in the file.   *)
(* raced: while a server of the site is alive another one was past the     *)
(* check before the first had written the file.                            *)
(***************************************************************************)
CheckLock(s, x) ==
  /\ pc[s] = "off"
  /\ lock[x] \in Servers => ~Alive(lock[x])
  /\ site' = [site EXCEPT ![s] = x]
  /\ Goto(s, "locking")
  /\ raced' = [raced EXCEPT ![x] = /\ AliveAt(x) # {}
                                   /\ @ \/ \E t \in AliveAt(x) : pc[t] = "locking"]
  /\ UNCHANGED <<lock, port, lus, memory, book>>

(* The server is alive, or another program has got the pid of a dead one.  *)
Refused(s, x) ==
  /\ pc[s] = "off" /\ lock[x] \in Servers
  /\ site' = [site EXCEPT ![s] = x]
  /\ Goto(s, "dead")
  /\ UNCHANGED <<memory, places, book>>

WriteLock(s) ==
  /\ pc[s] = "locking"
  /\ lock' = [lock EXCEPT ![site[s]] = s]
  /\ Goto(s, "loading")
  /\ UNCHANGED <<site, port, lus, raced, memory, book>>

(* Mutant: the lists are emptied only when the new setup has been read.    *)
MutLoad(s, x) ==
  /\ setup' = [setup EXCEPT ![s] = x]
  /\ config' = [config EXCEPT ![s] = IF x \in Good THEN x ELSE @]

(* Run.change_setup *)
Load(s, x) ==
  /\ setup' = [setup EXCEPT ![s] = x]
  /\ config' = [config EXCEPT ![s] = IF x \in Good THEN x ELSE NoConfig]

(* An initial setup that cannot be read ends the server, and whatever lock *)
(* there is goes with it.                                                  *)
LoadInitial(s) ==
  LET x == lus[site[s]] IN
    /\ pc[s] = "loading"
    /\ IF x \in Good
       THEN Load(s, x) /\ Goto(s, "loaded") /\ UNCHANGED lock
       ELSE Forget(s) /\ Goto(s, "dead") /\ lock' = [lock EXCEPT ![site[s]] = NoOne]
    /\ UNCHANGED <<site, port, lus, raced, book>>

(* With SO_REUSEADDR bind fails only if somebody listens already.          *)
Bind(s) ==
  /\ pc[s] = "loaded" /\ port[site[s]] = NoOne
  /\ Goto(s, "bound")
  /\ UNCHANGED <<site, memory, places, book>>

(* final_cleanup saves the setup, then the shutdown of a socket that is    *)
(* not connected raises: the lock file stays.                              *)
BindFails(s) ==
  /\ pc[s] = "loaded" /\ port[site[s]] # NoOne
  /\ lus' = [lus EXCEPT ![site[s]] = setup[s]]
  /\ Goto(s, "dead") /\ Forget(s)
  /\ UNCHANGED <<site, lock, port, raced, book>>

(* listen raises if the other one was first. *)
Listen(s) ==
  /\ pc[s] = "bound"
  /\ IF port[site[s]] = NoOne
     THEN Goto(s, "idle") /\ port' = [port EXCEPT ![site[s]] = s] /\ UNCHANGED memory
     ELSE Goto(s, "dead") /\ Forget(s) /\ UNCHANGED port
  /\ UNCHANGED <<site, lock, lus, raced, book>>

-----------------------------------------------------------------------------
(* Commands. *)

(* Mutant: the new setup is saved at the server's end only. *)
MutChangeSetup(s, x) ==
  /\ pc[s] = "idle"
  /\ Load(s, x)
  /\ UNCHANGED <<pc, site, places, book>>

(* change_setup: last_used_setup is written only if all went well. *)
ChangeSetup(s, x) ==
  /\ pc[s] = "idle"
  /\ Load(s, x)
  /\ lus' = IF x \in Good THEN [lus EXCEPT ![site[s]] = x] ELSE lus
  /\ UNCHANGED <<pc, site, lock, port, raced, book>>

LastRun == Max({0} \cup rows)
OnTheWay == {s \in Servers : pc[s] \in {"dialogue", "checked"}}

(* new_run reads the number before its questions; a FAKE run has number 0. *)
NewRun(s) ==
  /\ pc[s] = "idle"
  /\ Len(runs) + Cardinality(OnTheWay) < MaxRuns
  /\ \E n \in {0, LastRun + 1} : number' = [number EXCEPT ![s] = n]
  /\ Goto(s, "dialogue")
  /\ UNCHANGED <<site, memory, places, knew, rows, runs>>

(* The client leaves, or answers what is not known. *)
GiveUp(s) ==
  /\ pc[s] = "dialogue"
  /\ Goto(s, "idle") /\ EndDialogue(s)
  /\ UNCHANGED <<site, memory, places, rows, runs>>

(* Run.change_run up to create_run_in_db, with or without the check.       *)
ChangeRun(s, taken) ==
  /\ pc[s] = "dialogue"
  /\ CASE taken -> Goto(s, "idle") /\ EndDialogue(s) /\ UNCHANGED <<memory, port>>
       [] ~taken /\ config[s] # NoConfig ->
            Goto(s, "checked") /\ knew' = [knew EXCEPT ![s] = rows] /\ UNCHANGED <<number, memory, port>>
       [] OTHER -> EndDialogue(s) /\ Ends(s)
  /\ UNCHANGED <<site, lock, lus, raced, rows, runs>>

(* Mutant: the number read at the beginning is not checked. *)
MutCheckNumber(s) == ChangeRun(s, FALSE)

(* Without a merger to configure change_run raises, and nobody catches     *)
(* that.                                                                   *)
CheckNumber(s) == ChangeRun(s, number[s] # 0 /\ number[s] \in rows)

(* create_run: number is the key of the table; that the INSERT failed is   *)
(* printed, and the run is launched all the same.  The return to idle of   *)
(* Run.py:125 is never taken: what could fail in create_run_in_db is       *)
(* commented out, in each create_... (ADCBoard.py:349, 366, Trigger.py,    *)
(* Merger.py, Level1.py), and they return "ok".                            *)
CreateRun(s) ==
  /\ pc[s] = "checked"
  /\ IF number[s] = 0
     THEN UNCHANGED <<rows, runs>>
     ELSE /\ rows' = rows \cup {number[s]}
          /\ runs' = Append(runs, [by |-> s, n |-> number[s], knew |-> knew[s]])
  /\ Goto(s, "launched") /\ EndDialogue(s)
  /\ UNCHANGED <<site, memory, places>>

RunOver(s) ==
  /\ pc[s] = "launched"
  /\ Goto(s, "idle")
  /\ UNCHANGED <<site, memory, places, book>>

(* shutdown or SIGINT: final_cleanup in three steps. *)
SaveSetup(s) ==
  /\ pc[s] \in Serving \ {"closing"}
  /\ lus' = [lus EXCEPT ![site[s]] = setup[s]]
  /\ Goto(s, "closing") /\ EndDialogue(s)
  /\ UNCHANGED <<site, lock, port, raced, memory, rows, runs>>

CloseSocket(s) ==
  /\ pc[s] = "closing"
  /\ port' = [port EXCEPT ![site[s]] = NoOne]
  /\ Goto(s, "closed")
  /\ UNCHANGED <<site, lock, lus, raced, memory, book>>

(* The lock file is removed, whosoever it is. *)
RemoveLock(s) ==
  /\ pc[s] = "closed"
  /\ lock' = [lock EXCEPT ![site[s]] = NoOne]
  /\ Goto(s, "dead") /\ Forget(s)
  /\ UNCHANGED <<site, port, lus, raced, book>>

(* Killed, or an exception nobody catches (the connection, the database).  *)
Dies(s) ==
  /\ Alive(s)
  /\ Ends(s) /\ EndDialogue(s)
  /\ UNCHANGED <<site, lock, lus, raced, rows, runs>>

-----------------------------------------------------------------------------
Init ==
  /\ pc = [s \in Servers |-> "off"]
  /\ site = [s \in Servers |-> NoOne]
  /\ lock = [x \in Sites |-> NoOne]
  /\ port = [x \in Sites |-> NoOne]
  /\ \E g \in Good : lus = [x \in Sites |-> g]
  /\ setup = [s \in Servers |-> NoConfig]
  /\ config = [s \in Servers |-> NoConfig]
  /\ number = [s \in Servers |-> 0]
  /\ knew = [s \in Servers |-> {}]
  /\ rows = {}
  /\ runs = <<>>
  /\ raced = [x \in Sites |-> FALSE]

Next ==
  \E s \in Servers :
    \/ \E x \in Sites : CheckLock(s, x) \/ Refused(s, x)
    \/ WriteLock(s) \/ LoadInitial(s) \/ Bind(s) \/ BindFails(s) \/ Listen(s)
    \/ \E x \in Setups : ChangeSetup(s, x)
    \/ NewRun(s) \/ GiveUp(s) \/ CheckNumber(s) \/ CreateRun(s) \/ RunOver(s)
    \/ SaveSetup(s) \/ CloseSocket(s) \/ RemoveLock(s) \/ Dies(s)

Spec == Init /\ [][Next]_vars

-----------------------------------------------------------------------------
(* Properties. *)

(***************************************************************************)
(* The lock file names the one server of the site, and last_used_setup the *)
(* setup of the one that serves, through changes, exits, deaths and        *)
(* restarts; but not if two servers were ever in create_lock_file at once  *)
(* (RunControlServer.py:128): the one that fails to bind leaves its pid    *)
(* and its setup in the files, so that more get past the lock for as long  *)
(* as there is a server.  A setup that failed to load is in use, though    *)
(* not saved (RunControlServer.py:603).                                    *)
(***************************************************************************)
LockNamesServer(s) == pc[s] # "locking" => lock[site[s]] = s
SetupRemembered(s) == pc[s] \in Serving => lus[site[s]] = setup[s] \/ config[s] = NoConfig

SiteInOrder ==
  \A s \in Servers : Alive(s) /\ ~raced[site[s]] => LockNamesServer(s) /\ SetupRemembered(s)

(***************************************************************************)
(* The numbers in the database are without gap, whoever died where.  Two   *)
(* runs share a number, FAKE runs apart, only if two sites launched them   *)
(* at once: the later had asked before the earlier was inserted (Run.py:   *)
(* 75, RunControlServer.py:638).  Within a site they never do, even if the *)
(* lock was raced.                                                         *)
(***************************************************************************)
NumbersInOrder ==
  /\ rows = 1..Cardinality(rows)
  /\ \A i, j \in DOMAIN runs :
       i < j /\ runs[i].n = runs[j].n /\ runs[i].n # 0
         => site[runs[i].by] # site[runs[j].by] /\ runs[j].n \notin runs[j].knew

(***************************************************************************)
(* A run is never launched with the processes of another setup than the    *)
(* one it is said to have, whatever changes of setup failed before (Run.   *)
(* py:631).                                                                *)
(***************************************************************************)
RunsAsNamed == \A s \in Servers : pc[s] = "launched" => config[s] = setup[s]

==============================================================================

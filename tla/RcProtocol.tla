----------------------------- MODULE RcProtocol -----------------------------
(***************************************************************************)
(* The dialogue of RunControlServer with its text clients over TCP.        *)
(*                                                                         *)
(* A client is at a point of its own program: at a prompt, where the       *)
(* operator types, or waiting for a message of a certain kind.  The server *)
(* serves one client at a time, the others wait in the backlog of the      *)
(* listening socket.  A message is its kind, followed by nothing the       *)
(* programs look at.  What the commands do to the processes of the run is  *)
(* the subject of RunControl; here their outcome is any that it allows.    *)
(***************************************************************************)
EXTENDS Naturals, Sequences

CONSTANTS
  Clients,    \* the clients, each run once
  NoClient,   \* no client is being served
  MaxProgress, \* bound: progress messages of one command
  MaxTyped,   \* bound: lines typed at the prompts of main_loop
  Sigint      \* bound: the server may receive SIGINT

ASSUME ClientsAssumption  == NoClient \notin Clients
ASSUME BoundsAssumption   == MaxProgress \in Nat \ {0} /\ MaxTyped \in Nat
ASSUME SigintAssumption   == Sigint \in BOOLEAN

VARIABLES
  at,     \* at[c]: the point of client c's program
  typed,  \* how many lines were typed at the prompts of main_loop
  said,   \* history, said[c]: the run type c is waiting for an answer to
  told,   \* history, told[c]: the state c was told of last
  c2s,    \* c2s[c], s2c[c]: messages on the way from and to client c
  s2c,
  open,   \* the clients whose connection the server has not closed
  backlog, \* the connections the server has not accepted yet
  caller, \* the client being served
  srv,    \* the point of the server's program
  state,  \* current_state
  next,   \* the state the command being executed leads to
  out     \* what the server has still to send before it goes on

clientVars == <<at, typed, said, told>>
netVars    == <<c2s, s2c, open, backlog>>
serverVars == <<caller, srv, state, next, out>>
protoVars  == <<clientVars, netVars, serverVars>>

RunStates == {"idle", "initialized", "running"}

Commands == {"new_run", "start_run", "stop_run", "abort_run", "shutdown",
             "get_state", "query", "client_close"}
\* What may be typed at the prompts of new_run and stop_run.
RunTypes == {"good_type", "bad_type", "error", "client_close"}
Texts    == {"text", "client_close"}

Final    == {"init_ready", "init_fail", "init_timeout", "run_started",
             "terminate_ok", "terminate_error"}
Answers  == RunStates \cup Final \cup
            {"setup", "run_types", "good_type", "error", "run_number", "shift_crew",
             "run_comment", "init_start", "init_error", "progress", "run_comment_end",
             "exiting", "answer", "unknown command"}

Prompts  == {"prompt", "ask_type", "ask_crew", "ask_comment", "ask_end"}
Waits    == {"setup", "types", "type", "number", "crew", "comment", "start", "init",
             "abort", "start_run", "get_state", "stop", "term", "answer", "bye"}
Reading  == {"cmd", "type", "crew", "comment", "end"}

-----------------------------------------------------------------------------
(* The client. *)

Connect(c) ==
  /\ at[c] = "off" /\ srv # "dead"
  /\ at' = [at EXCEPT ![c] = "prompt"]
  /\ backlog' = Append(backlog, c)
  /\ open' = open \cup {c}
  /\ UNCHANGED <<typed, said, told, c2s, s2c, serverVars>>

ConnectFails(c) ==
  /\ at[c] = "off" /\ srv = "dead"
  /\ at' = [at EXCEPT ![c] = "gone"]
  /\ UNCHANGED <<typed, said, told, netVars, serverVars>>

Send(c, m, p) ==
  /\ c2s' = [c2s EXCEPT ![c] = Append(@, m)]
  /\ at' = [at EXCEPT ![c] = p]

\* Where main_loop goes with a line typed at the prompt.
WaitFor(m) ==
  CASE m = "new_run"   -> "setup"
    [] m = "start_run" -> "start_run"
    [] m = "stop_run"  -> "stop"
    [] m = "abort_run" -> "abort"
    [] m = "shutdown"  -> "bye"
    [] OTHER           -> "answer"

TypeCommand(c) ==
  /\ at[c] = "prompt" /\ typed < MaxTyped
  /\ typed' = typed + 1
  /\ \E m \in Commands : Send(c, m, WaitFor(m))
  /\ UNCHANGED <<said, told, s2c, open, backlog, serverVars>>

TypeReply(c) ==
  /\ \/ at[c] = "ask_type" /\ \E m \in RunTypes :
          Send(c, m, "type") /\ said' = [said EXCEPT ![c] = m]
     \/ /\ \/ at[c] = "ask_crew"    /\ \E m \in Texts : Send(c, m, "comment")
           \/ at[c] = "ask_comment" /\ \E m \in Texts : Send(c, m, "start")
           \/ at[c] = "ask_end"     /\ \E m \in Texts : Send(c, m, "term")
        /\ said' = said
  /\ UNCHANGED <<typed, told, s2c, open, backlog, serverVars>>

\* The client's next point when it reads m: anything it does not expect
\* takes it back to its prompt, unless it is in a loop that prints it.
AfterMessage(p, m) ==
  LET expected(x, q) == IF m = x THEN q ELSE "prompt"
  IN CASE p = "setup"   -> expected("setup", "types")
       [] p = "types"   -> expected("run_types", "ask_type")
       [] p = "type"    -> IF m = "error" THEN "prompt" ELSE "number"
       [] p = "number"  -> expected("run_number", "crew")
       [] p = "crew"    -> expected("shift_crew", "ask_crew")
       [] p = "comment" -> expected("run_comment", "ask_comment")
       [] p = "start"   -> expected("init_start", "init")
       [] p = "init"    -> IF m \in {"init_ready", "init_fail", "init_timeout"}
                           THEN "prompt" ELSE "init"
       [] p = "start_run" -> IF m = "run_started" THEN "prompt"
                             ELSE IF m = "unknown command" THEN "get_state" ELSE p
       [] p = "stop"    -> expected("run_comment_end", "ask_end")
       [] p \in {"abort", "term"} -> IF m \in {"terminate_ok", "terminate_error"}
                                     THEN "prompt" ELSE p
       [] p = "bye"     -> "gone"
       [] OTHER         -> "prompt"

\* What a message says of the run, if it says anything.
Says(p, m, old) ==
  CASE m \in RunStates -> m
    [] m = "init_ready" /\ p = "init" -> "initialized"
    [] m = "run_started" /\ p = "start_run" -> "running"
    [] m \in {"init_fail", "init_timeout"} /\ p = "init" -> "idle"
    [] m \in {"terminate_ok", "terminate_error"} /\ p \in {"abort", "term"} -> "idle"
    [] OTHER -> old

Receive(c) ==
  /\ at[c] \in Waits /\ s2c[c] # <<>>
  /\ LET m == Head(s2c[c])
         p == AfterMessage(at[c], m)
     IN /\ said' = [said EXCEPT ![c] = IF at[c] = "type" THEN "none" ELSE @]
        /\ at' = [at EXCEPT ![c] = p]
        /\ s2c' = [s2c EXCEPT ![c] = Tail(@)]
        /\ told' = [told EXCEPT ![c] = IF p = "gone" THEN "unknown" ELSE Says(at[c], m, @)]
        /\ c2s' = IF p = "get_state" THEN [c2s EXCEPT ![c] = Append(@, "get_state")] ELSE c2s
  /\ UNCHANGED <<typed, open, backlog, serverVars>>

Gone(c) ==
  /\ at' = [at EXCEPT ![c] = "gone"]
  /\ told' = [told EXCEPT ![c] = "unknown"]
  /\ UNCHANGED <<typed, said, netVars, serverVars>>

\* error_exit: the server closed the connection.
EndOfFile(c) ==
  /\ at[c] \in Waits /\ s2c[c] = <<>> /\ c \notin open
  /\ Gone(c)

\* The operator quits at the prompt, or interrupts the client anywhere.
Quit(c) ==
  /\ at[c] \in Prompts \cup Waits
  /\ Gone(c)

-----------------------------------------------------------------------------
(* The server. *)

\* Messages wait for c that it will never read: the kernel resets the connection.
Reset(c) == at[c] = "gone" /\ s2c[c] # <<>>

Accept ==
  /\ srv = "accept" /\ backlog # <<>>
  /\ caller' = Head(backlog)
  /\ backlog' = Tail(backlog)
  /\ srv' = "cmd"
  /\ UNCHANGED <<clientVars, c2s, s2c, open, state, next, out>>

SendAnswer ==
  /\ out # <<>>
  /\ s2c' = [s2c EXCEPT ![caller] = Append(@, Head(out))]
  /\ out' = Tail(out)
  /\ UNCHANGED <<clientVars, c2s, open, backlog, caller, srv, state, next>>

\* send_answer and get_command do not catch the exception of a lost connection.
Dies ==
  /\ srv' = "dead" /\ caller' = NoClient /\ out' = <<>>
  /\ open' = {} /\ backlog' = <<>>
  /\ UNCHANGED <<clientVars, c2s, s2c, state, next>>

ConnectionError ==
  /\ out # <<>> \/ srv \in Reading
  /\ caller # NoClient /\ Reset(caller)
  /\ Dies

Ready(p) == srv = p /\ out = <<>> /\ state = next

\* Mutant: the socket is not closed.
MutHangUp ==
  /\ open' = open
  /\ caller' = NoClient
  /\ srv' = "accept"

\* main_loop closes the connection and waits for another client.
HangUp ==
  /\ open' = open \ {caller}
  /\ caller' = NoClient
  /\ srv' = "accept"

\* The client is gone, or has sent the word that get_command returns for that.
ClientClose ==
  /\ srv \in Reading /\ out = <<>> /\ state = next
  /\ \/ c2s[caller] = <<>> /\ at[caller] = "gone" /\ c2s' = c2s
     \/ /\ c2s[caller] # <<>> /\ Head(c2s[caller]) = "client_close"
        /\ c2s' = [c2s EXCEPT ![caller] = Tail(@)]
  /\ HangUp
  /\ UNCHANGED <<clientVars, s2c, backlog, state, next, out>>

Get(p, m) ==
  /\ Ready(p) /\ c2s[caller] # <<>>
  /\ m = Head(c2s[caller]) /\ m # "client_close"
  /\ c2s' = [c2s EXCEPT ![caller] = Tail(@)]
  /\ UNCHANGED <<clientVars, s2c, open, backlog, caller, state>>

Say(msgs, p, s) ==
  /\ out' = msgs
  /\ srv' = p
  /\ next' = s

Progress(n) == [i \in 1..n |-> "progress"]

\* terminate_run and its answers.
Terminated == {Append(Progress(n), m) : n \in 1..MaxProgress,
                                        m \in {"terminate_ok", "terminate_error"}}

NewRun ==
  /\ state = "idle"
  /\ Get("cmd", "new_run")
  /\ Say(<<"setup", "run_types">>, "type", state)

StartRun ==
  /\ state = "initialized"
  /\ Get("cmd", "start_run")
  /\ Say(<<"run_started">>, "cmd", "running")

\* Mutant: the new state is not returned to main_loop.
MutAbortRun ==
  /\ state = "initialized"
  /\ Get("cmd", "abort_run")
  /\ \E msgs \in Terminated : Say(msgs, "cmd", state)

AbortRun ==
  /\ state = "initialized"
  /\ Get("cmd", "abort_run")
  /\ \E msgs \in Terminated : Say(msgs, "cmd", "idle")

StopRun ==
  /\ state = "running"
  /\ Get("cmd", "stop_run")
  /\ Say(<<"run_comment_end">>, "end", state)

GetState ==
  /\ Get("cmd", "get_state")
  /\ Say(<<state>>, "cmd", state)

\* Mutant: found_re is not set.
MutQuery ==
  /\ Get("cmd", "query")
  /\ Say(<<"answer", "unknown command">>, "cmd", state)

Query ==
  /\ Get("cmd", "query")
  /\ Say(<<"answer">>, "cmd", state)

Shutdown ==
  /\ Get("cmd", "shutdown")
  /\ Say(<<"exiting">>, "exit", state)

Known == {"get_state", "query", "shutdown"} \cup
         CASE state = "idle"        -> {"new_run"}
           [] state = "initialized" -> {"start_run", "abort_run"}
           [] state = "running"     -> {"stop_run"}

UnknownCommand ==
  /\ \E m \in (Commands \cup RunTypes \cup Texts) \ Known : Get("cmd", m)
  /\ Say(<<"unknown command">>, "cmd", state)

\* Mutant: an unknown run type is not answered.
MutRunType ==
  \E m \in Commands \cup RunTypes \cup Texts :
    /\ Get("type", m)
    /\ IF m = "good_type" THEN Say(<<m, "run_number", "shift_crew">>, "crew", state)
       ELSE Say(<<>>, "cmd", state)

\* new_run: the run type, and the refusal of one that is not known.  The word
\* error is taken for the client's own and is not answered.
RunType ==
  \E m \in Commands \cup RunTypes \cup Texts :
    /\ Get("type", m)
    /\ IF m = "good_type" THEN Say(<<m, "run_number", "shift_crew">>, "crew", state)
       ELSE Say(IF m = "error" THEN <<>> ELSE <<"error">>, "cmd", state)

ShiftCrew ==
  /\ \E m \in Commands \cup RunTypes \cup Texts : Get("crew", m)
  /\ Say(<<"run_comment">>, "comment", state)

\* change_run fails, or the initialisation starts.
RunComment ==
  /\ \E m \in Commands \cup RunTypes \cup Texts : Get("comment", m)
  /\ \/ Say(<<"init_error">>, "cmd", state)
     \/ Say(<<"init_start">>, "launch", state)

\* Mutant: a timeout does not end the initialisation.
MutLaunch ==
  /\ Ready("launch")
  /\ \E n \in 0..MaxProgress, m \in {"init_ready", "init_timeout"} :
       Say(Append(Progress(n), m), "cmd", "initialized")
  /\ UNCHANGED <<clientVars, netVars, caller, state>>

Launch ==
  /\ Ready("launch")
  /\ \E n \in 0..MaxProgress :
       \/ Say(Append(Progress(n), "init_ready"), "cmd", "initialized")
       \/ \E m \in {"init_fail", "init_timeout"} : Say(Append(Progress(n), m), "cmd", "idle")
  /\ UNCHANGED <<clientVars, netVars, caller, state>>

RunCommentEnd ==
  /\ \E m \in Commands \cup RunTypes \cup Texts : Get("end", m)
  /\ \E msgs \in Terminated : Say(msgs, "cmd", "idle")

\* The handler returns to main_loop, which notes the new state.
NewState ==
  /\ out = <<>> /\ state # next /\ srv = "cmd"
  /\ state' = next
  /\ UNCHANGED <<clientVars, netVars, caller, srv, next, out>>

\* After shutdown the server ends, whatever terminate_run then does.
Exit ==
  /\ srv = "exit" /\ out = <<>>
  /\ Dies

\* The handler runs terminate_run on the connection, if there is one.
SigintHandler ==
  /\ Sigint /\ srv \notin {"sigint", "exit", "dead"}
  /\ srv' = "sigint"
  /\ IF state = "idle" THEN out' = <<>> /\ next' = next
     ELSE /\ next' = "idle"
          /\ IF caller = NoClient THEN out' = <<>> ELSE out' \in Terminated
  /\ UNCHANGED <<clientVars, netVars, caller, state>>

SigintExit ==
  /\ srv = "sigint" /\ out = <<>>
  /\ Dies

ServerNext ==
  \/ Accept \/ SendAnswer \/ ConnectionError \/ ClientClose
  \/ NewRun \/ StartRun \/ AbortRun \/ StopRun \/ GetState \/ Query \/ Shutdown
  \/ UnknownCommand \/ RunType \/ ShiftCrew \/ RunComment \/ Launch \/ RunCommentEnd
  \/ NewState \/ Exit \/ SigintExit

ClientNext(c) ==
  \/ Connect(c) \/ ConnectFails(c) \/ TypeCommand(c) \/ TypeReply(c)
  \/ Receive(c) \/ EndOfFile(c) \/ Quit(c)

ProtoInit ==
  /\ at = [c \in Clients |-> "off"]
  /\ typed = 0
  /\ told = [c \in Clients |-> "unknown"]
  /\ said = [c \in Clients |-> "none"]
  /\ c2s = [c \in Clients |-> <<>>]
  /\ s2c = [c \in Clients |-> <<>>]
  /\ open = {} /\ backlog = <<>>
  /\ caller = NoClient /\ srv = "accept"
  /\ state = "idle" /\ next = "idle" /\ out = <<>>

ProtoNext == ServerNext \/ SigintHandler \/ \E c \in Clients : ClientNext(c)

ProtoSpec == ProtoInit /\ [][ProtoNext]_protoVars

(* The server runs, the kernel delivers, and a client that can read does;  *)
(* operators need not type.                                                *)
ProtoFairSpec ==
  /\ ProtoSpec
  /\ WF_protoVars(ServerNext)
  /\ \A c \in Clients : WF_protoVars(Receive(c) \/ EndOfFile(c))

-----------------------------------------------------------------------------
(* Every variable keeps its type: messages are answers, points are points. *)
ProtoTypeOK ==
  /\ at \in [Clients -> {"off", "gone"} \cup Prompts \cup Waits]
  /\ typed \in 0..MaxTyped
  /\ said \in [Clients -> RunTypes \cup {"none"}]
  /\ told \in [Clients -> RunStates \cup {"unknown"}]
  /\ c2s \in [Clients -> Seq(Commands \cup RunTypes \cup Texts)]
  /\ s2c \in [Clients -> Seq(Answers)]
  /\ open \subseteq Clients
  /\ backlog \in Seq(Clients)
  /\ caller \in Clients \cup {NoClient}
  /\ srv \in {"accept", "launch", "exit", "sigint", "dead"} \cup Reading
  /\ state \in RunStates /\ next \in RunStates
  /\ out \in Seq(Answers)

(* Each reads from the other and nothing is on the way: neither will ever  *)
(* move unless the operator interrupts the client.                         *)
MutualWait ==
  /\ srv \in Reading /\ out = <<>> /\ state = next
  /\ at[caller] \in Waits
  /\ c2s[caller] = <<>> /\ s2c[caller] = <<>>

(* Client and server never wait for each other, but for two commands: an   *)
(* abort_run that is refused, whose refusal the client takes for one more  *)
(* progress line (RunControlText.py:226-236), and the run type error,      *)
(* which new_run does not answer (RunControlServer.py:643-645).            *)
MutualWaitKnown ==
  MutualWait => /\ srv = "cmd"
                /\ \/ at[caller] = "abort" /\ state # "initialized"
                   \/ at[caller] = "type" /\ said[caller] = "error"

\* What a client is waiting for.
Expected(p) ==
  CASE p = "setup"     -> {"setup"}
    [] p = "types"     -> {"run_types"}
    [] p = "type"      -> {"good_type", "error"}
    [] p = "number"    -> {"run_number"}
    [] p = "crew"      -> {"shift_crew"}
    [] p = "comment"   -> {"run_comment"}
    [] p = "start"     -> {"init_start", "init_error"}
    [] p = "init"      -> {"progress", "init_ready", "init_fail", "init_timeout"}
    [] p = "start_run" -> {"run_started"}
    [] p = "get_state" -> RunStates
    [] p = "stop"      -> {"run_comment_end"}
    [] p \in {"abort", "term"} -> {"progress", "terminate_ok", "terminate_error"}
    [] p = "bye"       -> {"exiting"}
    [] OTHER           -> RunStates \cup {"answer"}

\* The commands that the server may refuse.
Refusable == {"setup", "start_run", "stop", "abort"}

(* The two programs never fall out of step: every message a client reads   *)
(* is one that its point of the dialogue expects, or the refusal of the    *)
(* command it has just sent, and no message is left over when it is back   *)
(* at a prompt.  Only the answers that the SIGINT handler sends unasked    *)
(* break this, and after them the server is gone (RunControlServer.py:200).*)
InStep ==
  srv \notin {"sigint", "dead"} =>
    \A c \in Clients :
      /\ at[c] \in Prompts => s2c[c] = <<>> /\ c2s[c] = <<>>
      /\ at[c] \in Waits /\ s2c[c] # <<>> =>
           \/ Head(s2c[c]) \in Expected(at[c])
           \/ Head(s2c[c]) = "unknown command" /\ at[c] \in Refusable

(* What the client being served was told last, by a state, an init_ready,  *)
(* a run_started or a terminate message, is still so when its operator is  *)
(* asked for the next line.                                                *)
ToldIsTrue ==
  \A c \in Clients :
    c = caller /\ srv # "sigint" /\ at[c] \in Prompts /\ told[c] # "unknown" => told[c] = next

(* A client that is being served and waits for an answer gets back to a    *)
(* prompt or ends, whatever becomes of the server, or is in one of the     *)
(* mutual waits above.                                                     *)
Answered ==
  \A c \in Clients :
    c = caller /\ at[c] \in Waits ~> at[c] \notin Waits \/ MutualWait

(* The dialogue keeps what the protocol promises without messages: each    *)
(* speaks in its turn, and the run changes only on behalf of the client    *)
(* being served, while that client waits for it.                           *)
Turn(c) == IF at[c] \in {"off", "gone"} THEN "none"
           ELSE IF at[c] \in Prompts THEN "client" ELSE "server"

TT == INSTANCE TurnTaking WITH
        turn <- [c \in Clients |-> Turn(c)],
        state <- next,
        up <- srv \notin {"sigint", "dead"}

TakesTurns == TT!TTSpec
=============================================================================

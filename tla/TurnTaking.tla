----------------------------- MODULE TurnTaking -----------------------------
(***************************************************************************)
(* What the text protocol between the run control server and its clients   *)
(* promises, without messages: who may speak, who may change the state of  *)
(* the run, and what a client has been told about it.                      *)
(*                                                                         *)
(* A client speaks only in its own turn and then waits.  The state of the  *)
(* run changes only on behalf of the client being served, while it is not  *)
(* the client's turn, and only along the edges of the run's life; a client *)
(* that is told a state is told the present one.  Only an interrupt of the *)
(* server ends the run out of turn, and is the last thing that it does.    *)
(***************************************************************************)
CONSTANTS
  Clients,   \* the clients
  NoClient   \* no client is being served (not one of Clients)

VARIABLES
  turn,      \* turn[c]: whose turn it is in c's conversation
  caller,    \* the client being served
  state,     \* the state of the run
  up,        \* the server takes commands
  told       \* told[c]: the state c was told of last

ttVars == <<turn, caller, state, up, told>>

RunStates == {"idle", "initialized", "running"}

Edges == {<<"idle", "initialized">>, <<"initialized", "running">>,
          <<"initialized", "idle">>, <<"running", "idle">>}

TTInit ==
  /\ turn = [c \in Clients |-> "none"]
  /\ caller = NoClient
  /\ state = "idle"
  /\ up = TRUE
  /\ told = [c \in Clients |-> "unknown"]

Connect(c) ==
  /\ turn[c] = "none"
  /\ turn' = [turn EXCEPT ![c] = "client"]
  /\ UNCHANGED <<caller, state, up, told>>

Serve(c) ==
  /\ up /\ caller = NoClient
  /\ caller' = c
  /\ UNCHANGED <<turn, state, up, told>>

Speak(c) ==
  /\ turn[c] = "client"
  /\ turn' = [turn EXCEPT ![c] = "server"]
  /\ UNCHANGED <<caller, state, up, told>>

Execute(c) ==
  /\ up /\ caller = c
  /\ turn[c] # "client"
  /\ <<state, state'>> \in Edges
  /\ UNCHANGED <<turn, caller, up, told>>

\* A question, or an answer that says nothing of the state.
Reply(c) ==
  /\ turn[c] = "server"
  /\ turn' = [turn EXCEPT ![c] = "client"]
  /\ UNCHANGED <<caller, state, up, told>>

\* The answer may be read after the server has hung up.
Tell(c) ==
  /\ turn[c] = "server"
  /\ turn' = [turn EXCEPT ![c] = "client"]
  /\ \E s \in RunStates : (up => s = state) /\ told' = [told EXCEPT ![c] = s]
  /\ UNCHANGED <<caller, state, up>>

Leave(c) ==
  /\ turn[c] # "none"
  /\ turn' = [turn EXCEPT ![c] = "none"]
  /\ told' = [told EXCEPT ![c] = "unknown"]
  /\ UNCHANGED <<caller, state, up>>

\* The server closes the connection, or ends.
HangUp ==
  /\ caller # NoClient
  /\ caller' = NoClient
  /\ up' \in {up, FALSE}
  /\ UNCHANGED <<turn, state, told>>

Interrupt ==
  /\ up /\ ~up'
  /\ state' \in {state, "idle"}
  /\ UNCHANGED <<turn, caller, told>>

TTNext ==
  \/ \E c \in Clients :
       Connect(c) \/ Serve(c) \/ Speak(c) \/ Execute(c) \/ Reply(c) \/ Tell(c) \/ Leave(c)
  \/ HangUp \/ Interrupt

TTSpec == TTInit /\ [][TTNext]_ttVars
=============================================================================

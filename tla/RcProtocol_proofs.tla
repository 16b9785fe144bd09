------------------------- MODULE RcProtocol_proofs -------------------------
(***************************************************************************)
(* Proofs about RcProtocol, for any clients and any bounds, and with or    *)
(* without a SIGINT.                                                       *)
(***************************************************************************)
EXTENDS RcProtocol, SequenceTheorems, TLAPS

Up == srv \notin {"sigint", "dead"}

(***************************************************************************)
(* The server's own part: who is served where, and in which state of the   *)
(* run each handler is at work.                                            *)
(***************************************************************************)
ServerInv ==
  /\ Up => (srv = "accept" <=> caller = NoClient)
  /\ Up /\ srv \in {"type", "crew", "comment", "launch"} => next = "idle"
  /\ Up /\ srv = "end" => next = "running"
  /\ Up /\ state # next => srv = "cmd"
  /\ out # <<>> => caller # NoClient
  /\ srv = "dead" => caller = NoClient
  /\ ~Up => \A i \in DOMAIN out : out[i] \notin RunStates

(* A connection is in the backlog once, and not while it is served.        *)
BacklogInv ==
  /\ \A i \in DOMAIN backlog : backlog[i] # caller /\ at[backlog[i]] # "off"
  /\ \A i, j \in DOMAIN backlog : backlog[i] = backlog[j] => i = j
  /\ caller # NoClient => at[caller] # "off"

(* A state is the only answer to the question that asks for it.            *)
StatesRead ==
  \A c \in Clients : \A i \in DOMAIN s2c[c] :
    s2c[c][i] \in RunStates => at[c] = "gone" \/ (i = 1 /\ at[c] \in {"answer", "get_state"})

\* Progress messages up to one of last.
Ends(w, last) ==
  /\ w # <<>> /\ w[Len(w)] \in last
  /\ \A i \in 1 .. Len(w) - 1 : w[i] = "progress"

InitEnds(w) ==
  \/ Ends(w, {"init_ready"}) /\ next = "initialized"
  \/ Ends(w, {"init_fail", "init_timeout"}) /\ next = "idle"

\* What the client has still to read.
Coming(c) == s2c[c] \o out

Informed(c) == told[c] \in {"unknown", next}

(* The operator is asked for what the server reads.                        *)
Asked(c) ==
  /\ Coming(c) = <<>> /\ c2s[c] = <<>> /\ Informed(c)
  /\ <<at[c], srv>> \in {<<"prompt", "cmd">>, <<"ask_type", "type">>, <<"ask_crew", "crew">>,
                         <<"ask_comment", "comment">>, <<"ask_end", "end">>}

(* What the server reads has been said.                                    *)
Spoken(c) ==
  /\ Coming(c) = <<>> /\ Informed(c)
  /\ \E m \in Commands \cup RunTypes \cup Texts :
       /\ c2s[c] = <<m>>
       /\ \/ srv = "cmd" /\ m \in Commands /\ at[c] = WaitFor(m)
          \/ srv = "cmd" /\ m = "get_state" /\ at[c] = "get_state"
          \/ srv = "type" /\ at[c] = "type" /\ said[c] = m
          \/ <<srv, at[c]>> \in {<<"crew", "comment">>, <<"comment", "start">>, <<"end", "term">>}

(* Of the answers of a handler, some are on the way and have nothing to    *)
(* say of the state of the run.                                            *)
Replied(c) ==
  LET w == Coming(c) IN
  /\ Informed(c)
  /\ \/ /\ srv = "type"
        /\ \/ at[c] = "setup" /\ w = <<"setup", "run_types">>
           \/ at[c] = "types" /\ w = <<"run_types">>
     \/ /\ srv = "crew"
        /\ \/ at[c] = "type" /\ w = <<"good_type", "run_number", "shift_crew">>
           \/ at[c] = "number" /\ w = <<"run_number", "shift_crew">>
           \/ at[c] = "crew" /\ w = <<"shift_crew">>
     \/ srv = "comment" /\ at[c] = "comment" /\ w = <<"run_comment">>
     \/ /\ srv = "launch"
        /\ \/ at[c] = "start" /\ w = <<"init_start">>
           \/ at[c] = "init" /\ w = <<>>
     \/ srv = "end" /\ at[c] = "stop" /\ w = <<"run_comment_end">>
     \/ srv = "exit" /\ at[c] = "bye" /\ w = <<"exiting">>
     \/ /\ srv = "cmd"
        /\ \/ at[c] = "type" /\ (w = <<"error">> \/ (w = <<>> /\ said[c] = "error"))
           \/ at[c] = "start" /\ w = <<"init_error">>
           \/ at[c] = "answer" /\ w = <<"answer">>
           \/ at[c] \in Refusable \ {"abort"} /\ w = <<"unknown command">>
           \/ at[c] = "abort" /\ next # "initialized" /\ w \in {<<>>, <<"unknown command">>}

(* The last of the answers on the way says what the state of the run is.   *)
Reported(c) ==
  LET w == Coming(c) IN
  /\ srv = "cmd"
  /\ \/ at[c] \in {"answer", "get_state"} /\ w = <<next>>
     \/ at[c] = "start_run" /\ w = <<"run_started">> /\ next = "running"
     \/ at[c] \in {"abort", "term"} /\ Ends(w, {"terminate_ok", "terminate_error"}) /\ next = "idle"
     \/ at[c] = "start" /\ w # <<>> /\ Head(w) = "init_start" /\ InitEnds(Tail(w))
     \/ at[c] = "init" /\ InitEnds(w)

Dialogue(c) ==
  \/ at[c] = "gone"
  \/ Asked(c)
  \/ Spoken(c)
  \/ c2s[c] = <<>> /\ (Replied(c) \/ Reported(c))

\* c has connected and is not served yet.
InBacklog(c) == \E i \in DOMAIN backlog : backlog[i] = c

(* A client that is not served has no answers to read, and has sent one    *)
(* command at most.                                                        *)
NotServed(c) ==
  \/ at[c] = "gone"
  \/ /\ s2c[c] = <<>>
     /\ \/ /\ c2s[c] = <<>> /\ ~InBacklog(c)
           /\ at[c] \in Waits \/ (at[c] = "off" /\ told[c] = "unknown")
        \/ /\ InBacklog(c) /\ told[c] = "unknown"
           /\ \/ at[c] = "prompt" /\ c2s[c] = <<>>
              \/ \E m \in Commands : at[c] = WaitFor(m) /\ c2s[c] = <<m>>

DialogueInv ==
  \A c \in Clients : Up => IF c = caller THEN Dialogue(c) ELSE NotServed(c)

Inv == ProtoTypeOK /\ ServerInv /\ BacklogInv /\ StatesRead /\ DialogueInv

-----------------------------------------------------------------------------
(* Messages on the way. *)

LEMMA Sent ==
  ASSUME NEW T, NEW s \in Seq(T), NEW o \in Seq(T), o # <<>>
  PROVE  /\ Head(o) \in T /\ Tail(o) \in Seq(T) /\ Append(s, Head(o)) \in Seq(T)
         /\ Append(s, Head(o)) \o Tail(o) = s \o o
<1>1. Head(o) \in T /\ Tail(o) \in Seq(T) /\ Append(s, Head(o)) \in Seq(T)
  OBVIOUS
<1>2. Len(Append(s, Head(o)) \o Tail(o)) = Len(s \o o)
  OBVIOUS
<1>3. \A i \in 1 .. Len(s \o o) : (Append(s, Head(o)) \o Tail(o))[i] = (s \o o)[i]
  OBVIOUS
<1>4. QED
  BY <1>1, <1>2, <1>3, SeqEqual

LEMMA Read ==
  ASSUME NEW T, NEW s \in Seq(T), NEW o \in Seq(T), s # <<>>
  PROVE  /\ Head(s) \in T /\ Tail(s) \in Seq(T)
         /\ s \o o # <<>> /\ Head(s \o o) = Head(s)
         /\ Tail(s) \o o = Tail(s \o o)
<1>1. Head(s) \in T /\ Tail(s) \in Seq(T)
  OBVIOUS
<1>2. s \o o \in Seq(T) /\ Len(s \o o) = Len(s) + Len(o) /\ Len(s) > 0
  OBVIOUS
<1>3. s \o o # <<>> /\ Head(s \o o) = Head(s)
  BY <1>2
<1>4. Len(Tail(s) \o o) = Len(Tail(s \o o))
  BY <1>2
<1>5. \A i \in 1 .. Len(Tail(s \o o)) : (Tail(s) \o o)[i] = Tail(s \o o)[i]
  BY <1>2
<1>6. Tail(s) \o o \in Seq(T) /\ Tail(s \o o) \in Seq(T)
  BY <1>2, <1>3
<1>7. QED
  BY <1>1, <1>3, <1>4, <1>5, <1>6, SeqEqual

LEMMA NoneComing ==
  ASSUME NEW T, NEW s \in Seq(T), NEW o \in Seq(T)
  PROVE  /\ s \o o = <<>> <=> s = <<>> /\ o = <<>>
         /\ s = <<>> => s \o o = o
         /\ o = <<>> => s \o o = s
<1>1. Len(s \o o) = Len(s) + Len(o) /\ Len(s) \in Nat /\ Len(o) \in Nat
  OBVIOUS
<1>2. s \o o = <<>> <=> s = <<>> /\ o = <<>>
  BY <1>1
<1>3. s = <<>> => s \o o = o
  OBVIOUS
<1>4. o = <<>> => s \o o = s
  OBVIOUS
<1>5. QED
  BY <1>2, <1>3, <1>4

LEMMA OnlyOne == \A j \in 1 .. 1 : j = 1
  OBVIOUS

LEMMA Ones ==
  ASSUME NEW a
  PROVE  <<a>> # <<>> /\ Head(<<a>>) = a /\ Tail(<<a>>) = <<>> /\ Append(<<>>, a) = <<a>>
  OBVIOUS

LEMMA Twos ==
  ASSUME NEW a, NEW b
  PROVE  <<a, b>> # <<>> /\ Head(<<a, b>>) = a /\ Tail(<<a, b>>) = <<b>>
  OBVIOUS

LEMMA Threes ==
  ASSUME NEW a, NEW b, NEW d
  PROVE  <<a, b, d>> # <<>> /\ Head(<<a, b, d>>) = a /\ Tail(<<a, b, d>>) = <<b, d>>
  OBVIOUS

(* An ending is read to its end.                                           *)
LEMMA EndsRead ==
  ASSUME NEW T, NEW w \in Seq(T), NEW last, Ends(w, last), "progress" \notin last
  PROVE  /\ w # <<>>
         /\ Head(w) = "progress" => Ends(Tail(w), last)
         /\ Head(w) # "progress" => Head(w) \in last /\ Tail(w) = <<>>
<1>1. w # <<>> /\ Len(w) \in Nat /\ Len(w) > 0 /\ Len(Tail(w)) = Len(w) - 1 /\ Head(w) = w[1]
  BY DEF Ends
<1>2. ASSUME Head(w) = "progress" PROVE Ends(Tail(w), last)
  <2>1. Len(w) # 1
    BY <1>1, <1>2 DEF Ends
  <2>2. Tail(w) # <<>> /\ Len(Tail(w)) > 0
    BY <1>1, <2>1
  <2>3. Tail(w)[Len(Tail(w))] = w[Len(w)]
    BY <1>1, <2>2
  <2>4. \A i \in 1 .. Len(Tail(w)) - 1 : Tail(w)[i] = "progress"
    <3> TAKE i \in 1 .. Len(Tail(w)) - 1
    <3>1. Tail(w)[i] = w[i + 1] /\ i + 1 \in 1 .. Len(w) - 1
      BY <1>1
    <3>2. QED
      BY <3>1 DEF Ends
  <2>5. QED
    BY <2>2, <2>3, <2>4 DEF Ends
<1>3. ASSUME Head(w) # "progress" PROVE Head(w) \in last /\ Tail(w) = <<>>
  <2>1. Len(w) = 1
    BY <1>1, <1>3 DEF Ends
  <2>2. QED
    BY <1>1, <2>1 DEF Ends
<1>4. QED
  BY <1>1, <1>2, <1>3

LEMMA EndsMade ==
  ASSUME NEW n \in Nat, NEW m, NEW last, m \in last, m \in Answers
  PROVE  /\ Append(Progress(n), m) \in Seq(Answers)
         /\ Ends(Append(Progress(n), m), last)
         /\ \A i \in DOMAIN Append(Progress(n), m) :
              Append(Progress(n), m)[i] \in {"progress", m}
<1> DEFINE w == Append(Progress(n), m)
<1>1. Progress(n) \in Seq({"progress"}) /\ Len(Progress(n)) = n
  BY DEF Progress
<1>2. Progress(n) \in Seq(Answers)
  <2>1. "progress" \in Answers
    BY DEF Answers
  <2>2. QED
    BY <2>1 DEF Progress
<1>3. /\ w \in Seq(Answers) /\ Len(w) = n + 1 /\ w[n + 1] = m
      /\ \A i \in 1 .. n : w[i] = Progress(n)[i]
  BY <1>1, <1>2
<1>4. \A i \in 1 .. n : w[i] = "progress"
  BY <1>3 DEF Progress
<1> HIDE DEF w
<1>5. w # <<>>
  BY <1>3
<1>6. Ends(w, last)
  BY <1>3, <1>4, <1>5 DEF Ends
<1>7. \A i \in DOMAIN w : w[i] \in {"progress", m}
  <2> TAKE i \in DOMAIN w
  <2>1. i \in 1 .. n + 1
    BY <1>3
  <2>2. QED
    BY <2>1, <1>3, <1>4
<1>8. QED
  BY <1>3, <1>6, <1>7 DEF w

-----------------------------------------------------------------------------
(* Types. *)

Msgs == Commands \cup RunTypes \cup Texts
Places == {"off", "gone"} \cup Prompts \cup Waits
Served == {"accept", "launch", "exit", "sigint", "dead"} \cup Reading

LEMMA WaitsFor == ASSUME NEW m \in Commands PROVE WaitFor(m) \in Waits
  BY DEF WaitFor, Commands, Waits

LEMMA GoesTo ==
  ASSUME NEW p \in Waits, NEW m PROVE AfterMessage(p, m) \in {"gone"} \cup Prompts \cup Waits
  BY DEF AfterMessage, Waits, Prompts

LEMMA IsTold ==
  ASSUME NEW p, NEW m, NEW old \in RunStates \cup {"unknown"}
  PROVE  Says(p, m, old) \in RunStates \cup {"unknown"}
  BY DEF Says, RunStates

LEMMA Replies ==
  /\ Reading \subseteq Served
  /\ <<>> \in Seq(Answers)
  /\ \A m \in Answers : <<m>> \in Seq(Answers)
  /\ <<"setup", "run_types">> \in Seq(Answers)
  /\ <<"good_type", "run_number", "shift_crew">> \in Seq(Answers)
<1>1. {"setup", "run_types", "good_type", "run_number", "shift_crew"} \subseteq Answers
  BY DEF Answers
<1>2. <<"setup", "run_types">> \in Seq(Answers)
  BY <1>1
<1>3. <<"good_type", "run_number", "shift_crew">> \in Seq(Answers)
  BY <1>1
<1>4. Reading \subseteq Served
  BY DEF Served
<1>5. QED
  BY <1>2, <1>3, <1>4

(* What a handler does to the types: it takes a message and says some.     *)
LEMMA GetType ==
  ASSUME ProtoTypeOK, NEW p, NEW m, Get(p, m)
  PROVE  c2s' \in [Clients -> Seq(Msgs)]
<1>1. c2s \in [Clients -> Seq(Msgs)]
  BY DEF ProtoTypeOK, Msgs
<1>2. c2s[caller] # <<>> /\ c2s' = [c2s EXCEPT ![caller] = Tail(@)]
  BY DEF Get
<1>3. ASSUME caller \in Clients PROVE Tail(c2s[caller]) \in Seq(Msgs)
  BY <1>1, <1>2, <1>3
<1>4. QED
  BY <1>1, <1>2, <1>3

LEMMA SayType ==
  ASSUME ProtoTypeOK, NEW msgs \in Seq(Answers), NEW p \in Served, NEW s \in RunStates,
         Say(msgs, p, s), c2s' \in [Clients -> Seq(Msgs)],
         UNCHANGED <<clientVars, s2c, open, backlog, caller, state>>
  PROVE  ProtoTypeOK'
  BY DEF ProtoTypeOK, Say, clientVars, Msgs, Served

LEMMA TerminatedIs ==
  ASSUME NEW msgs \in Terminated
  PROVE  /\ msgs \in Seq(Answers)
         /\ Ends(msgs, {"terminate_ok", "terminate_error"})
         /\ \A i \in DOMAIN msgs : msgs[i] \in {"progress", "terminate_ok", "terminate_error"}
<1>1. PICK n \in 1 .. MaxProgress, m \in {"terminate_ok", "terminate_error"} :
        msgs = Append(Progress(n), m)
  BY DEF Terminated
<1>2. n \in Nat
  BY <1>1, BoundsAssumption
<1>3. m \in Answers
  BY <1>1 DEF Answers, Final
<1>4. Ends(msgs, {"terminate_ok", "terminate_error"})
  BY <1>1, <1>2, <1>3, EndsMade
<1>5. QED
  BY <1>1, <1>2, <1>3, <1>4, EndsMade

LEMMA HandlerType ==
  ASSUME ProtoTypeOK,
         \/ NewRun \/ StartRun \/ AbortRun \/ StopRun \/ GetState \/ Query \/ Shutdown
         \/ UnknownCommand \/ RunType \/ ShiftCrew \/ RunComment \/ Launch \/ RunCommentEnd
  PROVE  ProtoTypeOK'
<1>1. PICK msgs, p, s : Say(msgs, p, s) /\ (s \in RunStates) /\ (p \in Served) /\ (msgs \in Seq(Answers))
  <2>0. /\ state \in RunStates /\ {"idle", "initialized", "running"} \subseteq RunStates
        /\ {"type", "cmd", "crew", "comment", "end", "launch", "exit"} \subseteq Served
        /\ \A m \in {"run_started", "run_comment_end", "answer", "exiting", "unknown command",
                      "error", "run_comment", "init_error", "init_start"} : <<m>> \in Seq(Answers)
        /\ <<state>> \in Seq(Answers)
    BY Replies DEF ProtoTypeOK, RunStates, Served, Reading, Answers, Final
  <2>1. CASE NewRun
    BY <2>0, <2>1, Replies DEF NewRun
  <2>2. CASE StartRun
    BY <2>0, <2>2, Replies DEF StartRun
  <2>3. CASE AbortRun
    BY <2>0, <2>3, TerminatedIs DEF AbortRun
  <2>4. CASE StopRun
    BY <2>0, <2>4, Replies DEF StopRun
  <2>5. CASE GetState
    BY <2>0, <2>5, Replies DEF GetState
  <2>6. CASE Query
    BY <2>0, <2>6, Replies DEF Query
  <2>7. CASE Shutdown
    BY <2>0, <2>7, Replies DEF Shutdown
  <2>8. CASE UnknownCommand
    BY <2>0, <2>8, Replies DEF UnknownCommand
  <2>9. CASE RunType
    <3>1. PICK m \in Commands \cup RunTypes \cup Texts :
            IF m = "good_type" THEN Say(<<m, "run_number", "shift_crew">>, "crew", state)
            ELSE Say(IF m = "error" THEN <<>> ELSE <<"error">>, "cmd", state)
      BY <2>9 DEF RunType
    <3>2. CASE m = "good_type"
      BY <2>0, <3>1, <3>2, Replies
    <3>3. CASE m # "good_type"
      <4>1. (IF m = "error" THEN <<>> ELSE <<"error">>) \in Seq(Answers)
        BY <2>0, Replies
      <4>2. QED
        BY <2>0, <3>1, <3>3, <4>1
    <3>4. QED
      BY <3>2, <3>3
  <2>10. CASE ShiftCrew
    BY <2>0, <2>10, Replies DEF ShiftCrew
  <2>11. CASE RunComment
    BY <2>0, <2>11, Replies DEF RunComment
  <2>12. CASE Launch
    <3>1. PICK n \in 0 .. MaxProgress :
            \/ Say(Append(Progress(n), "init_ready"), "cmd", "initialized")
            \/ \E m \in {"init_fail", "init_timeout"} : Say(Append(Progress(n), m), "cmd", "idle")
      BY <2>12 DEF Launch
    <3>2. n \in Nat /\ {"init_ready", "init_fail", "init_timeout"} \subseteq Answers
      BY BoundsAssumption DEF Answers, Final
    <3>3. \A m \in {"init_ready", "init_fail", "init_timeout"} : Append(Progress(n), m) \in Seq(Answers)
      BY <3>2, EndsMade
    <3>4. QED
      BY <2>0, <3>1, <3>3
  <2>13. CASE RunCommentEnd
    BY <2>0, <2>13, TerminatedIs DEF RunCommentEnd
  <2>14. QED
    BY <2>1, <2>2, <2>3, <2>4, <2>5, <2>6, <2>7, <2>8, <2>9, <2>10, <2>11, <2>12, <2>13
<1>2. UNCHANGED <<clientVars, s2c, open, backlog, caller, state>>
  BY DEF NewRun, StartRun, AbortRun, StopRun, GetState, Query, Shutdown, UnknownCommand,
         RunType, ShiftCrew, RunComment, Launch, RunCommentEnd, Get, netVars
<1>3. c2s' \in [Clients -> Seq(Msgs)]
  <2>1. CASE Launch
    BY <2>1 DEF Launch, netVars, ProtoTypeOK, Msgs
  <2>2. CASE ~Launch
    <3>1. \E q, m : Get(q, m)
      BY <2>2 DEF NewRun, StartRun, AbortRun, StopRun, GetState, Query, Shutdown, UnknownCommand,
         RunType, ShiftCrew, RunComment, RunCommentEnd
    <3>2. QED
      BY <3>1, GetType
  <2>3. QED
    BY <2>1, <2>2
<1>4. QED
  BY <1>1, <1>2, <1>3, SayType

LEMMA ServerType ==
  ASSUME ProtoTypeOK,
         Accept \/ SendAnswer \/ ConnectionError \/ ClientClose \/ NewState \/ Exit
           \/ SigintHandler \/ SigintExit
  PROVE  ProtoTypeOK'
<1> USE DEF ProtoTypeOK, clientVars, netVars
<1>1. CASE Accept
  BY <1>1 DEF Accept, Reading
<1>2. CASE SendAnswer
  <2>1. Head(out) \in Answers /\ Tail(out) \in Seq(Answers) /\ s2c \in [Clients -> Seq(Answers)]
    BY <1>2 DEF SendAnswer
  <2>2. s2c' = [s2c EXCEPT ![caller] = Append(@, Head(out))]
    BY <1>2 DEF SendAnswer
  <2>3. caller \in Clients => Append(s2c[caller], Head(out)) \in Seq(Answers)
    BY <2>1
  <2>4. s2c' \in [Clients -> Seq(Answers)]
    BY <2>1, <2>2, <2>3
  <2>5. QED
    BY <1>2, <2>1, <2>4 DEF SendAnswer
<1>3. CASE ConnectionError \/ Exit \/ SigintExit
  <2>1. Dies
    BY <1>3 DEF ConnectionError, Exit, SigintExit
  <2>2. <<>> \in Seq(Answers) /\ <<>> \in Seq(Clients)
    OBVIOUS
  <2>3. QED
    BY <2>1, <2>2 DEF Dies
<1>4. CASE ClientClose
  <2>1. c2s' \in [Clients -> Seq(Commands \cup RunTypes \cup Texts)]
    <3>1. CASE c2s' = c2s
      BY <3>1
    <3>2. CASE c2s[caller] # <<>> /\ c2s' = [c2s EXCEPT ![caller] = Tail(@)]
      <4>1. caller \in Clients => Tail(c2s[caller]) \in Seq(Commands \cup RunTypes \cup Texts)
        BY <3>2
      <4>2. QED
        BY <3>2, <4>1
    <3>3. QED
      BY <1>4, <3>1, <3>2 DEF ClientClose
  <2>2. QED
    BY <1>4, <2>1 DEF ClientClose, HangUp
<1>5. CASE NewState
  BY <1>5 DEF NewState
<1>6. CASE SigintHandler
  <2>1. out' \in Seq(Answers) /\ next' \in RunStates
    BY <1>6, TerminatedIs, Replies DEF SigintHandler, RunStates
  <2>2. QED
    BY <1>6, <2>1 DEF SigintHandler
<1>7. QED
  BY <1>1, <1>2, <1>3, <1>4, <1>5, <1>6

LEMMA SendType ==
  ASSUME ProtoTypeOK, NEW c \in Clients, NEW m \in Msgs, NEW p \in Places, Send(c, m, p)
  PROVE  /\ c2s' \in [Clients -> Seq(Msgs)]
         /\ at' \in [Clients -> Places]
<1>1. c2s \in [Clients -> Seq(Msgs)] /\ at \in [Clients -> Places]
  BY DEF ProtoTypeOK, Msgs, Places
<1>2. Append(c2s[c], m) \in Seq(Msgs)
  BY <1>1
<1>3. QED
  BY <1>1, <1>2 DEF Send

LEMMA ClientType ==
  ASSUME ProtoTypeOK, NEW c \in Clients, ClientNext(c)
  PROVE  ProtoTypeOK'
<1>0. /\ c2s \in [Clients -> Seq(Msgs)] /\ at \in [Clients -> Places]
      /\ Prompts \cup Waits \cup {"gone"} \subseteq Places
      /\ Commands \cup RunTypes \cup Texts \subseteq Msgs
      /\ at[c] \in Places /\ s2c[c] \in Seq(Answers)
  BY DEF ProtoTypeOK, Msgs, Places
<1>1. CASE Connect(c)
  BY <1>0, <1>1 DEF Connect, ProtoTypeOK, serverVars, Msgs, Places, Prompts
<1>2. CASE ConnectFails(c)
  BY <1>0, <1>2 DEF ConnectFails, ProtoTypeOK, serverVars, netVars
<1>3. CASE TypeCommand(c)
  <2>1. PICK m \in Commands : Send(c, m, WaitFor(m))
    BY <1>3 DEF TypeCommand
  <2>2. c2s' \in [Clients -> Seq(Msgs)] /\ at' \in [Clients -> Places]
    BY <1>0, <2>1, SendType, WaitsFor
  <2>3. typed' \in 0 .. MaxTyped
    BY <1>3, BoundsAssumption DEF TypeCommand, ProtoTypeOK
  <2>4. QED
    BY <1>3, <2>2, <2>3 DEF TypeCommand, ProtoTypeOK, serverVars, Msgs, Places
<1>4. CASE TypeReply(c)
  <2>1. PICK m \in Msgs, p \in Waits : Send(c, m, p)
    BY <1>0, <1>4 DEF TypeReply, Waits
  <2>2. c2s' \in [Clients -> Seq(Msgs)] /\ at' \in [Clients -> Places]
    BY <1>0, <2>1, SendType
  <2>3. said' \in [Clients -> RunTypes \cup {"none"}]
    BY <1>4 DEF TypeReply, ProtoTypeOK
  <2>4. QED
    BY <1>4, <2>2, <2>3 DEF TypeReply, ProtoTypeOK, serverVars, Msgs, Places
<1>5. CASE Receive(c)
  <2> DEFINE m == Head(s2c[c])
             p == AfterMessage(at[c], m)
  <2>1. m \in Answers /\ Tail(s2c[c]) \in Seq(Answers)
    BY <1>0, <1>5 DEF Receive
  <2>2. p \in Places
    BY <1>0, <1>5, GoesTo DEF Receive
  <2>3. at' = [at EXCEPT ![c] = p]
    BY <1>5 DEF Receive
  <2>4. said' \in [Clients -> RunTypes \cup {"none"}]
    BY <1>5 DEF Receive, ProtoTypeOK
  <2>5. s2c' \in [Clients -> Seq(Answers)]
    BY <1>5, <2>1 DEF Receive, ProtoTypeOK
  <2>6. told' \in [Clients -> RunStates \cup {"unknown"}]
    <3>1. Says(at[c], m, told[c]) \in RunStates \cup {"unknown"}
      BY IsTold DEF ProtoTypeOK
    <3>2. told' = [told EXCEPT ![c] = IF p = "gone" THEN "unknown" ELSE Says(at[c], m, told[c])]
      BY <1>5 DEF Receive
    <3> HIDE DEF m, p
    <3>3. QED
      BY <3>1, <3>2 DEF ProtoTypeOK
  <2>7. c2s' \in [Clients -> Seq(Msgs)]
    <3>1. c2s' = IF p = "get_state" THEN [c2s EXCEPT ![c] = Append(@, "get_state")] ELSE c2s
      BY <1>5 DEF Receive
    <3>2. Append(c2s[c], "get_state") \in Seq(Msgs)
      <4>1. "get_state" \in Msgs
        BY DEF Msgs, Commands
      <4>2. QED
        BY <1>0, <4>1
    <3> HIDE DEF p
    <3>3. QED
      BY <1>0, <3>1, <3>2
  <2>8. at' \in [Clients -> Places]
    BY <1>0, <2>2, <2>3
  <2>9. UNCHANGED <<typed, open, backlog, serverVars>>
    BY <1>5 DEF Receive
  <2>10. QED
    BY <2>4, <2>5, <2>6, <2>7, <2>8, <2>9 DEF ProtoTypeOK, serverVars, Msgs, Places
<1>6. CASE EndOfFile(c) \/ Quit(c)
  <2>1. Gone(c)
    BY <1>6 DEF EndOfFile, Quit
  <2>2. QED
    BY <1>0, <2>1 DEF Gone, ProtoTypeOK, serverVars, netVars
<1>7. QED
  BY <1>1, <1>2, <1>3, <1>4, <1>5, <1>6 DEF ClientNext

LEMMA TypeInit == ProtoInit => ProtoTypeOK
<1> SUFFICES ASSUME ProtoInit PROVE ProtoTypeOK
  OBVIOUS
<1>1. typed \in 0 .. MaxTyped
  BY BoundsAssumption DEF ProtoInit
<1>2. <<>> \in Seq(Answers) /\ <<>> \in Seq(Commands \cup RunTypes \cup Texts) /\ <<>> \in Seq(Clients)
  OBVIOUS
<1>3. QED
  BY <1>1, <1>2 DEF ProtoInit, ProtoTypeOK, RunStates

LEMMA TypeStep == ProtoTypeOK /\ [ProtoNext]_protoVars => ProtoTypeOK'
<1> SUFFICES ASSUME ProtoTypeOK, [ProtoNext]_protoVars PROVE ProtoTypeOK'
  OBVIOUS
<1>1. CASE UNCHANGED protoVars
  BY <1>1 DEF ProtoTypeOK, protoVars, clientVars, netVars, serverVars
<1>2. CASE \E c \in Clients : ClientNext(c)
  BY <1>2, ClientType
<1>3. CASE ServerNext \/ SigintHandler
  BY <1>3, ServerType, HandlerType DEF ServerNext
<1>4. QED
  BY <1>1, <1>2, <1>3 DEF ProtoNext

(***************************************************************************)
(* ProtoTypeOK: what is sent and where the programs are is as meant,       *)
(* whatever is typed and whenever a connection is lost                     *)
(* (RunControlServer.py:214-285, RunControlText.py:104-330).               *)
(***************************************************************************)
THEOREM MessagesAreAnswers == ProtoSpec => []ProtoTypeOK
  BY TypeInit, TypeStep, PTL DEF ProtoSpec

-----------------------------------------------------------------------------
(* The server's own part. *)

(* Every handler answers the client it has read from, where it should.     *)
Handling == NewRun \/ StartRun \/ AbortRun \/ StopRun \/ GetState \/ Query \/ Shutdown
              \/ UnknownCommand \/ RunType \/ ShiftCrew \/ RunComment \/ Launch \/ RunCommentEnd

LEMMA HandlingIs ==
  ASSUME Handling
  PROVE  /\ srv \in Reading \cup {"launch"} /\ out = <<>> /\ state = next
         /\ UNCHANGED <<clientVars, s2c, open, backlog, caller, state>>
         /\ \/ srv' = "cmd"
            \/ srv' = "exit"
            \/ srv' = "type" /\ next' = "idle"
            \/ srv' = "end" /\ next' = "running"
            \/ srv' \in {"crew", "comment", "launch"} /\ next' = next
                 /\ srv \in {"type", "crew", "comment"}
<1> USE DEF Get, Ready, Say, netVars, Reading
<1>1. CASE NewRun
  BY <1>1 DEF NewRun
<1>2. CASE StartRun \/ AbortRun \/ GetState \/ Query \/ Shutdown
  BY <1>2 DEF StartRun, AbortRun, GetState, Query, Shutdown
<1>3. CASE UnknownCommand
  BY <1>3 DEF UnknownCommand
<1>4. CASE RunType
  BY <1>4 DEF RunType
<1>5. CASE ShiftCrew \/ RunComment \/ RunCommentEnd
  BY <1>5 DEF ShiftCrew, RunComment, RunCommentEnd
<1>6. CASE Launch
  BY <1>6 DEF Launch
<1>7. CASE StopRun
  BY <1>7 DEF StopRun
<1>8. QED
  BY <1>1, <1>2, <1>3, <1>4, <1>5, <1>6, <1>7 DEF Handling

LEMMA ServerInit == ProtoInit => ServerInv /\ BacklogInv /\ StatesRead
  BY DEF ProtoInit, ServerInv, BacklogInv, StatesRead, Up

LEMMA ServerStep == ASSUME ProtoTypeOK, ServerInv, [ProtoNext]_protoVars PROVE ServerInv'
<1>1. CASE UNCHANGED serverVars
  BY <1>1 DEF ServerInv, serverVars, Up
<1>2. CASE \E c \in Clients : ClientNext(c)
  <2>1. UNCHANGED serverVars
    BY <1>2 DEF ClientNext, Connect, ConnectFails, TypeCommand, TypeReply, Receive, EndOfFile, Quit, Gone
  <2>2. QED
    BY <2>1, <1>1
<1>3. CASE Accept
  <2>1. caller' \in Clients
    BY <1>3 DEF Accept, ProtoTypeOK
  <2>2. caller' # NoClient
    BY <2>1, ClientsAssumption
  <2>3. QED
    BY <1>3, <2>2 DEF Accept, ServerInv, Up
<1>4. CASE SendAnswer
  <2>1. out # <<>> /\ out' = Tail(out) /\ UNCHANGED <<caller, srv, state, next>>
    BY <1>4 DEF SendAnswer
  <2>2. \A i \in DOMAIN out' : i + 1 \in DOMAIN out /\ out'[i] = out[i + 1]
    BY <2>1 DEF ProtoTypeOK
  <2>3. ~Up => \A i \in DOMAIN out' : out'[i] \notin RunStates
    BY <2>2 DEF ServerInv
  <2>4. QED
    BY <2>1, <2>3 DEF ServerInv, Up
<1>5. CASE ConnectionError \/ Exit \/ SigintExit
  <2>1. Dies
    BY <1>5 DEF ConnectionError, Exit, SigintExit
  <2>2. QED
    BY <2>1 DEF Dies, ServerInv, Up
<1>6. CASE ClientClose
  BY <1>6 DEF ClientClose, HangUp, ServerInv, Up
<1>7. CASE Handling
  <2>1. /\ srv \in Reading \cup {"launch"} /\ state = next /\ caller' = caller /\ state' = state
        /\ \/ srv' = "cmd"
           \/ srv' = "exit"
           \/ srv' = "type" /\ next' = "idle"
           \/ srv' = "end" /\ next' = "running"
           \/ srv' \in {"crew", "comment", "launch"} /\ next' = next
                 /\ srv \in {"type", "crew", "comment"}
    BY <1>7, HandlingIs
  <2>2. Up /\ srv # "accept" /\ caller # NoClient
    BY <2>1 DEF ServerInv, Up, Reading
  <2>3. srv' # "accept" /\ Up'
    BY <2>1 DEF Up
  <2>4. srv' # "cmd" => next' = state'
    <3>1. CASE srv' \in {"crew", "comment", "launch"}
      BY <3>1, <2>1
    <3>2. CASE srv' = "type"
      BY <3>2, <1>7 DEF Handling, NewRun, StartRun, AbortRun, StopRun, GetState, Query, Shutdown,
         UnknownCommand, RunType, ShiftCrew, RunComment, Launch, RunCommentEnd, Say, Get, netVars
    <3>3. CASE srv' = "end" \/ srv' = "exit"
      BY <3>3, <1>7 DEF Handling, NewRun, StartRun, AbortRun, StopRun, GetState, Query, Shutdown,
         UnknownCommand, RunType, ShiftCrew, RunComment, Launch, RunCommentEnd, Say, Get, netVars
    <3>4. QED
      BY <3>1, <3>2, <3>3, <2>1
  <2>5. QED
    BY <2>1, <2>2, <2>3, <2>4 DEF ServerInv
<1>8. CASE NewState
  BY <1>8 DEF NewState, ServerInv, Up
<1>9. CASE SigintHandler
  <2>1. ~Up' /\ caller' = caller
    BY <1>9 DEF SigintHandler, Up
  <2>2. out' # <<>> => out' \in Terminated /\ caller # NoClient
    BY <1>9 DEF SigintHandler
  <2>3. \A i \in DOMAIN out' : out'[i] \notin RunStates
    <3>1. CASE out' = <<>>
      BY <3>1
    <3>2. CASE out' # <<>>
      BY <3>2, <2>2, TerminatedIs DEF RunStates
    <3>3. QED
      BY <3>1, <3>2
  <2>4. srv' # "dead"
    BY <1>9 DEF SigintHandler
  <2>5. QED
    BY <2>1, <2>2, <2>3, <2>4 DEF ServerInv
<1>10. CASE UNCHANGED protoVars
  BY <1>10, <1>1 DEF protoVars
<1>11. QED
  BY <1>2, <1>3, <1>4, <1>5, <1>6, <1>7, <1>8, <1>9, <1>10 DEF ProtoNext, ServerNext, Handling

(* A client that has left its start does not come back to it.              *)
LEMMA NotBack ==
  ASSUME ProtoTypeOK, NEW d \in Clients, ClientNext(d)
  PROVE  /\ UNCHANGED serverVars
         /\ \A c \in Clients \ {d} : /\ at'[c] = at[c] /\ c2s'[c] = c2s[c] /\ s2c'[c] = s2c[c]
                                     /\ told'[c] = told[c] /\ said'[c] = said[c]
         /\ at'[d] # "off"
         /\ \/ Connect(d) /\ backlog' = Append(backlog, d) /\ at[d] = "off"
            \/ backlog' = backlog
<1> USE DEF ProtoTypeOK
<1>1. CASE Connect(d)
  BY <1>1 DEF Connect
<1>2. CASE ConnectFails(d)
  BY <1>2 DEF ConnectFails, netVars
<1>3. CASE TypeCommand(d)
  <2>1. PICK m \in Commands : Send(d, m, WaitFor(m))
    BY <1>3 DEF TypeCommand
  <2>2. WaitFor(m) # "off"
    BY WaitsFor DEF Waits
  <2>3. QED
    BY <1>3, <2>1, <2>2 DEF TypeCommand, Send
<1>4. CASE TypeReply(d)
  BY <1>4 DEF TypeReply, Send
<1>5. CASE Receive(d)
  <2> DEFINE p == AfterMessage(at[d], Head(s2c[d]))
  <2>1. p # "off"
    BY <1>5, GoesTo DEF Receive, Waits, Prompts
  <2>2. /\ at' = [at EXCEPT ![d] = p] /\ UNCHANGED <<serverVars, backlog>>
        /\ s2c' = [s2c EXCEPT ![d] = Tail(@)]
        /\ c2s' = IF p = "get_state" THEN [c2s EXCEPT ![d] = Append(@, "get_state")] ELSE c2s
    BY <1>5 DEF Receive
  <2>3. \A c \in Clients \ {d} : told'[c] = told[c] /\ said'[c] = said[c]
    BY <1>5 DEF Receive
  <2> HIDE DEF p
  <2>4. QED
    BY <2>1, <2>2, <2>3
<1>6. CASE EndOfFile(d) \/ Quit(d)
  <2>1. Gone(d)
    BY <1>6 DEF EndOfFile, Quit
  <2>2. QED
    BY <2>1 DEF Gone, netVars
<1>7. QED
  BY <1>1, <1>2, <1>3, <1>4, <1>5, <1>6 DEF ClientNext

LEMMA BacklogStep == ASSUME ProtoTypeOK, BacklogInv, [ProtoNext]_protoVars PROVE BacklogInv'
<1>0. backlog \in Seq(Clients) /\ \A i \in DOMAIN backlog : backlog[i] \in Clients
  BY DEF ProtoTypeOK
<1>1. CASE \E d \in Clients : ClientNext(d)
  <2> PICK d \in Clients : ClientNext(d)
    BY <1>1
  <2>1. /\ caller' = caller /\ at'[d] # "off"
        /\ \A c \in Clients \ {d} : at'[c] = at[c]
        /\ (backlog' = Append(backlog, d) /\ at[d] = "off") \/ backlog' = backlog
    BY NotBack DEF serverVars
  <2>2. caller # NoClient => caller \in Clients /\ at'[caller] # "off"
    BY <2>1 DEF BacklogInv, ProtoTypeOK
  <2>3. CASE backlog' = backlog
    BY <1>0, <2>1, <2>2, <2>3 DEF BacklogInv
  <2>4. CASE backlog' = Append(backlog, d) /\ at[d] = "off"
    <3>1. d # caller
      BY <2>4, ClientsAssumption DEF BacklogInv
    <3>2. \A i \in DOMAIN backlog : backlog[i] # d
      BY <2>4 DEF BacklogInv
    <3>3. /\ DOMAIN backlog' = 1 .. Len(backlog) + 1 /\ DOMAIN backlog = 1 .. Len(backlog)
          /\ backlog'[Len(backlog) + 1] = d
          /\ \A i \in DOMAIN backlog : backlog'[i] = backlog[i]
          /\ Len(backlog) \in Nat
      BY <1>0, <2>4
    <3>4. \A i \in DOMAIN backlog' : i \in DOMAIN backlog \/ i = Len(backlog) + 1
      BY <3>3
    <3>5. QED
      BY <1>0, <2>1, <2>2, <3>1, <3>2, <3>3, <3>4 DEF BacklogInv
  <2>5. QED
    BY <2>1, <2>3, <2>4
<1>2. CASE Accept
  <2>1. /\ backlog # <<>> /\ caller' = Head(backlog) /\ backlog' = Tail(backlog) /\ at' = at
    BY <1>2 DEF Accept, clientVars
  <2>2. /\ 1 \in DOMAIN backlog /\ caller' = backlog[1]
        /\ \A i \in DOMAIN backlog' : /\ i \in Nat /\ i + 1 # 1 /\ i + 1 \in DOMAIN backlog
                                      /\ backlog'[i] = backlog[i + 1]
    BY <1>0, <2>1
  <2>3. \A i, j \in DOMAIN backlog' : i + 1 = j + 1 => i = j
    BY <2>2
  <2>4. QED
    BY <2>1, <2>2, <2>3 DEF BacklogInv
<1>3. CASE UNCHANGED <<at, backlog, caller>>
  BY <1>3 DEF BacklogInv
<1>4. CASE UNCHANGED at /\ backlog' \in {backlog, <<>>} /\ caller' = NoClient
  BY <1>0, <1>4, ClientsAssumption DEF BacklogInv
<1>5. CASE Handling
  BY <1>3, <1>5, HandlingIs DEF clientVars
<1>6. CASE SendAnswer \/ NewState \/ SigintHandler \/ UNCHANGED protoVars
  BY <1>3, <1>6 DEF SendAnswer, NewState, SigintHandler, protoVars, clientVars, netVars, serverVars
<1>7. CASE ConnectionError \/ Exit \/ SigintExit \/ ClientClose
  BY <1>4, <1>7 DEF ConnectionError, Exit, SigintExit, Dies, ClientClose, HangUp, clientVars
<1>8. QED
  BY <1>1, <1>2, <1>5, <1>6, <1>7 DEF ProtoNext, ServerNext, Handling

-----------------------------------------------------------------------------
(* The dialogue. *)

LEMMA DialogueKept ==
  ASSUME NEW c, at'[c] = at[c], c2s'[c] = c2s[c], Coming(c)' = Coming(c), told'[c] = told[c],
         said'[c] = said[c], srv' = srv, next' = next, Dialogue(c)
  PROVE  Dialogue(c)'
<1>1. Asked(c) => Asked(c)'
  BY DEF Asked, Informed
<1>2. Spoken(c) => Spoken(c)'
  BY DEF Spoken, Informed
<1>3. Replied(c) => Replied(c)'
  BY DEF Replied, Informed
<1>4. Reported(c) => Reported(c)'
  BY DEF Reported, InitEnds
<1>5. QED
  BY <1>1, <1>2, <1>3, <1>4 DEF Dialogue

LEMMA NotServedKept ==
  ASSUME NEW c, at'[c] = at[c], c2s'[c] = c2s[c], s2c'[c] = s2c[c], told'[c] = told[c],
         InBacklog(c)' <=> InBacklog(c), NotServed(c)
  PROVE  NotServed(c)'
  BY DEF NotServed

LEMMA ComingIs ==
  ASSUME ProtoTypeOK, NEW c \in Clients
  PROVE  /\ Coming(c) \in Seq(Answers)
         /\ Coming(c) = <<>> <=> s2c[c] = <<>> /\ out = <<>>
         /\ s2c[c] = <<>> => Coming(c) = out
         /\ out = <<>> => Coming(c) = s2c[c]
<1>1. s2c[c] \in Seq(Answers) /\ out \in Seq(Answers)
  BY DEF ProtoTypeOK
<1>2. QED
  BY <1>1, NoneComing DEF Coming

LEMMA ComingNext ==
  ASSUME ProtoTypeOK', NEW c \in Clients
  PROVE  /\ s2c'[c] = <<>> => Coming(c)' = out'
         /\ out' = <<>> => Coming(c)' = s2c'[c]
<1>1. s2c'[c] \in Seq(Answers) /\ out' \in Seq(Answers)
  BY DEF ProtoTypeOK
<1>2. QED
  BY <1>1, NoneComing DEF Coming

LEMMA SpokenAt ==
  ASSUME NEW c \in Clients, Dialogue(c), at[c] # "gone"
  PROVE  /\ at[c] \in Prompts \cup Waits /\ at[c] # "off"
         /\ at[c] \in Prompts <=> Asked(c)
         /\ c2s[c] # <<>> => Spoken(c)
         /\ Coming(c) # <<>> => ~Asked(c) /\ ~Spoken(c)
<1>1. Asked(c) => at[c] \in Prompts /\ c2s[c] = <<>> /\ Coming(c) = <<>>
  BY DEF Asked, Prompts
<1>2. Spoken(c) => at[c] \in Waits /\ Coming(c) = <<>>
  BY WaitsFor DEF Spoken, Waits
<1>3. Replied(c) => at[c] \in Waits
  BY DEF Replied, Waits, Refusable
<1>4. Reported(c) => at[c] \in Waits
  BY DEF Reported, Waits
<1>5. Prompts \cap Waits = {} /\ "off" \notin Prompts \cup Waits
  BY DEF Prompts, Waits
<1>6. QED
  BY <1>1, <1>2, <1>3, <1>4, <1>5 DEF Dialogue

(* The client being served types or reads.                                 *)
LEMMA TypesOn ==
  ASSUME ProtoTypeOK, NEW c \in Clients, Dialogue(c), TypeCommand(c) \/ TypeReply(c)
  PROVE  Dialogue(c)'
<1>1. Asked(c)
  BY SpokenAt DEF TypeCommand, TypeReply, Prompts
<1>2. PICK m, p : Send(c, m, p) /\ m \in Commands \cup RunTypes \cup Texts
  BY DEF TypeCommand, TypeReply
<1>3. c2s'[c] = <<m>> /\ at'[c] = p
  <2>1. c2s'[c] = Append(c2s[c], m) /\ at'[c] = p
    BY <1>2 DEF Send, ProtoTypeOK
  <2>2. QED
    BY <1>1, <2>1, Ones DEF Asked
<1>4. /\ told' = told /\ next' = next /\ srv' = srv /\ Coming(c)' = Coming(c)
  BY DEF TypeCommand, TypeReply, serverVars, Coming
<1>5. CASE TypeCommand(c)
  <2>1. PICK k \in Commands : Send(c, k, WaitFor(k))
    BY <1>5 DEF TypeCommand
  <2>2. c2s'[c] = Append(c2s[c], k) /\ at'[c] = WaitFor(k)
    BY <2>1 DEF Send, ProtoTypeOK
  <2>3. c2s'[c] = <<k>>
    BY <1>1, <2>2, Ones DEF Asked
  <2>4. srv = "cmd"
    BY <1>1, <1>5 DEF Asked, TypeCommand
  <2>5. Spoken(c)'
    BY <1>1, <1>4, <2>2, <2>3, <2>4 DEF Asked, Spoken, Informed
  <2>6. QED
    BY <2>5 DEF Dialogue
<1>6. CASE TypeReply(c)
  <2>1. CASE at[c] = "ask_type"
    <3>1. PICK k \in RunTypes : Send(c, k, "type") /\ said' = [said EXCEPT ![c] = k]
      BY <1>6, <2>1 DEF TypeReply
    <3>2. c2s'[c] = Append(c2s[c], k) /\ at'[c] = "type" /\ said'[c] = k
      BY <3>1 DEF Send, ProtoTypeOK
    <3>3. c2s'[c] = <<k>>
      BY <1>1, <3>2, Ones DEF Asked
    <3>4. srv = "type"
      BY <1>1, <2>1 DEF Asked
    <3>5. Spoken(c)'
      BY <1>1, <1>4, <3>2, <3>3, <3>4 DEF Asked, Spoken, Informed
    <3>6. QED
      BY <3>5 DEF Dialogue
  <2>2. CASE at[c] # "ask_type"
    <3>1. \/ at[c] = "ask_crew" /\ at'[c] = "comment"
          \/ at[c] = "ask_comment" /\ at'[c] = "start"
          \/ at[c] = "ask_end" /\ at'[c] = "term"
      BY <1>6, <2>2 DEF TypeReply, Send, ProtoTypeOK
    <3>2. <<srv', at'[c]>> \in {<<"crew", "comment">>, <<"comment", "start">>, <<"end", "term">>}
      BY <1>1, <1>4, <3>1 DEF Asked
    <3>3. Spoken(c)'
      BY <1>1, <1>2, <1>3, <1>4, <3>2 DEF Asked, Spoken, Informed
    <3>4. QED
      BY <3>3 DEF Dialogue
  <2>3. QED
    BY <2>1, <2>2
<1>7. QED
  BY <1>5, <1>6

(* What reading a message does to the client and to what is coming.        *)
LEMMA Reads ==
  ASSUME ProtoTypeOK, NEW c \in Clients, Receive(c)
  PROVE  LET m == Head(Coming(c))
             p == AfterMessage(at[c], m)
         IN /\ Coming(c) # <<>> /\ m \in Answers /\ m = Head(s2c[c])
            /\ Coming(c)' = Tail(Coming(c))
            /\ at'[c] = p
            /\ told'[c] = IF p = "gone" THEN "unknown" ELSE Says(at[c], m, told[c])
            /\ c2s'[c] = IF p = "get_state" THEN Append(c2s[c], "get_state") ELSE c2s[c]
            /\ srv' = srv /\ next' = next
<1>1. s2c[c] \in Seq(Answers) /\ out \in Seq(Answers) /\ s2c[c] # <<>>
  BY DEF ProtoTypeOK, Receive
<1>2. /\ Coming(c) # <<>> /\ Head(Coming(c)) = Head(s2c[c]) /\ Head(s2c[c]) \in Answers
      /\ Tail(s2c[c]) \o out = Tail(Coming(c))
  BY <1>1, Read DEF Coming
<1>3. s2c'[c] = Tail(s2c[c]) /\ out' = out /\ srv' = srv /\ next' = next
  BY DEF Receive, ProtoTypeOK, serverVars
<1>4. Coming(c)' = Tail(Coming(c))
  BY <1>2, <1>3 DEF Coming
<1> DEFINE p == AfterMessage(at[c], Head(s2c[c]))
<1>5. /\ at' = [at EXCEPT ![c] = p]
      /\ told' = [told EXCEPT ![c] = IF p = "gone" THEN "unknown" ELSE Says(at[c], Head(s2c[c]), @)]
      /\ c2s' = IF p = "get_state" THEN [c2s EXCEPT ![c] = Append(@, "get_state")] ELSE c2s
  BY DEF Receive
<1>6. p = AfterMessage(at[c], Head(Coming(c)))
  BY <1>2
<1> HIDE DEF p
<1>7. QED
  BY <1>2, <1>3, <1>4, <1>5, <1>6 DEF ProtoTypeOK

LEMMA RepliesRead ==
  ASSUME ProtoTypeOK, NEW c \in Clients, Replied(c), c2s[c] = <<>>, Receive(c)
  PROVE  Dialogue(c)'
<1> DEFINE w == Coming(c)
           m == Head(w)
           p == AfterMessage(at[c], m)
<1>0. /\ w # <<>> /\ Coming(c)' = Tail(w) /\ at'[c] = p
      /\ told'[c] = IF p = "gone" THEN "unknown" ELSE Says(at[c], m, told[c])
      /\ c2s'[c] = IF p = "get_state" THEN Append(c2s[c], "get_state") ELSE c2s[c]
      /\ srv' = srv /\ next' = next
  BY Reads
<1>1. Informed(c)
  BY DEF Replied
<1> HIDE DEF w
<1> USE DEF RunStates
<1>2. CASE srv = "type" /\ at[c] = "setup" /\ w = <<"setup", "run_types">>
  <2>1. m = "setup" /\ Tail(w) = <<"run_types">> /\ p = "types"
    BY <1>2, Twos DEF AfterMessage
  <2>2. told'[c] = told[c]
    BY <1>0, <1>2, <2>1 DEF Says
  <2>3. Replied(c)'
    BY <1>0, <1>1, <1>2, <2>1, <2>2 DEF Replied, Informed
  <2>4. QED
    BY <1>0, <2>1, <2>3 DEF Dialogue
<1>3. CASE srv = "type" /\ at[c] = "types" /\ w = <<"run_types">>
  <2>1. m = "run_types" /\ Tail(w) = <<>> /\ p = "ask_type"
    BY <1>3, Ones DEF AfterMessage
  <2>2. told'[c] = told[c]
    BY <1>0, <1>3, <2>1 DEF Says
  <2>3. Asked(c)'
    BY <1>0, <1>1, <1>3, <2>1, <2>2 DEF Asked, Informed
  <2>4. QED
    BY <2>3 DEF Dialogue
<1>4. CASE srv = "crew" /\ at[c] = "type" /\ w = <<"good_type", "run_number", "shift_crew">>
  <2>1. m = "good_type" /\ Tail(w) = <<"run_number", "shift_crew">> /\ p = "number"
    BY <1>4, Threes DEF AfterMessage
  <2>2. told'[c] = told[c]
    BY <1>0, <1>4, <2>1 DEF Says
  <2>3. Replied(c)'
    BY <1>0, <1>1, <1>4, <2>1, <2>2 DEF Replied, Informed
  <2>4. QED
    BY <1>0, <2>1, <2>3 DEF Dialogue
<1>5. CASE srv = "crew" /\ at[c] = "number" /\ w = <<"run_number", "shift_crew">>
  <2>1. m = "run_number" /\ Tail(w) = <<"shift_crew">> /\ p = "crew"
    BY <1>5, Twos DEF AfterMessage
  <2>2. told'[c] = told[c]
    BY <1>0, <1>5, <2>1 DEF Says
  <2>3. Replied(c)'
    BY <1>0, <1>1, <1>5, <2>1, <2>2 DEF Replied, Informed
  <2>4. QED
    BY <1>0, <2>1, <2>3 DEF Dialogue
<1>6. CASE \/ srv = "crew" /\ at[c] = "crew" /\ w = <<"shift_crew">>
           \/ srv = "comment" /\ at[c] = "comment" /\ w = <<"run_comment">>
           \/ srv = "end" /\ at[c] = "stop" /\ w = <<"run_comment_end">>
  <2>1. /\ Tail(w) = <<>>
        /\ <<p, srv>> \in {<<"ask_crew", "crew">>, <<"ask_comment", "comment">>, <<"ask_end", "end">>}
    BY <1>6, Ones DEF AfterMessage
  <2>2. told'[c] = told[c]
    BY <1>0, <1>6, <2>1, Ones DEF Says
  <2>3. Asked(c)'
    BY <1>0, <1>1, <2>1, <2>2 DEF Asked, Informed
  <2>4. QED
    BY <2>3 DEF Dialogue
<1>7. CASE srv = "launch" /\ at[c] = "start" /\ w = <<"init_start">>
  <2>1. m = "init_start" /\ Tail(w) = <<>> /\ p = "init"
    BY <1>7, Ones DEF AfterMessage
  <2>2. told'[c] = told[c]
    BY <1>0, <1>7, <2>1 DEF Says
  <2>3. Replied(c)'
    BY <1>0, <1>1, <1>7, <2>1, <2>2 DEF Replied, Informed
  <2>4. QED
    BY <1>0, <2>1, <2>3 DEF Dialogue
<1>8. CASE srv = "exit" /\ at[c] = "bye" /\ w = <<"exiting">>
  BY <1>0, <1>8 DEF AfterMessage, Dialogue
<1>9. CASE /\ srv = "cmd" /\ \/ at[c] = "type" /\ w = <<"error">>
                             \/ at[c] = "start" /\ w = <<"init_error">>
                             \/ at[c] = "answer" /\ w = <<"answer">>
                             \/ at[c] \in Refusable \ {"abort", "start_run"} /\ w = <<"unknown command">>
  <2>1. Tail(w) = <<>> /\ p = "prompt"
    BY <1>9, Ones DEF AfterMessage, Refusable
  <2>2. told'[c] = told[c]
    <3>1. m \in {"error", "init_error", "answer", "unknown command"}
      BY <1>9, Ones
    <3>2. Says(at[c], m, told[c]) = told[c]
      BY <3>1 DEF Says
    <3>3. QED
      BY <1>0, <2>1, <3>2
  <2>3. Asked(c)'
    BY <1>0, <1>1, <1>9, <2>1, <2>2 DEF Asked, Informed
  <2>4. QED
    BY <2>3 DEF Dialogue
<1>10. CASE srv = "cmd" /\ at[c] = "start_run" /\ w = <<"unknown command">>
  <2>1. m = "unknown command" /\ Tail(w) = <<>> /\ p = "get_state"
    BY <1>10, Ones DEF AfterMessage
  <2>2. told'[c] = told[c] /\ c2s'[c] = <<"get_state">>
    BY <1>0, <1>10, <2>1, Ones DEF Says
  <2>3. Spoken(c)'
    BY <1>0, <1>1, <1>10, <2>1, <2>2 DEF Spoken, Informed, Commands
  <2>4. QED
    BY <2>3 DEF Dialogue
<1>11. CASE srv = "cmd" /\ at[c] = "abort" /\ next # "initialized" /\ w = <<"unknown command">>
  <2>1. m = "unknown command" /\ Tail(w) = <<>> /\ p = "abort"
    BY <1>11, Ones DEF AfterMessage
  <2>2. told'[c] = told[c]
    BY <1>0, <1>11, <2>1 DEF Says
  <2>3. Replied(c)'
    BY <1>0, <1>1, <1>11, <2>1, <2>2 DEF Replied, Informed
  <2>4. QED
    BY <1>0, <2>1, <2>3 DEF Dialogue
<1>12. QED
  BY <1>0, <1>2, <1>3, <1>4, <1>5, <1>6, <1>7, <1>8, <1>9, <1>10, <1>11 DEF Replied, Refusable, w

(* The message that says what the state of the run is comes last, after    *)
(* progress messages.                                                      *)
LEMMA ReportsRead ==
  ASSUME ProtoTypeOK, NEW c \in Clients, Reported(c), c2s[c] = <<>>, Receive(c)
  PROVE  Dialogue(c)'
<1> DEFINE w == Coming(c)
           m == Head(w)
           p == AfterMessage(at[c], m)
<1>0. /\ w # <<>> /\ Coming(c)' = Tail(w) /\ at'[c] = p
      /\ told'[c] = IF p = "gone" THEN "unknown" ELSE Says(at[c], m, told[c])
      /\ c2s'[c] = IF p = "get_state" THEN Append(c2s[c], "get_state") ELSE c2s[c]
      /\ srv' = srv /\ next' = next
  BY Reads
<1>1. srv = "cmd" /\ w \in Seq(Answers) /\ next \in RunStates
  BY ComingIs DEF Reported, ProtoTypeOK
<1> HIDE DEF w
<1>2. ASSUME Tail(w) = <<>>, p = "prompt", Says(at[c], m, told[c]) = next
      PROVE  Dialogue(c)'
  BY <1>0, <1>1, <1>2 DEF Asked, Informed, Dialogue
<1>3. CASE at[c] \in {"answer", "get_state"} /\ w = <<next>>
  BY <1>1, <1>2, <1>3, Ones DEF AfterMessage, Says, RunStates
<1>4. CASE at[c] = "start_run" /\ w = <<"run_started">> /\ next = "running"
  BY <1>1, <1>2, <1>4, Ones DEF AfterMessage, Says, RunStates
<1>5. CASE at[c] \in {"abort", "term"} /\ Ends(w, {"terminate_ok", "terminate_error"}) /\ next = "idle"
  <2>1. /\ m = "progress" => Ends(Tail(w), {"terminate_ok", "terminate_error"})
        /\ m # "progress" => m \in {"terminate_ok", "terminate_error"} /\ Tail(w) = <<>>
    BY <1>1, <1>5, EndsRead
  <2>2. CASE m = "progress"
    <3>1. p = at[c]
      BY <1>5, <2>2 DEF AfterMessage
    <3>2. Reported(c)'
      BY <1>0, <1>1, <1>5, <2>1, <2>2, <3>1 DEF Reported
    <3>3. QED
      BY <1>0, <1>5, <3>1, <3>2 DEF Dialogue
  <2>3. CASE m # "progress"
    BY <1>2, <1>5, <2>1, <2>3 DEF AfterMessage, Says, RunStates
  <2>4. QED
    BY <2>2, <2>3
<1>6. CASE at[c] = "start" /\ Head(w) = "init_start" /\ InitEnds(Tail(w))
  <2>1. p = "init"
    BY <1>6 DEF AfterMessage
  <2>2. Reported(c)'
    BY <1>0, <1>1, <1>6, <2>1 DEF Reported, InitEnds
  <2>3. QED
    BY <1>0, <2>1, <2>2 DEF Dialogue
<1>7. CASE at[c] = "init" /\ InitEnds(w)
  <2>1. PICK last : /\ Ends(w, last)
                    /\ \/ last = {"init_ready"} /\ next = "initialized"
                       \/ last = {"init_fail", "init_timeout"} /\ next = "idle"
    BY <1>7 DEF InitEnds
  <2>2. /\ m = "progress" => Ends(Tail(w), last)
        /\ m # "progress" => m \in last /\ Tail(w) = <<>>
    BY <1>1, <2>1, EndsRead
  <2>3. CASE m = "progress"
    <3>1. p = at[c]
      BY <1>7, <2>3 DEF AfterMessage
    <3>2. InitEnds(Tail(w))
      BY <2>1, <2>2, <2>3 DEF InitEnds
    <3>3. Reported(c)'
      BY <1>0, <1>1, <1>7, <3>1, <3>2 DEF Reported, InitEnds
    <3>4. QED
      BY <1>0, <1>7, <3>1, <3>3 DEF Dialogue
  <2>4. CASE m # "progress"
    BY <1>2, <1>7, <2>1, <2>2, <2>4 DEF AfterMessage, Says, RunStates
  <2>5. QED
    BY <2>3, <2>4
<1>8. QED
  BY <1>3, <1>4, <1>5, <1>6, <1>7 DEF Reported, w

(* The handlers answer what was said.                                      *)
LEMMA Hears ==
  ASSUME ProtoTypeOK, NEW c \in Clients, c = caller, Dialogue(c), at[c] # "gone",
         NEW p, NEW m, Get(p, m)
  PROVE  /\ srv = p /\ out = <<>> /\ state = next
         /\ s2c[c] = <<>> /\ s2c' = s2c
         /\ c2s'[c] = <<>> /\ Informed(c)
         /\ caller' = caller /\ at' = at /\ told' = told /\ said' = said
         /\ \/ p = "cmd" /\ m \in Commands /\ at[c] = WaitFor(m)
            \/ p = "cmd" /\ m = "get_state" /\ at[c] = "get_state"
            \/ p = "type" /\ at[c] = "type" /\ said[c] = m
            \/ <<p, at[c]>> \in {<<"crew", "comment">>, <<"comment", "start">>, <<"end", "term">>}
<1>1. /\ srv = p /\ out = <<>> /\ state = next /\ c2s[c] # <<>> /\ m = Head(c2s[c])
      /\ c2s' = [c2s EXCEPT ![c] = Tail(@)]
      /\ UNCHANGED <<clientVars, s2c, caller>>
  BY DEF Get, Ready
<1>2. Spoken(c)
  BY <1>1, SpokenAt
<1>3. PICK k \in Commands \cup RunTypes \cup Texts :
       /\ c2s[c] = <<k>>
       /\ \/ srv = "cmd" /\ k \in Commands /\ at[c] = WaitFor(k)
          \/ srv = "cmd" /\ k = "get_state" /\ at[c] = "get_state"
          \/ srv = "type" /\ at[c] = "type" /\ said[c] = k
          \/ <<srv, at[c]>> \in {<<"crew", "comment">>, <<"comment", "start">>, <<"end", "term">>}
  BY <1>2 DEF Spoken
<1>4. m = k /\ c2s'[c] = <<>>
  BY <1>1, <1>3, Ones DEF ProtoTypeOK
<1>5. s2c[c] = <<>>
  BY <1>2, ComingIs DEF Spoken
<1>6. QED
  BY <1>1, <1>2, <1>3, <1>4, <1>5 DEF Spoken, clientVars

LEMMA SaysIt ==
  ASSUME ProtoTypeOK', NEW c \in Clients, s2c[c] = <<>>, s2c' = s2c,
         NEW msgs, NEW p, NEW s, Say(msgs, p, s)
  PROVE  Coming(c)' = msgs /\ srv' = p /\ next' = s
  BY ComingNext DEF Say

LEMMA WaitsAre ==
  /\ WaitFor("new_run") = "setup" /\ WaitFor("start_run") = "start_run"
  /\ WaitFor("stop_run") = "stop" /\ WaitFor("abort_run") = "abort"
  /\ WaitFor("shutdown") = "bye"
  /\ WaitFor("get_state") = "answer" /\ WaitFor("query") = "answer"
  BY DEF WaitFor

LEMMA CommandAnswered ==
  ASSUME ProtoTypeOK, ProtoTypeOK', NEW c \in Clients, c = caller, Dialogue(c), at[c] # "gone",
         NewRun \/ StartRun \/ AbortRun \/ StopRun \/ GetState \/ Query \/ Shutdown \/ UnknownCommand
  PROVE  Dialogue(c)'
<1>0. ASSUME NEW m, NEW msgs, NEW p, NEW s, Get("cmd", m), Say(msgs, p, s)
      PROVE  /\ Coming(c)' = msgs /\ srv' = p /\ next' = s /\ state = next
             /\ at' = at /\ told' = told /\ said' = said
             /\ c2s'[c] = <<>> /\ Informed(c)
             /\ \/ m \in Commands /\ at[c] = WaitFor(m)
                \/ m = "get_state" /\ at[c] = "get_state"
  <2>1. /\ s2c[c] = <<>> /\ s2c' = s2c /\ state = next
        /\ at' = at /\ told' = told /\ said' = said
        /\ c2s'[c] = <<>> /\ Informed(c) /\ caller' = caller
        /\ \/ m \in Commands /\ at[c] = WaitFor(m)
           \/ m = "get_state" /\ at[c] = "get_state"
    BY <1>0, Hears
  <2>2. QED
    BY <1>0, <2>1, SaysIt
<1>4. ASSUME c2s'[c] = <<>>, Replied(c)' \/ Reported(c)' PROVE Dialogue(c)'
  BY <1>4 DEF Dialogue
<1>5. CASE NewRun
  <2>1. Get("cmd", "new_run") /\ Say(<<"setup", "run_types">>, "type", state)
    BY <1>5 DEF NewRun
  <2>2. /\ Coming(c)' = <<"setup", "run_types">> /\ srv' = "type" /\ next' = next
        /\ at' = at /\ told' = told /\ c2s'[c] = <<>> /\ Informed(c) /\ at[c] = "setup"
    BY <1>0, <2>1, WaitsAre
  <2>3. QED
    BY <1>4, <2>2 DEF Replied, Informed
<1>6. CASE StartRun
  <2>1. Get("cmd", "start_run") /\ Say(<<"run_started">>, "cmd", "running")
    BY <1>6 DEF StartRun
  <2>2. /\ Coming(c)' = <<"run_started">> /\ srv' = "cmd" /\ next' = "running"
        /\ at' = at /\ c2s'[c] = <<>> /\ at[c] = "start_run"
    BY <1>0, <2>1, WaitsAre
  <2>3. QED
    BY <1>4, <2>2 DEF Reported
<1>7. CASE AbortRun
  <2>1. PICK msgs \in Terminated : Get("cmd", "abort_run") /\ Say(msgs, "cmd", "idle")
    BY <1>7 DEF AbortRun
  <2>2. /\ Coming(c)' = msgs /\ srv' = "cmd" /\ next' = "idle"
        /\ at' = at /\ c2s'[c] = <<>> /\ at[c] = "abort"
    BY <1>0, <2>1, WaitsAre
  <2>3. Ends(msgs, {"terminate_ok", "terminate_error"})
    BY TerminatedIs
  <2>4. QED
    BY <1>4, <2>2, <2>3 DEF Reported
<1>8. CASE StopRun
  <2>1. Get("cmd", "stop_run") /\ Say(<<"run_comment_end">>, "end", state)
    BY <1>8 DEF StopRun
  <2>2. /\ Coming(c)' = <<"run_comment_end">> /\ srv' = "end" /\ next' = next
        /\ at' = at /\ told' = told /\ c2s'[c] = <<>> /\ Informed(c) /\ at[c] = "stop"
    BY <1>0, <2>1, WaitsAre
  <2>3. QED
    BY <1>4, <2>2 DEF Replied, Informed
<1>9. CASE GetState
  <2>1. Get("cmd", "get_state") /\ Say(<<state>>, "cmd", state)
    BY <1>9 DEF GetState
  <2>2. /\ Coming(c)' = <<next'>> /\ srv' = "cmd"
        /\ at' = at /\ c2s'[c] = <<>> /\ at[c] \in {"answer", "get_state"}
    BY <1>0, <2>1, WaitsAre
  <2>3. QED
    BY <1>4, <2>2 DEF Reported
<1>10. CASE Query
  <2>1. Get("cmd", "query") /\ Say(<<"answer">>, "cmd", state)
    BY <1>10 DEF Query
  <2>2. /\ Coming(c)' = <<"answer">> /\ srv' = "cmd" /\ next' = next
        /\ at' = at /\ told' = told /\ c2s'[c] = <<>> /\ Informed(c) /\ at[c] = "answer"
    BY <1>0, <2>1, WaitsAre
  <2>3. QED
    BY <1>4, <2>2 DEF Replied, Informed
<1>11. CASE Shutdown
  <2>1. Get("cmd", "shutdown") /\ Say(<<"exiting">>, "exit", state)
    BY <1>11 DEF Shutdown
  <2>2. /\ Coming(c)' = <<"exiting">> /\ srv' = "exit" /\ next' = next
        /\ at' = at /\ told' = told /\ c2s'[c] = <<>> /\ Informed(c) /\ at[c] = "bye"
    BY <1>0, <2>1, WaitsAre
  <2>3. QED
    BY <1>4, <2>2 DEF Replied, Informed
<1>12. CASE UnknownCommand
  <2>1. PICK m : /\ m \notin Known /\ Get("cmd", m)
                 /\ Say(<<"unknown command">>, "cmd", state)
    BY <1>12 DEF UnknownCommand
  <2>2. /\ Coming(c)' = <<"unknown command">> /\ srv' = "cmd" /\ next' = state /\ state = next
        /\ at' = at /\ told' = told /\ c2s'[c] = <<>> /\ Informed(c)
    BY <1>0, <2>1
  <2>3. m \in Commands /\ at[c] = WaitFor(m)
    BY <1>0, <2>1 DEF Known
  <2>4. m # "client_close"
    BY <2>1 DEF Get
  <2>5. at[c] \in Refusable /\ (at[c] = "abort" => m = "abort_run")
    BY <2>1, <2>3, <2>4 DEF Known, Commands, WaitFor, Refusable
  <2>6. m = "abort_run" => state # "initialized"
    BY <2>1 DEF Known
  <2>7. QED
    BY <1>4, <2>2, <2>5, <2>6 DEF Replied, Informed
<1>13. QED
  BY <1>5, <1>6, <1>7, <1>8, <1>9, <1>10, <1>11, <1>12

LEMMA AnswerAnswered ==
  ASSUME ProtoTypeOK, ProtoTypeOK', NEW c \in Clients, c = caller, Dialogue(c), at[c] # "gone",
         RunType \/ ShiftCrew \/ RunComment \/ RunCommentEnd
  PROVE  Dialogue(c)'
<1>0. ASSUME NEW q, NEW m, NEW msgs, NEW p, NEW s, Get(q, m), Say(msgs, p, s)
      PROVE  /\ Coming(c)' = msgs /\ srv' = p /\ next' = s /\ state = next
             /\ at' = at /\ told' = told /\ said' = said
             /\ c2s'[c] = <<>> /\ Informed(c)
             /\ q = "type" => at[c] = "type" /\ said[c] = m
             /\ q = "crew" => at[c] = "comment"
             /\ q = "comment" => at[c] = "start"
             /\ q = "end" => at[c] = "term"
  <2>1. /\ s2c[c] = <<>> /\ s2c' = s2c /\ state = next
        /\ at' = at /\ told' = told /\ said' = said
        /\ c2s'[c] = <<>> /\ Informed(c) /\ caller' = caller
        /\ q = "type" => at[c] = "type" /\ said[c] = m
        /\ q = "crew" => at[c] = "comment"
        /\ q = "comment" => at[c] = "start"
        /\ q = "end" => at[c] = "term"
    BY <1>0, Hears
  <2>2. QED
    BY <1>0, <2>1, SaysIt
<1>4. ASSUME c2s'[c] = <<>>, Replied(c)' \/ Reported(c)' PROVE Dialogue(c)'
  BY <1>4 DEF Dialogue
<1>5. CASE RunType
  <2>1. PICK m : /\ Get("type", m)
                 /\ IF m = "good_type" THEN Say(<<m, "run_number", "shift_crew">>, "crew", state)
                    ELSE Say(IF m = "error" THEN <<>> ELSE <<"error">>, "cmd", state)
    BY <1>5 DEF RunType
  <2>2. CASE m = "good_type"
    <3>1. /\ Coming(c)' = <<"good_type", "run_number", "shift_crew">> /\ srv' = "crew" /\ next' = next
          /\ at' = at /\ told' = told /\ c2s'[c] = <<>> /\ Informed(c) /\ at[c] = "type"
      BY <1>0, <2>1, <2>2
    <3>2. QED
      BY <1>4, <3>1 DEF Replied, Informed
  <2>3. CASE m = "error"
    <3>1. Say(<<>>, "cmd", state)
      BY <2>1, <2>3
    <3>2. /\ Coming(c)' = <<>> /\ srv' = "cmd" /\ next' = next
          /\ at' = at /\ told' = told /\ c2s'[c] = <<>> /\ Informed(c) /\ at[c] = "type"
          /\ said'[c] = "error"
      BY <1>0, <2>1, <2>3, <3>1
    <3>3. QED
      BY <1>4, <3>2 DEF Replied, Informed
  <2>4. CASE m # "good_type" /\ m # "error"
    <3>1. Say(<<"error">>, "cmd", state)
      BY <2>1, <2>4
    <3>2. /\ Coming(c)' = <<"error">> /\ srv' = "cmd" /\ next' = next
          /\ at' = at /\ told' = told /\ c2s'[c] = <<>> /\ Informed(c) /\ at[c] = "type"
      BY <1>0, <2>1, <3>1
    <3>3. QED
      BY <1>4, <3>2 DEF Replied, Informed
  <2>5. QED
    BY <2>2, <2>3, <2>4
<1>6. CASE ShiftCrew
  <2>1. PICK m : Get("crew", m) /\ Say(<<"run_comment">>, "comment", state)
    BY <1>6 DEF ShiftCrew
  <2>2. /\ Coming(c)' = <<"run_comment">> /\ srv' = "comment" /\ next' = next
        /\ at' = at /\ told' = told /\ c2s'[c] = <<>> /\ Informed(c) /\ at[c] = "comment"
    BY <1>0, <2>1
  <2>3. QED
    BY <1>4, <2>2 DEF Replied, Informed
<1>7. CASE RunComment
  <2>1. PICK m : /\ Get("comment", m)
                 /\ Say(<<"init_error">>, "cmd", state) \/ Say(<<"init_start">>, "launch", state)
    BY <1>7 DEF RunComment
  <2>2. PICK msgs, p : /\ Say(msgs, p, state)
                       /\ \/ msgs = <<"init_error">> /\ p = "cmd"
                          \/ msgs = <<"init_start">> /\ p = "launch"
    BY <2>1
  <2>3. /\ Coming(c)' = msgs /\ srv' = p /\ next' = next
        /\ at' = at /\ told' = told /\ c2s'[c] = <<>> /\ Informed(c) /\ at[c] = "start"
    BY <1>0, <2>1, <2>2
  <2>4. QED
    BY <1>4, <2>2, <2>3 DEF Replied, Informed
<1>8. CASE RunCommentEnd
  <2>0. PICK m : Get("end", m)
    BY <1>8 DEF RunCommentEnd
  <2>1. PICK msgs \in Terminated : Say(msgs, "cmd", "idle")
    BY <1>8 DEF RunCommentEnd
  <2>2. /\ Coming(c)' = msgs /\ srv' = "cmd" /\ next' = "idle"
        /\ at' = at /\ c2s'[c] = <<>> /\ at[c] = "term"
    BY <1>0, <2>0, <2>1
  <2>3. Ends(msgs, {"terminate_ok", "terminate_error"})
    BY TerminatedIs
  <2>4. QED
    BY <1>4, <2>2, <2>3 DEF Reported
<1>9. QED
  BY <1>5, <1>6, <1>7, <1>8

(* The initialisation ends while init_start may be still on the way.       *)
LEMMA Launched ==
  ASSUME ProtoTypeOK, ProtoTypeOK', NEW c \in Clients, c = caller, Dialogue(c), at[c] # "gone", Launch
  PROVE  Dialogue(c)'
<1>1. /\ srv = "launch" /\ out = <<>> /\ caller' = caller
      /\ UNCHANGED <<clientVars, c2s, s2c>>
  BY DEF Launch, Ready, netVars
<1>3. /\ c2s[c] = <<>>
      /\ \/ at[c] = "start" /\ s2c[c] = <<"init_start">>
         \/ at[c] = "init" /\ s2c[c] = <<>>
  BY <1>1, ComingIs DEF Dialogue, Asked, Spoken, Replied, Reported
<1>4. PICK n \in 0 .. MaxProgress, m \in {"init_ready", "init_fail", "init_timeout"} :
        Say(Append(Progress(n), m), "cmd", IF m = "init_ready" THEN "initialized" ELSE "idle")
  BY DEF Launch
<1> DEFINE w == Append(Progress(n), m)
<1>5. w \in Seq(Answers) /\ InitEnds(w)'
  <2>1. n \in Nat
    BY BoundsAssumption
  <2>2. m \in Answers
    BY DEF Answers, Final
  <2>3. w \in Seq(Answers) /\ (\A last : m \in last => Ends(w, last))
    BY <2>1, <2>2, EndsMade
  <2>4. CASE m = "init_ready"
    BY <1>4, <2>3, <2>4 DEF InitEnds, Say
  <2>5. CASE m # "init_ready"
    BY <1>4, <2>3, <2>5 DEF InitEnds, Say
  <2>6. QED
    BY <2>3, <2>4, <2>5
<1>6. out' = w /\ srv' = "cmd" /\ s2c' = s2c /\ at' = at /\ c2s'[c] = <<>>
  BY <1>1, <1>3, <1>4 DEF Say, clientVars
<1> HIDE DEF w
<1>7. CASE at[c] = "init" /\ s2c[c] = <<>>
  <2>1. Coming(c)' = w
    BY <1>6, <1>7, ComingNext
  <2>2. Reported(c)'
    BY <1>5, <1>6, <1>7, <2>1 DEF Reported, InitEnds
  <2>3. QED
    BY <1>6, <2>2 DEF Dialogue
<1>8. CASE at[c] = "start" /\ s2c[c] = <<"init_start">>
  <2>1. "init_start" \in Answers
    BY DEF Answers
  <2>2. <<"init_start">> \in Seq(Answers)
    BY <2>1
  <2>3. LET v == <<"init_start">> \o w
        IN v # <<>> /\ Head(v) = "init_start" /\ <<>> \o w = Tail(v)
    BY <1>5, <2>2, Read, Ones
  <2>4. Coming(c)' = <<"init_start">> \o w
    BY <1>6, <1>8 DEF Coming
  <2>5. <<>> \o w = w
    BY <1>5
  <2>6. Coming(c)' # <<>> /\ Head(Coming(c)') = "init_start" /\ Tail(Coming(c)') = w
    BY <2>3, <2>4, <2>5
  <2>7. Reported(c)'
    BY <1>5, <1>6, <1>8, <2>6 DEF Reported, InitEnds
  <2>8. QED
    BY <1>6, <2>7 DEF Dialogue
<1>9. QED
  BY <1>3, <1>7, <1>8

(* A step of a client other than the one looked at leaves that one alone.  *)
LEMMA InitDialogue == ProtoInit => DialogueInv
<1> SUFFICES ASSUME ProtoInit, NEW c \in Clients PROVE c # caller /\ NotServed(c)
  BY DEF DialogueInv
<1>1. c # caller
  BY ClientsAssumption DEF ProtoInit
<1>2. /\ at[c] = "off" /\ c2s[c] = <<>> /\ s2c[c] = <<>> /\ told[c] = "unknown"
      /\ backlog = <<>>
  BY DEF ProtoInit
<1>3. ~InBacklog(c)
  BY <1>2 DEF InBacklog
<1>4. QED
  BY <1>1, <1>2, <1>3 DEF NotServed

LEMMA ClientsTalk ==
  ASSUME Inv, ProtoTypeOK', Up, NEW d \in Clients, ClientNext(d), NEW c \in Clients
  PROVE  IF c = caller' THEN Dialogue(c)' ELSE NotServed(c)'
<1>1. /\ UNCHANGED serverVars
      /\ c # d => /\ at'[c] = at[c] /\ c2s'[c] = c2s[c] /\ s2c'[c] = s2c[c]
                  /\ told'[c] = told[c] /\ said'[c] = said[c]
      /\ \/ Connect(d) /\ backlog' = Append(backlog, d) /\ at[d] = "off"
         \/ backlog' = backlog
  BY NotBack DEF Inv
<1>2. IF c = caller THEN Dialogue(c) ELSE NotServed(c)
  BY DEF Inv, DialogueInv
<1>3. c # d => (InBacklog(c)' <=> InBacklog(c))
  <2> SUFFICES ASSUME c # d PROVE InBacklog(c)' <=> InBacklog(c)
    OBVIOUS
  <2>1. CASE backlog' = backlog
    BY <2>1 DEF InBacklog
  <2>2. CASE backlog' = Append(backlog, d)
    <3>1. backlog \in Seq(Clients)
      BY DEF Inv, ProtoTypeOK
    <3>2. /\ DOMAIN backlog' = DOMAIN backlog \cup {Len(backlog) + 1}
          /\ backlog'[Len(backlog) + 1] = d
          /\ \A i \in DOMAIN backlog : backlog'[i] = backlog[i]
      BY <2>2, <3>1
    <3>3. QED
      BY <3>2 DEF InBacklog
  <2>3. QED
    BY <1>1, <2>1, <2>2
<1>4. CASE c # d /\ c = caller
  <2>1. Coming(c)' = Coming(c)
    BY <1>1, <1>4 DEF Coming, serverVars
  <2>2. QED
    BY <1>1, <1>2, <1>4, <2>1, DialogueKept DEF serverVars
<1>5. CASE c # d /\ c # caller
  BY <1>1, <1>2, <1>3, <1>5, NotServedKept DEF serverVars
<1>6. CASE c = d /\ c = caller
  <2>0. ClientNext(c) /\ caller' = caller /\ Dialogue(c) /\ ProtoTypeOK
    BY <1>1, <1>2, <1>6 DEF serverVars, Inv
  <2>1. CASE at[c] = "gone"
    BY <2>0, <2>1 DEF ClientNext, Connect, ConnectFails, TypeCommand, TypeReply, Receive, EndOfFile,
                      Quit, Waits, Prompts
  <2>2. CASE at[c] # "gone" /\ (Connect(c) \/ ConnectFails(c))
    BY <2>0, <2>2, SpokenAt DEF Connect, ConnectFails
  <2>3. CASE TypeCommand(c) \/ TypeReply(c)
    BY <1>6, <2>0, <2>3, TypesOn
  <2>4. CASE Receive(c)
    <3>1. Coming(c) # <<>> /\ at[c] \in Waits
      BY <2>0, <2>4, Reads DEF Receive
    <3>2. at[c] # "gone"
      BY <3>1 DEF Waits
    <3>3. c2s[c] = <<>> /\ (Replied(c) \/ Reported(c))
      BY <2>0, <3>1, <3>2, SpokenAt DEF Dialogue
    <3>4. QED
      BY <1>6, <2>0, <2>4, <3>3, RepliesRead, ReportsRead
  <2>5. CASE EndOfFile(c) \/ Quit(c)
    <3>1. at'[c] = "gone"
      BY <2>0, <2>5 DEF EndOfFile, Quit, Gone, ProtoTypeOK
    <3>2. QED
      BY <1>6, <2>0, <3>1 DEF Dialogue
  <2>6. QED
    BY <2>0, <2>1, <2>2, <2>3, <2>4, <2>5 DEF ClientNext
<1>7. CASE c = d /\ c # caller
  <2>0. ClientNext(c) /\ c # caller' /\ NotServed(c) /\ ProtoTypeOK
    BY <1>1, <1>2, <1>7 DEF serverVars, Inv
  <2>1. ASSUME at'[c] = "gone" PROVE NotServed(c)'
    BY <2>1 DEF NotServed
  <2>2. CASE at[c] = "gone"
    BY <2>0, <2>2 DEF ClientNext, Connect, ConnectFails, TypeCommand, TypeReply, Receive, EndOfFile,
                      Quit, Waits, Prompts
  <2>3. CASE Connect(c)
    <3>1. /\ at'[c] = "prompt" /\ backlog' = Append(backlog, c) /\ s2c' = s2c /\ c2s' = c2s
          /\ told' = told /\ at[c] = "off"
      BY <2>0, <2>3 DEF Connect, ProtoTypeOK
    <3>2. InBacklog(c)'
      <4>1. backlog \in Seq(Clients)
        BY <2>0 DEF ProtoTypeOK
      <4>2. Len(backlog) + 1 \in DOMAIN backlog' /\ backlog'[Len(backlog) + 1] = c
        BY <3>1, <4>1
      <4>3. QED
        BY <4>2 DEF InBacklog
    <3>3. s2c[c] = <<>> /\ c2s[c] = <<>> /\ told[c] = "unknown"
      <4>1. \A m \in Commands : WaitFor(m) # "off"
        BY WaitsFor DEF Waits
      <4>2. QED
        BY <2>0, <3>1, <4>1 DEF NotServed, Waits
    <3>4. QED
      BY <2>0, <3>1, <3>2, <3>3 DEF NotServed
  <2>4. CASE ConnectFails(c) \/ EndOfFile(c) \/ Quit(c)
    BY <2>0, <2>1, <2>4 DEF ConnectFails, EndOfFile, Quit, Gone, ProtoTypeOK
  <2>5. CASE TypeCommand(c)
    <3>1. PICK m \in Commands : Send(c, m, WaitFor(m))
      BY <2>5 DEF TypeCommand
    <3>2. /\ at'[c] = WaitFor(m) /\ c2s'[c] = Append(c2s[c], m) /\ s2c' = s2c /\ told' = told
          /\ backlog' = backlog /\ at[c] = "prompt"
      BY <2>0, <2>5, <3>1 DEF Send, TypeCommand, ProtoTypeOK
    <3>3. s2c[c] = <<>> /\ c2s[c] = <<>> /\ told[c] = "unknown" /\ InBacklog(c)
      <4>1. \A k \in Commands : WaitFor(k) # "prompt"
        BY WaitsFor DEF Waits
      <4>2. QED
        BY <2>0, <3>2, <4>1 DEF NotServed, Waits
    <3>4. c2s'[c] = <<m>>
      BY <3>2, <3>3, Ones
    <3>5. InBacklog(c)'
      BY <3>2, <3>3 DEF InBacklog
    <3>6. QED
      BY <2>0, <3>2, <3>3, <3>4, <3>5 DEF NotServed
  <2>6. CASE TypeReply(c)
    <3>1. at[c] \in {"ask_type", "ask_crew", "ask_comment", "ask_end"}
      BY <2>6 DEF TypeReply
    <3>2. \A k \in Commands : WaitFor(k) \notin {"ask_type", "ask_crew", "ask_comment", "ask_end"}
      BY WaitsFor DEF Waits
    <3>3. QED
      BY <2>0, <3>1, <3>2 DEF NotServed, Waits
  <2>7. CASE at[c] # "gone" /\ Receive(c)
    BY <2>0, <2>7 DEF NotServed, Receive
  <2>8. QED
    BY <2>0, <2>2, <2>3, <2>4, <2>5, <2>6, <2>7 DEF ClientNext
<1>8. QED
  BY <1>4, <1>5, <1>6, <1>7

LEMMA ServerTalks ==
  ASSUME Inv, ProtoTypeOK', Up, Up', ServerNext \/ SigintHandler, NEW c \in Clients
  PROVE  IF c = caller' THEN Dialogue(c)' ELSE NotServed(c)'
<1>0. /\ ProtoTypeOK
      /\ IF c = caller THEN Dialogue(c) ELSE NotServed(c)
  BY DEF Inv, DialogueInv
<1>1. ASSUME c # caller, c # caller', UNCHANGED <<at, told, backlog>>,
             c2s'[c] = c2s[c], s2c'[c] = s2c[c]
      PROVE  IF c = caller' THEN Dialogue(c)' ELSE NotServed(c)'
  <2>1. InBacklog(c)' <=> InBacklog(c)
    BY <1>1 DEF InBacklog
  <2>2. QED
    BY <1>0, <1>1, <2>1, NotServedKept
<1>2. CASE Accept
  <2>1. /\ srv = "accept" /\ backlog # <<>> /\ caller' = Head(backlog) /\ backlog' = Tail(backlog)
        /\ srv' = "cmd" /\ UNCHANGED <<at, told, said, c2s, s2c, out, next>>
    BY <1>2 DEF Accept, clientVars
  <2>2. caller = NoClient /\ out = <<>>
    BY <2>1 DEF Inv, ServerInv
  <2>3. c # caller /\ NotServed(c)
    BY <1>0, <2>2, ClientsAssumption
  <2>4. backlog \in Seq(Clients)
    BY <1>0 DEF ProtoTypeOK
  <2>5. CASE c = caller'
    <3>1. InBacklog(c)
      BY <2>1, <2>4, <2>5 DEF InBacklog
    <3>2. CASE at[c] = "gone"
      BY <2>1, <2>5, <3>2 DEF Dialogue
    <3>3. CASE at[c] # "gone"
      <4>1. /\ s2c[c] = <<>> /\ told[c] = "unknown"
            /\ \/ at[c] = "prompt" /\ c2s[c] = <<>>
               \/ \E m \in Commands : at[c] = WaitFor(m) /\ c2s[c] = <<m>>
        BY <2>3, <3>1, <3>3 DEF NotServed
      <4>2. Coming(c)' = <<>>
        BY <2>1, <2>2, <4>1, ComingNext
      <4>3. Informed(c)'
        BY <2>1, <4>1 DEF Informed
      <4>4. CASE at[c] = "prompt" /\ c2s[c] = <<>>
        BY <2>1, <2>5, <4>2, <4>3, <4>4 DEF Asked, Dialogue
      <4>5. CASE \E m \in Commands : at[c] = WaitFor(m) /\ c2s[c] = <<m>>
        BY <2>1, <2>5, <4>2, <4>3, <4>5 DEF Spoken, Dialogue
      <4>6. QED
        BY <4>1, <4>4, <4>5
    <3>4. QED
      BY <3>2, <3>3
  <2>6. CASE c # caller'
    <3>1. InBacklog(c)' <=> InBacklog(c)
      <4>1. /\ \A i \in DOMAIN backlog' : i + 1 \in DOMAIN backlog /\ backlog'[i] = backlog[i + 1]
            /\ \A i \in DOMAIN backlog : i = 1 \/ (i - 1 \in DOMAIN backlog' /\ backlog'[i - 1] = backlog[i])
            /\ backlog[1] = caller'
        BY <2>1, <2>4
      <4>2. QED
        BY <2>6, <4>1 DEF InBacklog
    <3>2. QED
      BY <2>1, <2>3, <2>6, <3>1, NotServedKept
  <2>7. QED
    BY <2>5, <2>6
<1>3. CASE SendAnswer
  <2>1. /\ out # <<>> /\ s2c' = [s2c EXCEPT ![caller] = Append(@, Head(out))] /\ out' = Tail(out)
        /\ UNCHANGED <<at, told, said, c2s, backlog, caller, srv, next>>
    BY <1>3 DEF SendAnswer, clientVars
  <2>2. CASE c = caller
    <3>1. s2c'[c] = Append(s2c[c], Head(out)) /\ s2c[c] \in Seq(Answers) /\ out \in Seq(Answers)
      BY <1>0, <2>1, <2>2 DEF ProtoTypeOK
    <3>2. Coming(c)' = Coming(c)
      BY <2>1, <3>1, Sent DEF Coming
    <3>3. QED
      BY <1>0, <2>1, <2>2, <3>2, DialogueKept
  <2>3. CASE c # caller
    BY <1>0, <1>1, <2>1, <2>3 DEF ProtoTypeOK
  <2>4. QED
    BY <2>2, <2>3
<1>4. CASE ConnectionError \/ Exit \/ SigintExit \/ SigintHandler
  BY <1>4 DEF ConnectionError, Exit, SigintExit, Dies, SigintHandler, Up
<1>5. CASE ClientClose
  <2>1. /\ caller' = NoClient /\ UNCHANGED <<at, told, said, s2c, backlog, out>>
        /\ \/ c2s[caller] = <<>> /\ at[caller] = "gone" /\ c2s' = c2s
           \/ c2s[caller] # <<>> /\ c2s' = [c2s EXCEPT ![caller] = Tail(@)]
    BY <1>5 DEF ClientClose, HangUp, clientVars
  <2>2. c # caller'
    BY <2>1, ClientsAssumption
  <2>3. CASE c # caller
    BY <1>0, <1>1, <2>1, <2>2, <2>3 DEF ProtoTypeOK
  <2>4. CASE c = caller /\ at[c] = "gone"
    BY <2>1, <2>2, <2>4 DEF NotServed
  <2>5. CASE c = caller /\ at[c] # "gone"
    <3>1. Spoken(c)
      BY <1>0, <2>1, <2>5, SpokenAt
    <3>2. at[c] \in Waits
      BY <3>1, WaitsFor DEF Spoken, Waits
    <3>3. c2s'[c] = <<>>
      <4>1. PICK m : c2s[c] = <<m>>
        BY <3>1 DEF Spoken
      <4>2. c2s'[c] = Tail(c2s[c])
        BY <1>0, <2>1, <2>5 DEF ProtoTypeOK
      <4>3. QED
        BY <4>1, <4>2, Ones
    <3>4. s2c[c] = <<>>
      BY <1>0, <3>1, ComingIs DEF Spoken
    <3>5. ~InBacklog(c)'
      BY <2>1, <2>5 DEF InBacklog, Inv, BacklogInv
    <3>6. QED
      BY <2>1, <2>2, <3>2, <3>3, <3>4, <3>5 DEF NotServed
  <2>6. QED
    BY <2>3, <2>4, <2>5
<1>6. CASE NewState
  <2>1. UNCHANGED <<at, told, said, c2s, s2c, backlog, caller, srv, next, out>>
    BY <1>6 DEF NewState, clientVars, netVars
  <2>2. CASE c = caller
    <3>1. Coming(c)' = Coming(c)
      BY <2>1 DEF Coming
    <3>2. QED
      BY <1>0, <2>1, <2>2, <3>1, DialogueKept
  <2>3. CASE c # caller
    BY <1>1, <2>1, <2>3
  <2>4. QED
    BY <2>2, <2>3
<1>7. CASE Handling
  <2>1. UNCHANGED <<at, told, s2c, backlog, caller>>
    BY <1>7, HandlingIs DEF clientVars
  <2>2. CASE c # caller
    <3>1. c2s'[c] = c2s[c]
      BY <1>0, <1>7, <2>2
         DEF Handling, NewRun, StartRun, AbortRun, StopRun, GetState, Query, Shutdown, UnknownCommand,
             RunType, ShiftCrew, RunComment, Launch, RunCommentEnd, Get, netVars, ProtoTypeOK
    <3>2. QED
      BY <1>1, <2>1, <2>2, <3>1
  <2>3. CASE c = caller /\ at[c] = "gone"
    BY <2>1, <2>3 DEF Dialogue
  <2>4. CASE c = caller /\ at[c] # "gone"
    BY <1>0, <1>7, <2>1, <2>4, CommandAnswered, AnswerAnswered, Launched DEF Handling
  <2>5. QED
    BY <2>2, <2>3, <2>4
<1>8. QED
  BY <1>2, <1>3, <1>4, <1>5, <1>6, <1>7 DEF ServerNext, Handling

LEMMA DialogueStep == ASSUME Inv, ProtoTypeOK', [ProtoNext]_protoVars PROVE DialogueInv'
<1> SUFFICES ASSUME NEW c \in Clients, Up'
             PROVE  IF c = caller' THEN Dialogue(c)' ELSE NotServed(c)'
  BY DEF DialogueInv
<1>1. CASE UNCHANGED protoVars
  <2>1. /\ UNCHANGED <<at, said, told, c2s, s2c, backlog, caller, srv, next, out>>
        /\ Coming(c)' = Coming(c) /\ Up /\ (InBacklog(c)' <=> InBacklog(c))
    BY <1>1 DEF protoVars, clientVars, netVars, serverVars, Coming, Up, InBacklog
  <2>2. IF c = caller THEN Dialogue(c) ELSE NotServed(c)
    BY <2>1 DEF Inv, DialogueInv
  <2>3. QED
    BY <2>1, <2>2, DialogueKept, NotServedKept
<1>2. CASE \E d \in Clients : ClientNext(d)
  <2>1. PICK d \in Clients : ClientNext(d)
    BY <1>2
  <2>2. Up
    BY <2>1, NotBack DEF Inv, serverVars, Up
  <2>3. QED
    BY <2>1, <2>2, ClientsTalk
<1>3. CASE ServerNext \/ SigintHandler
  <2>1. CASE Handling
    <3>1. Up
      BY <2>1, HandlingIs DEF Up, Reading
    <3>2. QED
      BY <1>3, <3>1, ServerTalks
  <2>2. CASE ~Handling
    <3>1. Up
      BY <1>3, <2>2
         DEF ServerNext, Handling, Up, Accept, SendAnswer, ConnectionError, ClientClose, NewState, Exit,
             SigintExit, SigintHandler, Dies, Reading
    <3>2. QED
      BY <1>3, <3>1, ServerTalks
  <2>3. QED
    BY <2>1, <2>2
<1>4. QED
  BY <1>1, <1>2, <1>3 DEF ProtoNext

(* While the dialogue goes on, the states on the way are where they are    *)
(* asked for.                                                              *)
LEMMA StatesUp == ProtoTypeOK /\ DialogueInv /\ Up => StatesRead
<1> SUFFICES ASSUME ProtoTypeOK, DialogueInv, Up, NEW c \in Clients, at[c] # "gone",
                    NEW i \in DOMAIN s2c[c], s2c[c][i] \in RunStates
             PROVE  i = 1 /\ at[c] \in {"answer", "get_state"}
  BY DEF StatesRead
<1>1. s2c[c] \in Seq(Answers) /\ out \in Seq(Answers)
  BY DEF ProtoTypeOK
<1>2. s2c[c] # <<>> /\ i \in 1 .. Len(s2c[c])
  BY <1>1
<1>3. c = caller /\ Dialogue(c)
  BY <1>2 DEF DialogueInv, NotServed
<1>4. /\ i \in 1 .. Len(Coming(c)) /\ Coming(c)[i] = s2c[c][i] /\ Coming(c) # <<>>
      /\ Len(Coming(c)) \in Nat
  <2>1. s2c[c] \o out # <<>>
    BY <1>1, <1>2, NoneComing
  <2>2. QED
    BY <1>1, <1>2, <2>1 DEF Coming
<1>5. Replied(c) \/ Reported(c)
  BY <1>3, <1>4, SpokenAt DEF Dialogue
<1> DEFINE w == Coming(c)
<1> HIDE DEF w
<1>6. ASSUME NEW last, Ends(w, last), last \cap RunStates = {}, i \in 1 .. Len(w), w[i] \in RunStates,
             Len(w) \in Nat
      PROVE  FALSE
  <2>1. i = Len(w) \/ i \in 1 .. Len(w) - 1
    BY <1>6
  <2>2. w[i] \in last \/ w[i] = "progress"
    BY <1>6, <2>1 DEF Ends
  <2>3. QED
    BY <1>6, <2>2 DEF RunStates
<1>7. ASSUME InitEnds(w), i \in 1 .. Len(w), w[i] \in RunStates, Len(w) \in Nat
      PROVE  FALSE
  <2>1. PICK last \in {{"init_ready"}, {"init_fail", "init_timeout"}} : Ends(w, last)
    BY <1>7 DEF InitEnds
  <2>2. last \cap RunStates = {}
    BY <2>1 DEF RunStates
  <2>3. QED
    BY <1>6, <1>7, <2>1, <2>2
<1>8. i \in 1 .. Len(w) /\ w[i] \in RunStates /\ w # <<>> /\ Len(w) \in Nat /\ w \in Seq(Answers)
  BY <1>1, <1>4 DEF w, Coming
<1>9. ~Replied(c)
  <2> SUFFICES ASSUME Replied(c) PROVE FALSE
    OBVIOUS
  <2> DEFINE Lone == {"run_types", "shift_crew", "run_comment", "init_start", "run_comment_end",
                      "exiting", "error", "init_error", "answer", "unknown command"}
  <2>1. \/ \E a \in Lone : w = <<a>>
        \/ w = <<"setup", "run_types">>
        \/ w = <<"run_number", "shift_crew">>
        \/ w = <<"good_type", "run_number", "shift_crew">>
    BY <1>8 DEF Replied, w
  <2>2. CASE \E a \in Lone : w = <<a>>
    <3>1. PICK a \in Lone : w = <<a>>
      BY <2>2
    <3>2. Len(w) = 1 /\ w[1] = a
      BY <3>1
    <3>3. i = 1
      <4>1. i \in 1 .. Len(w)
        BY <1>8
      <4>2. QED
        BY <3>2, <4>1, OnlyOne
    <3>4. a \in RunStates
      BY <1>8, <3>2, <3>3
    <3>5. QED
      BY <3>1, <3>4 DEF RunStates
  <2>3. ASSUME NEW a, NEW b, w = <<a, b>>, {a, b} \cap RunStates = {} PROVE FALSE
    <3>1. Len(w) = 2 /\ w[1] = a /\ w[2] = b
      BY <2>3
    <3>2. i = 1 \/ i = 2
      BY <1>8, <3>1
    <3>3. QED
      BY <1>8, <2>3, <3>1, <3>2
  <2>4. CASE w = <<"good_type", "run_number", "shift_crew">>
    <3>1. Len(w) = 3 /\ w[1] = "good_type" /\ w[2] = "run_number" /\ w[3] = "shift_crew"
      BY <2>4
    <3>2. i = 1 \/ i = 2 \/ i = 3
      BY <1>8, <3>1
    <3>3. QED
      BY <1>8, <3>1, <3>2 DEF RunStates
  <2>5. {"setup", "run_types"} \cap RunStates = {} /\ {"run_number", "shift_crew"} \cap RunStates = {}
    BY DEF RunStates
  <2>6. QED
    BY <2>1, <2>2, <2>3, <2>4, <2>5
<1>10. CASE at[c] \in {"answer", "get_state"} /\ w = <<next>>
  BY <1>8, <1>10
<1>11. CASE at[c] = "start_run" /\ w = <<"run_started">>
  <2>1. w[i] = "run_started"
    BY <1>8, <1>11
  <2>2. QED
    BY <1>8, <2>1 DEF RunStates
<1>12. CASE Ends(w, {"terminate_ok", "terminate_error"})
  <2>1. {"terminate_ok", "terminate_error"} \cap RunStates = {}
    BY DEF RunStates
  <2>2. QED
    BY <1>6, <1>8, <1>12, <2>1
<1>13. CASE Head(w) = "init_start" /\ InitEnds(Tail(w))
  <2>1. w[1] = "init_start"
    BY <1>8, <1>13
  <2>2. i # 1
    BY <1>8, <2>1 DEF RunStates
  <2>3. i - 1 \in 1 .. Len(Tail(w)) /\ Tail(w)[i - 1] = w[i] /\ Len(Tail(w)) \in Nat
    BY <1>8, <2>2
  <2>4. PICK last \in {{"init_ready"}, {"init_fail", "init_timeout"}} : Ends(Tail(w), last)
    BY <1>13 DEF InitEnds
  <2>5. Tail(w)[i - 1] \in last \/ Tail(w)[i - 1] = "progress"
    <3>1. i - 1 = Len(Tail(w)) \/ i - 1 \in 1 .. Len(Tail(w)) - 1
      BY <2>3
    <3>2. QED
      BY <2>4, <3>1 DEF Ends
  <2>6. QED
    BY <1>8, <2>3, <2>4, <2>5 DEF RunStates
<1>14. CASE InitEnds(w)
  BY <1>7, <1>8, <1>14
<1>15. QED
  BY <1>5, <1>9, <1>10, <1>11, <1>12, <1>13, <1>14 DEF Reported, w

LEMMA StatesStep ==
  ASSUME Inv, ProtoTypeOK', DialogueInv', [ProtoNext]_protoVars PROVE StatesRead'
<1>1. CASE Up'
  <2>1. ProtoTypeOK' /\ DialogueInv' /\ Up' => StatesRead'
    BY StatesUp, PTL
  <2>2. QED
    BY <1>1, <2>1
<1>2. CASE ~Up'
  <2>0. StatesRead /\ ProtoTypeOK
    BY DEF Inv
  <2>1. CASE UNCHANGED <<at, s2c>>
    BY <2>0, <2>1 DEF StatesRead
  <2>2. CASE \E d \in Clients : ClientNext(d)
    <3>1. PICK d \in Clients : ClientNext(d)
      BY <2>2
    <3>2. \A c \in Clients \ {d} : at'[c] = at[c] /\ s2c'[c] = s2c[c]
      BY <2>0, <3>1, NotBack
    <3>3. \A i \in DOMAIN s2c'[d] :
            s2c'[d][i] \in RunStates => at'[d] = "gone" \/ (i = 1 /\ at'[d] \in {"answer", "get_state"})
      <4>1. CASE Receive(d)
        <5>1. /\ s2c[d] # <<>> /\ s2c[d] \in Seq(Answers) /\ s2c'[d] = Tail(s2c[d]) /\ at[d] # "gone"
          BY <2>0, <4>1 DEF Receive, ProtoTypeOK, Waits
        <5>2. \A i \in DOMAIN s2c'[d] : i + 1 # 1 /\ i + 1 \in DOMAIN s2c[d] /\ s2c'[d][i] = s2c[d][i + 1]
          BY <5>1
        <5>3. \A i \in DOMAIN s2c'[d] : s2c'[d][i] \notin RunStates
          BY <2>0, <5>1, <5>2 DEF StatesRead
        <5>4. QED
          BY <5>3
      <4>2. CASE EndOfFile(d) \/ Quit(d) \/ ConnectFails(d)
        BY <2>0, <4>2 DEF EndOfFile, Quit, Gone, ConnectFails, ProtoTypeOK
      <4>3. CASE Connect(d) \/ TypeCommand(d) \/ TypeReply(d)
        <5>1. s2c' = s2c /\ at[d] \notin {"gone", "answer", "get_state"}
          BY <4>3 DEF Connect, TypeCommand, TypeReply
        <5>2. QED
          BY <2>0, <5>1 DEF StatesRead
      <4>4. QED
        BY <3>1, <4>1, <4>2, <4>3 DEF ClientNext
    <3>4. QED
      BY <2>0, <3>2, <3>3 DEF StatesRead
  <2>3. CASE SendAnswer
    <3>1. /\ out # <<>> /\ s2c' = [s2c EXCEPT ![caller] = Append(@, Head(out))]
          /\ UNCHANGED <<at, srv>>
      BY <2>3 DEF SendAnswer, clientVars
    <3>2. ~Up
      BY <1>2, <3>1 DEF Up
    <3>3. Head(out) \notin RunStates
      BY <2>0, <3>1, <3>2 DEF Inv, ServerInv, ProtoTypeOK
    <3>4. \A c \in Clients : \A i \in DOMAIN s2c'[c] :
            s2c'[c][i] = Head(out) \/ (i \in DOMAIN s2c[c] /\ s2c'[c][i] = s2c[c][i])
      <4> SUFFICES ASSUME NEW c \in Clients, NEW i \in DOMAIN s2c'[c]
                   PROVE  s2c'[c][i] = Head(out) \/ (i \in DOMAIN s2c[c] /\ s2c'[c][i] = s2c[c][i])
        OBVIOUS
      <4>1. s2c[c] \in Seq(Answers) /\ Head(out) \in Answers
        BY <2>0, <3>1 DEF ProtoTypeOK
      <4>2. CASE c = caller
        <5>1. s2c'[c] = Append(s2c[c], Head(out))
          BY <2>0, <3>1, <4>2 DEF ProtoTypeOK
        <5>2. QED
          BY <4>1, <5>1
      <4>3. CASE c # caller
        BY <2>0, <3>1, <4>3 DEF ProtoTypeOK
      <4>4. QED
        BY <4>2, <4>3
    <3>5. QED
      BY <2>0, <3>1, <3>3, <3>4 DEF StatesRead
  <2>4. CASE Handling
    BY <2>1, <2>4, HandlingIs DEF clientVars
  <2>5. CASE Accept \/ ConnectionError \/ ClientClose \/ NewState \/ Exit \/ SigintExit \/ SigintHandler
                \/ UNCHANGED protoVars
    BY <2>1, <2>5 DEF Accept, ConnectionError, ClientClose, NewState, Exit, SigintExit, SigintHandler,
                      Dies, protoVars, clientVars, netVars
  <2>6. QED
    BY <2>2, <2>3, <2>4, <2>5 DEF ProtoNext, ServerNext, Handling
<1>3. QED
  BY <1>1, <1>2

LEMMA InvStep == Inv /\ [ProtoNext]_protoVars => Inv'
  BY TypeStep, ServerStep, BacklogStep, DialogueStep, StatesStep DEF Inv

LEMMA DialogueHolds == ProtoSpec => []Inv
<1>1. ProtoInit => Inv
  BY TypeInit, ServerInit, InitDialogue DEF Inv
<1>2. QED
  BY <1>1, InvStep, PTL DEF ProtoSpec

(***************************************************************************)
(* MutualWaitKnown: client and server never wait for each other, but for   *)
(* an abort_run that is refused and the run type error                     *)
(* (RunControlText.py:226-236, RunControlServer.py:643-645).               *)
(***************************************************************************)
THEOREM TwoWaitsOnly == ProtoSpec => []MutualWaitKnown
<1>1. Inv => MutualWaitKnown
  <2> SUFFICES ASSUME Inv, MutualWait
               PROVE  /\ srv = "cmd"
                      /\ \/ at[caller] = "abort" /\ state # "initialized"
                         \/ at[caller] = "type" /\ said[caller] = "error"
    BY DEF MutualWaitKnown
  <2>1. /\ srv \in Reading /\ out = <<>> /\ state = next /\ at[caller] \in Waits
        /\ c2s[caller] = <<>> /\ s2c[caller] = <<>>
    BY DEF MutualWait
  <2>2. Up /\ caller \in Clients
    BY <2>1 DEF Up, Reading, Inv, ServerInv, ProtoTypeOK
  <2>3. Dialogue(caller) /\ Coming(caller) = <<>>
    BY <2>1, <2>2, ComingIs DEF Inv, DialogueInv
  <2>4. ~Asked(caller) /\ ~Spoken(caller) /\ at[caller] # "gone"
    BY <2>1 DEF Asked, Spoken, Waits
  <2>5. ~Reported(caller)
    <3>1. \A w, last : Ends(w, last) => w # <<>>
      BY DEF Ends
    <3>2. <<next>> # <<>> /\ <<"run_started">> # <<>>
      BY Ones
    <3>3. QED
      BY <2>3, <3>1, <3>2 DEF Reported, InitEnds
  <2>6. Replied(caller)
    BY <2>3, <2>4, <2>5 DEF Dialogue
  <2>7. QED
    BY <2>1, <2>3, <2>6, Ones, Twos, Threes DEF Replied, Reading
<1>2. QED
  BY <1>1, DialogueHolds, PTL

(***************************************************************************)
(* InStep: what a client reads is what it expects at this point, or the    *)
(* refusal of its command, and nothing is left when it is at a prompt      *)
(* (RunControlText.py:104-330, RunControlServer.py:310-760).               *)
(***************************************************************************)
THEOREM NobodyLosesTheThread == ProtoSpec => []InStep
<1>1. Inv => InStep
  <2> SUFFICES ASSUME Inv, Up, NEW c \in Clients
               PROVE  /\ at[c] \in Prompts => s2c[c] = <<>> /\ c2s[c] = <<>>
                      /\ at[c] \in Waits /\ s2c[c] # <<>> =>
                           \/ Head(s2c[c]) \in Expected(at[c])
                           \/ Head(s2c[c]) = "unknown command" /\ at[c] \in Refusable
    BY DEF InStep, Up
  <2>0. /\ IF c = caller THEN Dialogue(c) ELSE NotServed(c)
        /\ ProtoTypeOK /\ (at[c] \in Prompts \cup Waits => at[c] # "gone")
    BY DEF Inv, DialogueInv, Prompts, Waits
  <2>1. CASE c # caller
    <3>1. \A m \in Commands : WaitFor(m) \notin Prompts
      BY WaitsFor DEF Waits, Prompts
    <3>2. QED
      BY <2>0, <2>1, <3>1 DEF NotServed, Waits, Prompts
  <2>2. CASE c = caller /\ at[c] \in Prompts
    <3>1. Asked(c)
      BY <2>0, <2>2, SpokenAt
    <3>2. QED
      BY <2>0, <2>2, <3>1, ComingIs DEF Asked, Prompts, Waits
  <2>3. CASE c = caller /\ at[c] \in Waits
    <3> SUFFICES ASSUME s2c[c] # <<>>
                 PROVE  \/ Head(s2c[c]) \in Expected(at[c])
                        \/ Head(s2c[c]) = "unknown command" /\ at[c] \in Refusable
      BY <2>3 DEF Prompts, Waits
    <3> DEFINE m == Head(Coming(c))
    <3>1. Coming(c) # <<>> /\ m = Head(s2c[c])
      BY <2>0, Read DEF ProtoTypeOK, Coming
    <3>2. Replied(c) \/ Reported(c)
      BY <2>0, <2>3, <3>1, SpokenAt DEF Dialogue
    <3>3. CASE Replied(c)
      <4>1. \/ at[c] = "setup" /\ m = "setup"
            \/ at[c] = "types" /\ m = "run_types"
            \/ at[c] = "type" /\ m \in {"good_type", "error"}
            \/ at[c] = "number" /\ m = "run_number"
            \/ at[c] = "crew" /\ m = "shift_crew"
            \/ at[c] = "comment" /\ m = "run_comment"
            \/ at[c] = "start" /\ m \in {"init_start", "init_error"}
            \/ at[c] = "stop" /\ m = "run_comment_end"
            \/ at[c] = "bye" /\ m = "exiting"
            \/ at[c] = "answer" /\ m = "answer"
            \/ at[c] \in Refusable /\ m = "unknown command"
        <5> DEFINE w == Coming(c)
        <5>1. w # <<>> /\ m = Head(w)
          BY <3>1
        <5> HIDE DEF w
        <5> HIDE DEF m
        <5>2. /\ \A a : w = <<a>> => m = a
              /\ \A a, b : w = <<a, b>> => m = a
              /\ \A a, b, d : w = <<a, b, d>> => m = a
          BY <5>1
        <5>3. "abort" \in Refusable
          BY DEF Refusable
        <5>4. QED
          BY <3>3, <5>1, <5>2, <5>3 DEF Replied, w
      <4>2. \/ m \in Expected(at[c])
            \/ at[c] \in Refusable /\ m = "unknown command"
        BY <4>1 DEF Expected, RunStates
      <4>3. QED
        BY <3>1, <4>2
    <3>4. CASE Reported(c)
      <4>0. Coming(c) \in Seq(Answers) /\ next \in RunStates
        BY <2>0, ComingIs DEF ProtoTypeOK
      <4>1. CASE at[c] \in {"answer", "get_state"} /\ Coming(c) = <<next>>
        BY <3>1, <4>0, <4>1, Ones DEF Expected
      <4>2. CASE at[c] = "start_run" /\ Coming(c) = <<"run_started">>
        BY <3>1, <4>2, Ones DEF Expected
      <4>3. CASE at[c] \in {"abort", "term"} /\ Ends(Coming(c), {"terminate_ok", "terminate_error"})
        <5>1. m = "progress" \/ m \in {"terminate_ok", "terminate_error"}
          BY <4>0, <4>3, EndsRead
        <5>2. QED
          BY <3>1, <4>3, <5>1 DEF Expected
      <4>4. CASE at[c] = "start" /\ Head(Coming(c)) = "init_start"
        BY <3>1, <4>4 DEF Expected
      <4>5. CASE at[c] = "init" /\ InitEnds(Coming(c))
        <5>1. PICK last \in {{"init_ready"}, {"init_fail", "init_timeout"}} : Ends(Coming(c), last)
          BY <4>5 DEF InitEnds
        <5>2. m = "progress" \/ m \in last
          BY <4>0, <5>1, EndsRead
        <5>3. QED
          BY <3>1, <4>5, <5>2 DEF Expected
      <4>6. QED
        BY <3>4, <4>1, <4>2, <4>3, <4>4, <4>5 DEF Reported
    <3>5. QED
      BY <3>2, <3>3, <3>4
  <2>4. QED
    BY <2>0, <2>1, <2>2, <2>3
<1>2. QED
  BY <1>1, DialogueHolds, PTL

(***************************************************************************)
(* ToldIsTrue: what the client being served was told last of the run is    *)
(* still so when its operator is asked for the next line                   *)
(* (RunControlServer.py:310-760).                                          *)
(***************************************************************************)
THEOREM WhatIsToldIsSo == ProtoSpec => []ToldIsTrue
<1>1. Inv => ToldIsTrue
  <2> SUFFICES ASSUME Inv, NEW c \in Clients, c = caller, srv # "sigint", at[c] \in Prompts,
                      told[c] # "unknown"
               PROVE  told[c] = next
    BY DEF ToldIsTrue
  <2>1. Up
    BY ClientsAssumption DEF Up, Inv, ServerInv
  <2>2. Asked(c)
    BY <2>1, SpokenAt DEF Inv, DialogueInv, Prompts
  <2>3. QED
    BY <2>2 DEF Asked, Informed
<1>2. QED
  BY <1>1, DialogueHolds, PTL

-----------------------------------------------------------------------------
(* The dialogue takes turns. *)

Turns == [c \in Clients |-> Turn(c)]

LEMMA TurnsAre ==
  ASSUME NEW c \in Clients
  PROVE  /\ Turns[c] = Turn(c)
         /\ at[c] \in {"off", "gone"} => Turn(c) = "none"
         /\ at[c] \in Prompts => Turn(c) = "client"
         /\ at[c] \in Waits => Turn(c) = "server"
  BY DEF Turns, Turn, Prompts, Waits

LEMMA TurnsNext ==
  ASSUME NEW d \in Clients, \A c \in Clients \ {d} : at'[c] = at[c],
         NEW t, Turn(d)' = t
  PROVE  Turns' = [Turns EXCEPT ![d] = t]
<1>1. Turns' = [c \in Clients |-> Turn(c)']
  BY DEF Turns
<1>2. \A c \in Clients \ {d} : Turn(c)' = Turn(c)
  BY DEF Turn
<1>3. Turns = [c \in Clients |-> Turn(c)]
  BY DEF Turns
<1>4. QED
  BY <1>1, <1>2, <1>3

LEMMA TurnsKept ==
  ASSUME at' = at PROVE Turns' = Turns
<1>1. \A c \in Clients : Turn(c)' = Turn(c)
  BY DEF Turn
<1>2. QED
  BY <1>1 DEF Turns

LEMMA TurnThen ==
  ASSUME NEW d
  PROVE  /\ at'[d] \in {"off", "gone"} => Turn(d)' = "none"
         /\ at'[d] \in Prompts => Turn(d)' = "client"
         /\ at'[d] \in Waits => Turn(d)' = "server"
  BY DEF Turn, Prompts, Waits

(* Whatever says something of the run ends the wait for it.                *)
LEMMA SaysLast ==
  ASSUME NEW p \in Waits, NEW m, NEW old, AfterMessage(p, m) \in Waits, m \notin RunStates
  PROVE  Says(p, m, old) = old
  BY DEF AfterMessage, Says, Waits

LEMMA SaysState ==
  ASSUME NEW p, NEW m, NEW old, Says(p, m, old) # old PROVE Says(p, m, old) \in RunStates
  BY DEF Says, RunStates

LEMMA ClientsTakeTurns ==
  ASSUME Inv, Inv', NEW d \in Clients, ClientNext(d)
  PROVE  [TT!TTNext]_TT!ttVars
<1>0. /\ caller' = caller /\ next' = next /\ srv' = srv /\ ProtoTypeOK /\ ProtoTypeOK'
      /\ \A c \in Clients \ {d} : at'[c] = at[c] /\ told'[c] = told[c]
  BY NotBack DEF Inv, serverVars
<1>1. SUFFICES \/ TT!Connect(d) \/ TT!Speak(d) \/ TT!Reply(d) \/ TT!Tell(d) \/ TT!Leave(d)
               \/ Turns' = Turns /\ told' = told
  BY <1>0 DEF TT!TTNext, TT!ttVars, Turns
<1>2. /\ Turns[d] = Turn(d)
      /\ \A t : Turn(d)' = t => Turns' = [Turns EXCEPT ![d] = t]
      /\ Turns \in [Clients -> {"none", "client", "server"}]
  <2>1. Turns \in [Clients -> {"none", "client", "server"}]
    BY DEF Turns, Turn
  <2>2. QED
    BY <1>0, <2>1, TurnsAre, TurnsNext
<1>3. CASE Connect(d)
  <2>1. at[d] = "off" /\ at'[d] = "prompt" /\ told' = told
    BY <1>0, <1>3 DEF Connect, ProtoTypeOK
  <2>2. Turn(d) = "none" /\ Turn(d)' = "client"
    BY <2>1, TurnsAre, TurnThen DEF Prompts
  <2>3. TT!Connect(d)
    BY <1>0, <1>2, <2>1, <2>2 DEF TT!Connect, Turns
  <2>4. QED
    BY <2>3
<1>4. CASE ConnectFails(d)
  <2>1. at[d] = "off" /\ at'[d] = "gone" /\ told' = told
    BY <1>0, <1>4 DEF ConnectFails, ProtoTypeOK
  <2>2. Turn(d) = "none" /\ Turn(d)' = "none"
    BY <2>1, TurnsAre, TurnThen
  <2>3. QED
    BY <1>2, <2>1, <2>2
<1>5. CASE TypeCommand(d) \/ TypeReply(d)
  <2>1. at[d] \in Prompts /\ at'[d] \in Waits /\ told' = told
    <3>1. CASE TypeCommand(d)
      <4>1. PICK m \in Commands : Send(d, m, WaitFor(m))
        BY <3>1 DEF TypeCommand
      <4>2. at'[d] = WaitFor(m)
        BY <1>0, <4>1 DEF Send, ProtoTypeOK
      <4>3. QED
        BY <3>1, <4>2, WaitsFor DEF TypeCommand, Prompts
    <3>2. CASE TypeReply(d)
      BY <1>0, <3>2 DEF TypeReply, Send, ProtoTypeOK, Prompts, Waits
    <3>3. QED
      BY <1>5, <3>1, <3>2
  <2>2. Turn(d) = "client" /\ Turn(d)' = "server"
    BY <2>1, TurnsAre, TurnThen
  <2>3. TT!Speak(d)
    BY <1>0, <1>2, <2>1, <2>2 DEF TT!Speak, Turns
  <2>4. QED
    BY <2>3
<1>6. CASE EndOfFile(d) \/ Quit(d)
  <2>1. at[d] \in Prompts \cup Waits /\ Gone(d)
    BY <1>6 DEF EndOfFile, Quit
  <2>2. at'[d] = "gone" /\ told' = [told EXCEPT ![d] = "unknown"]
    BY <1>0, <2>1 DEF Gone, ProtoTypeOK
  <2>3. Turn(d) # "none" /\ Turn(d)' = "none"
    BY <2>1, <2>2, TurnsAre, TurnThen
  <2>4. TT!Leave(d)
    BY <1>0, <1>2, <2>2, <2>3 DEF TT!Leave, Turns
  <2>5. QED
    BY <2>4
<1>7. CASE Receive(d)
  <2> DEFINE m == Head(s2c[d])
             p == AfterMessage(at[d], m)
             t == IF p = "gone" THEN "unknown" ELSE Says(at[d], m, told[d])
  <2>1. /\ at[d] \in Waits /\ s2c[d] # <<>> /\ at' = [at EXCEPT ![d] = p]
        /\ told' = [told EXCEPT ![d] = t]
    BY <1>7 DEF Receive
  <2>2. p \in {"gone"} \cup Prompts \cup Waits
    BY <2>1, GoesTo
  <2>3. Turn(d) = "server"
    BY <2>1, TurnsAre
  <2>4. t = Says(at[d], m, told[d]) \/ p = "gone"
    OBVIOUS
  <2>5. Says(at[d], m, told[d]) # told[d] => Says(at[d], m, told[d]) \in RunStates
    BY SaysState
  <2>6. p \in Waits => Says(at[d], m, told[d]) = told[d]
    <3> SUFFICES ASSUME p \in Waits PROVE Says(at[d], m, told[d]) = told[d]
      OBVIOUS
    <3>1. m \notin RunStates
      <4>1. s2c[d] \in Seq(Answers)
        BY <1>0 DEF ProtoTypeOK
      <4>2. 1 \in DOMAIN s2c[d] /\ m = s2c[d][1]
        BY <2>1, <4>1
      <4>3. at[d] \notin {"answer", "get_state"}
        <5> SUFFICES ASSUME at[d] \in {"answer", "get_state"} PROVE FALSE
          OBVIOUS
        <5>1. p = "prompt"
          BY DEF AfterMessage
        <5>2. QED
          BY <5>1 DEF Waits
      <4>4. at[d] # "gone"
        BY <2>1 DEF Waits
      <4>5. QED
        BY <4>2, <4>3, <4>4 DEF Inv, StatesRead
    <3>2. QED
      BY <2>1, <3>1, SaysLast
  <2> HIDE DEF m, p
  <2>7. at'[d] = p /\ told'[d] = t /\ t \in RunStates \cup {"unknown"}
    BY <1>0, <2>1 DEF ProtoTypeOK
  <2> HIDE DEF t
  <2>8. CASE p = "gone"
    <3>1. t = "unknown" /\ Turn(d)' = "none"
      BY <2>7, <2>8, TurnThen DEF t
    <3>2. TT!Leave(d)
      BY <1>0, <1>2, <2>1, <2>3, <3>1 DEF TT!Leave, Turns
    <3>3. QED
      BY <3>2
  <2>9. CASE p \in Waits
    <3>1. Turn(d)' = "server" /\ p # "gone"
      BY <2>7, <2>9, TurnThen DEF Waits
    <3>2. t = told[d]
      BY <2>4, <2>6, <2>9, <3>1
    <3>3. QED
      BY <1>0, <1>2, <2>1, <2>3, <3>1, <3>2 DEF ProtoTypeOK
  <2>10. CASE p \in Prompts
    <3>1. Turn(d)' = "client" /\ p # "gone"
      BY <2>7, <2>10, TurnThen DEF Prompts
    <3>2. CASE t = told[d]
      <4>1. told' = told
        BY <1>0, <2>1, <3>2 DEF ProtoTypeOK
      <4>2. TT!Reply(d)
        BY <1>0, <1>2, <2>3, <3>1, <4>1 DEF TT!Reply, Turns
      <4>3. QED
        BY <4>2
    <3>3. CASE t # told[d]
      <4>1. t \in RunStates
        BY <2>4, <2>5, <3>1, <3>3
      <4>2. Up => t = next
        <5> SUFFICES ASSUME Up PROVE t = next
          OBVIOUS
        <5>1. d = caller
          <6>1. at[d] # "gone"
            BY <2>1 DEF Waits
          <6>2. QED
            BY <2>1, <6>1 DEF Inv, DialogueInv, NotServed
        <5>2. Up' /\ d = caller'
          BY <1>0, <5>1 DEF Up
        <5>3. Dialogue(d)'
          BY <5>2 DEF Inv, DialogueInv
        <5>4. at'[d] \in Prompts /\ at'[d] # "gone"
          BY <2>7, <2>10, <3>1
        <5>5. Informed(d)'
          <6>1. Asked(d)'
            <7>1. \A m1 \in Commands : WaitFor(m1) \notin Prompts
              BY WaitsFor DEF Waits, Prompts
            <7>2. ~Spoken(d)'
              BY <5>4, <7>1 DEF Spoken, Prompts
            <7>3. ~Replied(d)' /\ ~Reported(d)'
              BY <5>4 DEF Replied, Reported, Prompts, Refusable
            <7>4. QED
              BY <5>3, <5>4, <7>2, <7>3 DEF Dialogue
          <6>2. QED
            BY <6>1 DEF Asked
        <5>6. told'[d] \in {"unknown", next'}
          BY <5>5 DEF Informed
        <5>7. QED
          BY <1>0, <2>7, <4>1, <5>6 DEF RunStates
      <4>3. TT!Tell(d)
        <5>1. TT!RunStates = RunStates
          BY DEF TT!RunStates, RunStates
        <5>2. (srv \notin {"sigint", "dead"} => t = next) /\ (srv' = srv)
          BY <1>0, <4>2 DEF Up
        <5>3. QED
          BY <1>0, <1>2, <2>1, <2>3, <3>1, <4>1, <5>1, <5>2 DEF TT!Tell, Turns
      <4>4. QED
        BY <4>3
    <3>4. QED
      BY <3>2, <3>3
  <2>11. QED
    BY <2>2, <2>8, <2>9, <2>10
<1>8. QED
  BY <1>3, <1>4, <1>5, <1>6, <1>7 DEF ClientNext

(* The client that is served waits, or is gone, when its command is done.  *)
LEMMA CallerWaits ==
  ASSUME Inv, Handling PROVE caller \in Clients /\ at[caller] \notin Prompts /\ Up
<1>1. srv \in Reading \cup {"launch"}
  BY HandlingIs
<1>2. Up /\ caller \in Clients
  BY <1>1 DEF Up, Reading, Inv, ServerInv, ProtoTypeOK
<1>3. Dialogue(caller)
  BY <1>2 DEF Inv, DialogueInv
<1>4. ~Asked(caller)
  <2>1. CASE Launch
    BY <2>1 DEF Launch, Ready, Asked
  <2>2. CASE ~Launch
    <3>1. c2s[caller] # <<>>
      BY <2>2 DEF Handling, NewRun, StartRun, AbortRun, StopRun, GetState, Query, Shutdown,
         UnknownCommand, RunType, ShiftCrew, RunComment, RunCommentEnd, Get
    <3>2. QED
      BY <3>1 DEF Asked
  <2>3. QED
    BY <2>1, <2>2
<1>5. QED
  BY <1>2, <1>3, <1>4, SpokenAt DEF Prompts

LEMMA HandlingEdges ==
  ASSUME Inv, Handling PROVE next' = next \/ <<next, next'>> \in TT!Edges
<1>0. state = next
  BY HandlingIs
<1> USE DEF TT!Edges, Say
<1>1. CASE NewRun \/ StopRun \/ GetState \/ Query \/ Shutdown
  BY <1>0, <1>1 DEF NewRun, StopRun, GetState, Query, Shutdown
<1>2. CASE StartRun \/ AbortRun
  BY <1>0, <1>2 DEF StartRun, AbortRun
<1>3. CASE UnknownCommand
  BY <1>0, <1>3 DEF UnknownCommand
<1>4. CASE RunType
  BY <1>0, <1>4 DEF RunType
<1>5. CASE ShiftCrew \/ RunComment
  BY <1>0, <1>5 DEF ShiftCrew, RunComment
<1>6. CASE Launch
  <2>1. next = "idle"
    BY <1>6 DEF Launch, Ready, Inv, ServerInv, Up
  <2>2. QED
    BY <1>6, <2>1 DEF Launch
<1>7. CASE RunCommentEnd
  <2>1. next = "running"
    BY <1>7 DEF RunCommentEnd, Get, Ready, Inv, ServerInv, Up
  <2>2. QED
    BY <1>7, <2>1 DEF RunCommentEnd
<1>8. QED
  BY <1>1, <1>2, <1>3, <1>4, <1>5, <1>6, <1>7 DEF Handling

LEMMA ServerTakesTurns ==
  ASSUME Inv, Inv', ServerNext \/ SigintHandler
  PROVE  [TT!TTNext]_TT!ttVars
<1>0. /\ at' = at /\ told' = told /\ Turns' = Turns
  <2>1. at' = at /\ told' = told
    BY HandlingIs DEF ServerNext, Handling, Accept, SendAnswer, ConnectionError, ClientClose, NewState,
                      Exit, SigintExit, SigintHandler, Dies, clientVars
  <2>2. QED
    BY <2>1, TurnsKept
<1>1. ASSUME UNCHANGED <<caller, next>>, Up' = Up PROVE [TT!TTNext]_TT!ttVars
  BY <1>0, <1>1 DEF TT!ttVars, Turns, Up
<1>2. ASSUME caller # NoClient, caller' = NoClient, next' = next, Up' \in {Up, FALSE}
      PROVE  TT!HangUp
  BY <1>0, <1>2 DEF TT!HangUp, Turns, Up
<1>3. CASE Accept
  <2>1. /\ srv = "accept" /\ srv' = "cmd" /\ next' = next
        /\ backlog # <<>> /\ caller' = Head(backlog)
    BY <1>3 DEF Accept
  <2>2. caller = NoClient /\ caller' \in Clients
    BY <2>1 DEF Inv, ServerInv, ProtoTypeOK, Up
  <2>3. \E c \in Clients : TT!Serve(c)
    BY <1>0, <2>1, <2>2 DEF TT!Serve, Turns
  <2>4. QED
    BY <2>3 DEF TT!TTNext
<1>4. CASE SendAnswer \/ NewState
  BY <1>1, <1>4 DEF SendAnswer, NewState, Up
<1>5. CASE ConnectionError \/ Exit \/ SigintExit
  <2>1. /\ srv' = "dead" /\ caller' = NoClient /\ next' = next
    BY <1>5 DEF ConnectionError, Exit, SigintExit, Dies
  <2>2. Up' = FALSE
    BY <2>1 DEF Up
  <2>3. CASE caller # NoClient
    BY <1>2, <2>1, <2>2, <2>3 DEF TT!TTNext
  <2>4. CASE caller = NoClient
    <3>1. Up = FALSE
      BY <1>5, <2>4 DEF ConnectionError, Exit, SigintExit, Inv, ServerInv, Up
    <3>2. QED
      BY <1>1, <2>1, <2>2, <2>4, <3>1
  <2>5. QED
    BY <2>3, <2>4
<1>6. CASE ClientClose
  <2>1. srv \in Reading /\ caller' = NoClient /\ srv' = "accept" /\ next' = next
    BY <1>6 DEF ClientClose, HangUp
  <2>2. Up = TRUE /\ Up' = TRUE /\ caller # NoClient
    BY <2>1 DEF Up, Reading, Inv, ServerInv
  <2>3. QED
    BY <1>2, <2>1, <2>2 DEF TT!TTNext
<1>7. CASE Handling
  <2>1. caller \in Clients /\ at[caller] \notin Prompts /\ Up
    BY <1>7, CallerWaits
  <2>2. caller' = caller /\ Up'
    BY <1>7, HandlingIs DEF Up
  <2>3. next' = next \/ <<next, next'>> \in TT!Edges
    BY <1>7, HandlingEdges
  <2>4. CASE next' = next
    <3>1. Up' = Up
      BY <2>1, <2>2 DEF Up
    <3>2. QED
      BY <1>1, <2>2, <2>4, <3>1
  <2>5. CASE <<next, next'>> \in TT!Edges
    <3>1. Turns[caller] # "client"
      BY <2>1 DEF Turns, Turn
    <3>2. TT!Execute(caller)
      BY <1>0, <2>1, <2>2, <2>5, <3>1 DEF TT!Execute, Turns, Up
    <3>3. QED
      BY <2>1, <3>2 DEF TT!TTNext
  <2>6. QED
    BY <2>3, <2>4, <2>5
<1>8. CASE SigintHandler
  <2>1. /\ srv \notin {"sigint", "exit", "dead"} /\ srv' = "sigint" /\ caller' = caller
        /\ next' \in {next, "idle"}
    BY <1>8 DEF SigintHandler
  <2>2. TT!Interrupt
    BY <1>0, <2>1 DEF TT!Interrupt, Turns
  <2>3. QED
    BY <2>2 DEF TT!TTNext
<1>9. QED
  BY <1>3, <1>4, <1>5, <1>6, <1>7, <1>8 DEF ServerNext, Handling

(***************************************************************************)
(* TakesTurns: the dialogue of messages implements TurnTaking: each speaks *)
(* in its turn, and the run changes for the client being served, while     *)
(* that client waits (RunControlServer.py:214-308).                        *)
(***************************************************************************)
THEOREM DialogueTakesTurns == ProtoSpec => TakesTurns
<1>1. ProtoInit => TT!TTInit
  BY DEF ProtoInit, TT!TTInit, Turn
<1>2. Inv /\ Inv' /\ [ProtoNext]_protoVars => [TT!TTNext]_TT!ttVars
  <2> SUFFICES ASSUME Inv, Inv', [ProtoNext]_protoVars PROVE [TT!TTNext]_TT!ttVars
    OBVIOUS
  <2>1. CASE UNCHANGED protoVars
    <3>1. UNCHANGED <<at, told, caller, next, srv>>
      BY <2>1 DEF protoVars, clientVars, serverVars
    <3>2. QED
      BY <3>1, TurnsKept DEF TT!ttVars, Turns
  <2>2. CASE \E d \in Clients : ClientNext(d)
    BY <2>2, ClientsTakeTurns
  <2>3. CASE ServerNext \/ SigintHandler
    BY <2>3, ServerTakesTurns
  <2>4. QED
    BY <2>1, <2>2, <2>3 DEF ProtoNext
<1>3. QED
  BY <1>1, <1>2, DialogueHolds, PTL DEF ProtoSpec, TakesTurns, TT!TTSpec
=============================================================================

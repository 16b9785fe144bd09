------------------------------- MODULE MCLevel1 -------------------------------
(* Two boards; the first with up to two groups of two channels each. *)
EXTENDS Level1

\* Samples that are below threshold (T); the head and the tail are one each.
Quiet == <<FALSE, FALSE, FALSE, FALSE, FALSE>>
Noisy == <<TRUE, FALSE, FALSE, FALSE, FALSE>>
Pulse == <<FALSE, TRUE, TRUE, FALSE, FALSE>>
Split == <<FALSE, TRUE, FALSE, TRUE, TRUE>>

\* The first board's last channel has samples or not.
SomeContents ==
  {<<0 :> p @@ 1 :> Quiet @@ 2 :> Pulse @@ 3 :> Split, 0 :> Quiet @@ 1 :> Pulse>> : p \in {Quiet, Noisy}}
    \cup {<<0 :> p @@ 1 :> Quiet @@ 2 :> Pulse, 0 :> Quiet @@ 1 :> Pulse>> : p \in {Pulse, Split}}
OneContent == {<<0 :> Pulse @@ 1 :> Pulse @@ 2 :> Quiet @@ 3 :> Quiet, 0 :> Quiet @@ 1 :> Pulse>>}

Base == [zs |-> [mode |-> 0, algr |-> 1], groups |-> <<{0, 1}, {0}>>, enabled |-> <<Channels, {0, 1, 3}>>,
         tr |-> TRUE, low |-> 2, perFile |-> 2, exists |-> {}, date |-> "tail"]

\* Every mode with every kind of algorithm; groups with a gap and without; a
\* group of which one channel is enabled, and one of which none is.
SomeSetups ==
  {[Base EXCEPT !.zs = [mode |-> m, algr |-> a]] : m \in 0..1, a \in {0, 1, 2, 3}}
    \cup {[Base EXCEPT !.groups[1] = {1}, !.low = l, !.zs.mode = m, !.tr = FALSE, !.perFile = 1] :
            l \in {0, 2}, m \in 0..1}
    \cup {[Base EXCEPT !.groups[1] = gs, !.enabled[1] = {0, 3} \ off, !.low = l, !.zs.mode = m] :
            gs \in {{1}, {0, 1}}, off \in {{}, {3}}, l \in {0, 2}, m \in 0..1}
    \cup {[Base EXCEPT !.groups[1] = {}, !.zs.algr = 2, !.perFile = 0, !.date = "header"],
          [Base EXCEPT !.perFile = 1, !.exists = {1}],
          [Base EXCEPT !.exists = {0}]}

OneSetup == {Base}
==============================================================================

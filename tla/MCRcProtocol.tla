---------------------------- MODULE MCRcProtocol ----------------------------
(* Instances of RcProtocol for TLC. *)
EXTENDS RcProtocol, TLC

CONSTANTS c1, c2

TwoClients == {c1, c2}
=============================================================================

---------------------------- MODULE MCConnection ----------------------------
(***************************************************************************)
(* An instance of Connection for TLC: two clients.                         *)
(***************************************************************************)
EXTENDS Connection

CONSTANTS c1, c2

TwoClients == {c1, c2}
=============================================================================

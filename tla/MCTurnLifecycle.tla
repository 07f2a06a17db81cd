--------------------------- MODULE MCTurnLifecycle ---------------------------
(* A small instance of TurnLifecycle for TLC. *)
EXTENDS TurnLifecycle

CONSTANTS c1, c2, c3

ThreeClients == {c1, c2, c3}
Always == {TRUE}
=============================================================================

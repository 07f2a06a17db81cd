---------------------------- MODULE MCWorldDirector ----------------------------
(* A small instance of WorldDirector for TLC. *)
EXTENDS WorldDirector

CONSTANTS a1, a2

TwoAgendas == {a1, a2}
=============================================================================

---------------------------- MODULE MCWorldGraph ----------------------------
(* An instance of WorldGraph for TLC. *)
EXTENDS WorldGraph

NoWindows == {}
=============================================================================

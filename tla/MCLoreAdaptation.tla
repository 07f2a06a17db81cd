--------------------------- MODULE MCLoreAdaptation ---------------------------
(* Instances of LoreAdaptation for TLC. *)
EXTENDS LoreAdaptation
=============================================================================

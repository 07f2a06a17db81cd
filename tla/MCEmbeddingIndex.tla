--------------------------- MODULE MCEmbeddingIndex ---------------------------
(* An instance of EmbeddingIndex for TLC. *)
EXTENDS EmbeddingIndex, TLC

Symmetry == Permutations(Texts)
===============================================================================

------------------------------- MODULE MCSocial -------------------------------
(***************************************************************************)
(* Small instances of what NPCs feel, in the graph, and of what they know, *)
(* from the claims they have heard.  The two share no state here: the      *)
(* variable part says which of them a behaviour is about.                  *)
(***************************************************************************)
EXTENDS GraphAndClaims, TLC

VARIABLE part

\* A client's link begins in the past or in a turn to come.
LinkWindows == {[since |-> t, until |-> Open]: t \in {0, MaxTurn}}

MCVars == <<vars, part, knowledgeVars>>

MCInit ==
    /\ part \in {"graph", "claims"}
    /\ Init /\ K!Init
    /\ part = "graph" => \A n \in Npcs: place[n].zone = "here" /\ place[n].floor = 0

MCNext ==
    /\ UNCHANGED part
    /\ \/ part = "graph" /\ Next /\ UNCHANGED knowledgeVars
       \/ part = "claims" /\ K!Next /\ UNCHANGED vars

MCSpec == MCInit /\ [][MCNext]_MCVars

NpcSymmetry == Permutations(Npcs)
===============================================================================

---------------------------- MODULE GraphAndClaims ----------------------------
(***************************************************************************)
(* The relationship graph of a session beside what its NPCs know of the    *)
(* claims they have heard.  The two share the NPCs and no state: together  *)
(* they do what Spec /\ K!Spec says.                                       *)
(***************************************************************************)
EXTENDS WorldGraph

CONSTANTS Claims,
          Places,  \* the zones that claims and rumours are about
          Texts,
          Limit,   \* entries of a list
          MaxDay,  \* bound on the turns
          ClaimOps \* bound on the operations of a patch

VARIABLES day, claim, place, hearings, batch, told, amended

K == INSTANCE ClaimKnowledge WITH
        turn <- day, links <- hearings, tx <- batch,
        Actors <- Npcs, Zones <- Places,
        Sinces <- {w.since : w \in Windows}, MaxTurn <- MaxDay, MaxOps <- ClaimOps

\* No place has the name that stands for none, or for staying.
ASSUME PlacesAssumption ==
    /\ MaxDay \in Nat /\ ClaimOps \in Nat
    /\ K!None \notin Places /\ K!Keep \notin Places

knowledgeVars == <<day, claim, place, hearings, batch, told, amended>>

\* See ClaimKnowledge.
KnowledgeIsHeard == K!TypeOK /\ K!KnowledgeIsHeard
===============================================================================

------------------------------- MODULE MCPlaces -------------------------------
(***************************************************************************)
(* Small instances of the graph with what the narrator is told of it, and  *)
(* of the commands that take turns back.  The two share no state here: the *)
(* variable part says which of them a behaviour is about.                  *)
(***************************************************************************)
EXTENDS GraphAndCommands, TLC

VARIABLE part

\* A client's link is over, holds since the past, or begins in a turn to come.
LinkWindows == {[since |-> 0, until |-> 1], [since |-> 0, until |-> Open],
                [since |-> 3, until |-> Open]}

MCVars == <<vars, part, commandVars>>

MCInit ==
    /\ part \in {"graph", "commands"}
    /\ Init /\ U!Init
    /\ part = "commands" => \A r \in links: r.edge = LocatedIn(CHOOSE z \in Zones: TRUE)

MCNext ==
    /\ UNCHANGED part
    /\ \/ part = "graph" /\ Next /\ UNCHANGED commandVars
       \/ part = "commands" /\ U!Next /\ UNCHANGED vars

ItemSymmetry == Permutations(Items)

MCSpec == MCInit /\ [][MCNext]_MCVars
===============================================================================

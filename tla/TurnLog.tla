------------------------------- MODULE TurnLog -------------------------------
(***************************************************************************)
(* What a session promises about its turn history, whatever crashes and    *)
(* whoever asks: every index is used once, at most one turn is open and it *)
(* is the newest, a closed turn keeps its verdict for ever, and the game   *)
(* time that has been spent is the time of the turns that completed.       *)
(***************************************************************************)
EXTENDS Integers

CONSTANTS MaxTurn, Scale

VARIABLES top,    \* the newest index in use
          rows,   \* the verdict of every index
          open,   \* the open turn, or NoTurn
          spent   \* minutes of game time consumed by completed turns

vars == <<top, rows, open, spent>>

NoTurn == -1
Verdicts == {"none", "pending", "completed", "error"}

Init ==
    /\ top = 0
    /\ rows = [i \in 0..MaxTurn |-> IF i = 0 THEN "completed" ELSE "none"]
    /\ open = NoTurn
    /\ spent = 0

\* The history once an open turn, if there is one, has been written off.
WrittenOff ==
    IF open = NoTurn THEN rows ELSE [rows EXCEPT ![open] = "error"]

\* A turn is opened; one that was left open is written off first.
OpenTurn ==
    /\ top < MaxTurn
    /\ top' = top + 1
    /\ rows' = [WrittenOff EXCEPT ![top + 1] = "pending"]
    /\ open' = top + 1
    /\ UNCHANGED spent

\* The open turn completes and its minutes count.
Complete ==
    /\ open # NoTurn
    /\ rows' = [rows EXCEPT ![open] = "completed"]
    /\ open' = NoTurn
    /\ \E minutes \in {0, Scale}: spent' = spent + minutes
    /\ UNCHANGED top

\* The open turn is written off; no time was spent.
WriteOff ==
    /\ open # NoTurn
    /\ rows' = WrittenOff
    /\ open' = NoTurn
    /\ UNCHANGED <<top, spent>>

\* A turn that is opened and completed in one transaction.
InstantTurn ==
    /\ top < MaxTurn
    /\ top' = top + 1
    /\ rows' = [WrittenOff EXCEPT ![top + 1] = "completed"]
    /\ open' = NoTurn
    /\ \E minutes \in {0, Scale}: spent' = spent + minutes

Next == OpenTurn \/ Complete \/ WriteOff \/ InstantTurn

Spec == Init /\ [][Next]_vars
=============================================================================

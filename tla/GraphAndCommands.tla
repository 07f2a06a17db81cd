--------------------------- MODULE GraphAndCommands ---------------------------
(***************************************************************************)
(* The relationship graph of a session, with what the narrator is told of  *)
(* it, beside the commands that take turns back.  The commands see a turn  *)
(* by its input, and the graph not at all: together the two do what        *)
(* Spec /\ U!Spec says.                                                    *)
(***************************************************************************)
EXTENDS NarratorView

CONSTANTS Inputs, Rules,
          CommandTurns \* bound on the turns that commands take back

VARIABLES alive, committed, corrections, snapshots, replay, said

U == INSTANCE PlayerCommands WITH world <- committed, MaxTurn <- CommandTurns

ASSUME CommandsAssumption == CommandTurns \in Nat

commandVars == <<alive, committed, corrections, snapshots, replay, said>>

\* The variables of both keep their types, and no link is inverted.
AllTypesOK == TypeOK /\ U!TypeOK

\* See PlayerCommands.
CommandsGoBack == U!CommandsGoBack
===============================================================================

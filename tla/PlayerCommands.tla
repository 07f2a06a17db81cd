---------------------------- MODULE PlayerCommands ----------------------------
(***************************************************************************)
(* The commands with which a player takes turns back and corrects the      *)
(* rules (command_services.py), with the snapshots they go back to         *)
(* (crud_entities.py).  A command holds the session's runtime lock; the    *)
(* endpoint that takes a snapshot and the one that deletes the session do  *)
(* not, and come between the two transactions of a retcon.                 *)
(*                                                                         *)
(* The snapshot repository is outside src/: a restore is taken to remove   *)
(* what is newer than the snapshot, later snapshots included, and a turn   *)
(* to take a snapshot when it commits, or not.                             *)
(***************************************************************************)
EXTENDS Integers, Sequences

CONSTANTS Inputs,  \* what a player may type
          Rules,   \* amendments and guardrails a player may add
          MaxTurn  \* bound

VARIABLES alive,       \* the session exists
          world,       \* the committed turns after turn 0, each by its input
          corrections, \* the player's corrections in state_json
          snapshots,   \* by turn, or None
          replay,      \* what a retcon has still to run, and for which turn
          said         \* the result of the last command

vars == <<alive, world, corrections, snapshots, replay, said>>

None == [kind |-> "none"]
Turns == 0..MaxTurn
Failed == "failed"

Disputes == [disputed : Turns]
Corrections == [rule : Rules] \cup Disputes

TypeOK ==
    /\ alive \in BOOLEAN
    /\ world \in Seq(Inputs \cup {Failed}) /\ Len(world) \in Turns
    /\ corrections \subseteq Corrections
    /\ \A t \in Turns :
          snapshots[t] # None => Len(snapshots[t].world) = t
    /\ replay \in [input : Inputs, replaced : Turns] \cup {None}

CommittedTurn == Len(world)

\* _build_session_snapshot_dump
Dump == [world |-> world, corrections |-> corrections]

\* create_session_with_defaults stores the first snapshot with turn 0.
Init ==
    /\ alive = TRUE
    /\ world = <<>>
    /\ corrections = {}
    /\ snapshots = [t \in Turns |-> IF t = 0 THEN Dump ELSE None]
    /\ replay = None
    /\ said = None

Said(command, from, restored) ==
    said' = [command |-> command, affected |-> (restored + 1)..from]

\* player_command_repository.get_snapshot_at_or_before: the newest such turn.
SnapshotsAtOrBefore(target) ==
    {t \in Turns : t <= target /\ snapshots[t] # None}

SnapshotAtOrBefore(target) ==
    CHOOSE t \in SnapshotsAtOrBefore(target) :
        \A other \in SnapshotsAtOrBefore(target) : other <= t

\* Mutant: the corrections come from the snapshot too.
RestoreWithItsCorrections(t, preserved) ==
    /\ world' = snapshots[t].world
    /\ corrections' = snapshots[t].corrections
    /\ snapshots' = [s \in Turns |-> IF s > t THEN None ELSE snapshots[s]]

\* player_command_repository.restore_snapshot_in_place
RestoreSnapshotInPlace(t, preserved) ==
    /\ world' = snapshots[t].world
    /\ corrections' = preserved
    /\ snapshots' = [s \in Turns |-> IF s > t THEN None ELSE snapshots[s]]

\* _maybe_capture_snapshot: of the state now, unless it fails.
MaybeCaptureSnapshot(turns, rules) ==
    \/ UNCHANGED snapshots
    \/ snapshots' = [snapshots EXCEPT ![Len(turns)] =
                        [world |-> turns, corrections |-> rules]]
-----------------------------------------------------------------------------
RunTurn(input) ==
    /\ alive /\ replay = None /\ CommittedTurn < MaxTurn
    /\ world' = Append(world, input)
    /\ MaybeCaptureSnapshot(world', corrections)
    /\ UNCHANGED <<alive, corrections, replay, said>>

\* create_session_snapshot holds the turn lock of its own transaction only.
CreateSessionSnapshot ==
    /\ alive
    /\ snapshots' = [snapshots EXCEPT ![CommittedTurn] = Dump]
    /\ UNCHANGED <<alive, world, corrections, replay, said>>

DeleteSession ==
    /\ alive
    /\ alive' = FALSE
    /\ UNCHANGED <<world, corrections, snapshots, replay, said>>

Command == alive /\ replay = None

\* The turn an undo and a retcon go back to.
TargetOfUndo == CommittedTurn - 1

HandleUndo ==
    /\ Command /\ CommittedTurn > 0
    /\ SnapshotsAtOrBefore(TargetOfUndo) # {}
    /\ RestoreSnapshotInPlace(SnapshotAtOrBefore(TargetOfUndo), corrections)
    /\ Said("undo", CommittedTurn, Len(world'))
    /\ UNCHANGED <<alive, replay>>

\* A rollback to the present turn or a later one changes nothing.
HandleRollback(requested) ==
    /\ Command
    /\ \/ /\ requested >= CommittedTurn
          /\ Said("rollback", CommittedTurn, CommittedTurn)
          /\ UNCHANGED <<world, corrections, snapshots>>
       \/ /\ requested < CommittedTurn
          /\ SnapshotsAtOrBefore(requested) # {}
          /\ RestoreSnapshotInPlace(SnapshotAtOrBefore(requested), corrections)
          /\ Said("rollback", CommittedTurn, Len(world'))
    /\ UNCHANGED <<alive, replay>>

\* The correction is committed; the capture comes in a transaction of its own.
AddCorrection(command, rule) ==
    /\ Command
    /\ corrections' = corrections \cup {[rule |-> rule]}
    /\ MaybeCaptureSnapshot(world, corrections')
    /\ said' = [command |-> command, affected |-> {CommittedTurn}]
    /\ UNCHANGED <<alive, world, replay>>

HandleFixrule(rule) == AddCorrection("fixrule", rule)
HandleFair(rule) == AddCorrection("fair", rule)

\* _handle_retcon, first transaction: the last turn is marked and undone.
RetconRestores(input) ==
    /\ Command /\ CommittedTurn > 0
    /\ SnapshotsAtOrBefore(TargetOfUndo) # {}
    /\ RestoreSnapshotInPlace(SnapshotAtOrBefore(TargetOfUndo),
           corrections \cup {[disputed |-> CommittedTurn]})
    /\ replay' = [input |-> input, replaced |-> CommittedTurn]
    /\ said' = None
    /\ UNCHANGED alive

\* The replay, in transactions of its own, and the capture after it.
RetconReplays ==
    /\ alive /\ replay # None
    /\ world' = Append(world, replay.input)
    /\ MaybeCaptureSnapshot(world', corrections)
    /\ replay' = None
    /\ said' = [command |-> "retcon", affected |-> {replay.replaced}]
    /\ UNCHANGED <<alive, corrections>>

\* The replay fails, before its turn is allocated or after it, or the process
\* dies: nothing takes back what the first transaction did.
RetconFails ==
    /\ replay # None
    /\ replay' = None
    /\ world' \in IF alive THEN {world, Append(world, Failed)} ELSE {world}
    /\ UNCHANGED <<alive, corrections, snapshots, said>>

\* _handle_why only reads.
HandleWhy ==
    /\ Command /\ CommittedTurn > 0
    /\ said' = [command |-> "why", affected |-> {CommittedTurn}]
    /\ UNCHANGED <<alive, world, corrections, snapshots, replay>>

Next ==
    \/ \E input \in Inputs : RunTurn(input) \/ RetconRestores(input)
    \/ CreateSessionSnapshot \/ DeleteSession
    \/ HandleUndo
    \/ \E t \in Turns : HandleRollback(t)
    \/ \E rule \in Rules : HandleFixrule(rule) \/ HandleFair(rule)
    \/ RetconReplays \/ RetconFails
    \/ HandleWhy

Spec == Init /\ [][Next]_vars
-----------------------------------------------------------------------------
IsPrefix(s, t) == Len(s) <= Len(t) /\ s = SubSeq(t, 1, Len(s))

\* Whatever the order of turns, snapshots, rules and commands that fail half
\* way: a step adds one turn or goes back to where this session once was, an
\* undo and a retcon by one turn at least and an undo and a rollback by the
\* turns they report, and no step takes a correction of the player away.
CommandsGoBack ==
    [][/\ corrections \subseteq corrections'
       /\ \/ Len(world') = Len(world) + 1 /\ IsPrefix(world, world')
          \/ IsPrefix(world', world)
       /\ replay = None /\ replay' # None => Len(world') < Len(world)
       /\ said' \notin {said, None} =>
             /\ said'.command \in {"undo", "rollback"} =>
                   said'.affected = (Len(world') + 1)..Len(world)
             /\ said'.command = "undo" => Len(world') < Len(world)
      ]_vars
=============================================================================

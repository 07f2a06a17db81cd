---------------------------- MODULE WorldDirector ----------------------------
(***************************************************************************)
(* The world director of one session (crud_director.py).  A player turn    *)
(* leaves a world_tick event in the outbox.  The tick turns consequence    *)
(* windows that are due into agendas and starts the best of them, each     *)
(* with an npc_agenda_tick event of its own.  That tick lets an NPC take a *)
(* director turn, closes the agenda, and may enqueue the next world_tick   *)
(* of the chain.                                                           *)
(*                                                                         *)
(* Events are delivered at least once: a handler whose process dies before *)
(* the event is marked processed is run again.  Handlers hold the session  *)
(* runtime lock, so at most one of them is between two of its              *)
(* transactions, and no player turn happens meanwhile.                     *)
(***************************************************************************)
EXTENDS Integers, FiniteSets

CONSTANTS Agendas,      \* one per consequence window
          MaxChainDepth,\* MAX_DIRECTOR_CHAIN_DEPTH
          RunLimit,     \* min(budget, 2) of _schedule_due_agendas
          MaxAttempts,  \* outbox_events.max_attempts
          MaxTurn,      \* bound on the turn index
          MaxCrashes    \* bound on deliveries that are repeated

ASSUME ChainAssumption == MaxChainDepth \in Nat \ {0}
ASSUME LimitsAssumption == RunLimit \in Nat /\ MaxAttempts \in Nat \ {0}
ASSUME BoundsAssumption == MaxTurn \in Nat /\ MaxCrashes \in Nat

VARIABLES turn,     \* sessions.turn_index
          due,      \* agendas whose consequence window is due
          status,   \* data.status of each agenda
          active,   \* data.active_dedupe_key
          until,    \* data.suppressed_until_turn, the last one if gone
          outbox,   \* the events by dedupe key
          handler,  \* the npc tick between its director turn and its close
          runs,     \* history: director turns taken for each agenda
          crashes

agendaVars == <<status, active, until>>
vars == <<turn, due, agendaVars, outbox, handler, runs, crashes>>

Turns == 0..MaxTurn
NoKey == [kind |-> "none"]

\* Dedupe keys.
WorldTick(by, depth) == [kind |-> "world", by |-> by, depth |-> depth]
NpcTick(a, by) == [kind |-> "npc", agenda |-> a, by |-> by]

Depths == 0..MaxChainDepth
WorldTicks == {WorldTick(by, d): by \in Turns, d \in Depths}
NpcTicks == {NpcTick(a, by): a \in Agendas, by \in Turns}

Event == [state: {"pending", "processed", "failed"},
          attempts: 0..MaxAttempts, depth: Depths]

TypeOK ==
    /\ turn \in Turns
    /\ due \subseteq Agendas
    /\ status \in
          [Agendas -> {"none", "open", "running", "closed", "suppressed"}]
    /\ active \in [Agendas -> NpcTicks \cup {NoKey}]
    /\ until \in [Agendas -> 0..(MaxTurn + 1)]
    /\ DOMAIN outbox \subseteq WorldTicks \cup NpcTicks
    /\ \A key \in DOMAIN outbox: outbox[key] \in Event
    /\ handler \in NpcTicks \cup {NoKey}
    /\ runs \in [Agendas -> Nat]
    /\ crashes \in 0..MaxCrashes

Init ==
    /\ turn = 0
    /\ due = {}
    /\ status = [a \in Agendas |-> "none"]
    /\ active = [a \in Agendas |-> NoKey]
    /\ until = [a \in Agendas |-> 0]
    /\ outbox = [key \in {} |-> NoKey]
    /\ handler = NoKey
    /\ runs = [a \in Agendas |-> 0]
    /\ crashes = 0

Pending(key) == key \in DOMAIN outbox /\ outbox[key].state = "pending"
Failed(key) == key \in DOMAIN outbox /\ outbox[key].state = "failed"

\* External: enqueue_outbox_event keeps the event a dedupe key already has.
Enqueued(box, keys, depth) ==
    [key \in DOMAIN box \cup keys |->
        IF key \in DOMAIN box THEN box[key]
        ELSE [state |-> "pending", attempts |-> 0, depth |-> depth]]

\* External: the outbox worker records how a delivery ended.
Acknowledged(box, key) == [box EXCEPT ![key].state = "processed"]
Unacknowledged(box, key) ==
    LET tried == box[key].attempts + 1
    IN  [box EXCEPT ![key].attempts = tried,
                    ![key].state = IF tried < MaxAttempts THEN "pending"
                                   ELSE "failed"]

\* A delivery ends; its process may die before it says so.
Delivered(box, key) ==
    \/ outbox' = Acknowledged(box, key) /\ UNCHANGED crashes
    \/ /\ crashes < MaxCrashes
       /\ crashes' = crashes + 1
       /\ outbox' = Unacknowledged(box, key)
-----------------------------------------------------------------------------
(***************************************************************************)
(* Turns of the players.                                                   *)
(***************************************************************************)

\* External: a player turn commits; windows come and go with it.
PlayerTurn ==
    /\ handler = NoKey
    /\ turn < MaxTurn
    /\ turn' = turn + 1
    /\ due' \in SUBSET Agendas
    /\ outbox' = Enqueued(outbox, {WorldTick(turn + 1, 0)}, 0)
    /\ UNCHANGED <<agendaVars, handler, runs, crashes>>
-----------------------------------------------------------------------------
(***************************************************************************)
(* world_tick.                                                             *)
(***************************************************************************)

\* Mutant: agendas are retried whatever was found out about them last time.
RefreshedImpatiently(a) ==
    IF a \in due /\ status[a] \in {"none", "suppressed"} THEN "open"
    ELSE status[a]

\* First half of _refresh_or_materialize_agendas: agendas of due windows.
Refreshed(a) ==
    IF a \in due /\ (\/ status[a] = "none"
                     \/ status[a] = "suppressed" /\ turn > until[a])
    THEN "open"
    ELSE status[a]

\* Second half: the event of a running agenda has failed for good.
LostItsEvent(a) == status[a] = "running" /\ Failed(active[a])

\* Mutant: an agenda that runs or is done competes again when it is due.
SchedulableWhenDue(a) ==
    ~LostItsEvent(a) /\ (Refreshed(a) = "open" \/ a \in due)

Schedulable(a) == ~LostItsEvent(a) /\ Refreshed(a) = "open"

\* _schedule_due_agendas; which of the open agendas score best is left open.
\* A tick as deep as the limit would do nothing; none is ever enqueued.
RunWorldTick(key) ==
    LET open == {a \in Agendas: Schedulable(a)}
        size == IF Cardinality(open) < RunLimit THEN Cardinality(open)
                ELSE RunLimit
    IN  /\ Pending(key)
        /\ key.kind = "world"
        /\ handler = NoKey
        /\ key.depth < MaxChainDepth
        /\ \E best \in SUBSET open:
              /\ Cardinality(best) = size
              /\ status' = [a \in Agendas |->
                    IF LostItsEvent(a) THEN "suppressed"
                    ELSE IF a \in best THEN "running"
                    ELSE Refreshed(a)]
              /\ active' = [a \in Agendas |->
                    IF LostItsEvent(a) THEN NoKey
                    ELSE IF a \in best THEN NpcTick(a, key.by)
                    ELSE active[a]]
              /\ Delivered(Enqueued(outbox,
                                    {NpcTick(a, key.by): a \in best},
                                    key.depth + 1), key)
        /\ until' = [a \in Agendas |-> IF LostItsEvent(a) THEN turn + 1
                                       ELSE until[a]]
        /\ UNCHANGED <<turn, due, handler, runs>>
-----------------------------------------------------------------------------
(***************************************************************************)
(* npc_agenda_tick.                                                        *)
(***************************************************************************)

\* Mutant: a tick whose window is no longer due is dropped.
StillWantedIfDue(key) == status[key.agenda] = "running" /\ key.agenda \in due

StillWanted(key) == status[key.agenda] = "running"

\* The first transaction finds the agenda running; then the director turn is
\* taken and committed (external: run_director_turn_locked).
TakeDirectorTurn(key) ==
    /\ Pending(key)
    /\ key.kind = "npc"
    /\ handler = NoKey
    /\ StillWanted(key)
    /\ turn < MaxTurn
    /\ turn' = turn + 1
    /\ due' \in SUBSET due
    /\ runs' = [runs EXCEPT ![key.agenda] = @ + 1]
    /\ handler' = key
    /\ UNCHANGED <<agendaVars, outbox, crashes>>

SkipNpcTick(key) ==
    /\ Pending(key)
    /\ key.kind = "npc"
    /\ handler = NoKey
    /\ ~StillWanted(key)
    /\ Delivered(outbox, key)
    /\ UNCHANGED <<turn, due, agendaVars, handler, runs>>

\* The event the closing transaction adds to the chain.
NextTicks(key) ==
    IF outbox[key].depth < MaxChainDepth
    THEN {WorldTick(turn, outbox[key].depth)}
    ELSE {}

\* Mutant: the chain goes on and the agenda is forgotten.
CloseWithoutAgenda(key) ==
    /\ handler = key
    /\ Delivered(Enqueued(outbox, NextTicks(key), outbox[key].depth), key)
    /\ handler' = NoKey
    /\ UNCHANGED <<turn, due, agendaVars, runs>>

\* The last transaction of _run_npc_agenda_tick_outbox_event.
CloseAgenda(key) ==
    /\ handler = key
    /\ status' = [status EXCEPT ![key.agenda] = "closed"]
    /\ active' = [active EXCEPT ![key.agenda] = NoKey]
    /\ Delivered(Enqueued(outbox, NextTicks(key), outbox[key].depth), key)
    /\ handler' = NoKey
    /\ UNCHANGED <<turn, due, until, runs>>

\* The process dies after the director turn, before the agenda is closed.
DieBeforeClose(key) ==
    /\ handler = key
    /\ crashes < MaxCrashes
    /\ crashes' = crashes + 1
    /\ handler' = NoKey
    /\ outbox' = Unacknowledged(outbox, key)
    /\ UNCHANGED <<turn, due, agendaVars, runs>>

\* A delivery fails before it did anything: the runtime lock is taken (409),
\* the planner or the database is down.
FailDelivery(key) ==
    /\ Pending(key)
    /\ handler # key
    /\ outbox' = Unacknowledged(outbox, key)
    /\ UNCHANGED <<turn, due, agendaVars, handler, runs, crashes>>
-----------------------------------------------------------------------------
Deliver(key) ==
    \/ RunWorldTick(key)
    \/ TakeDirectorTurn(key)
    \/ SkipNpcTick(key)
    \/ FailDelivery(key)

Finish(key) == CloseAgenda(key) \/ DieBeforeClose(key)

Next ==
    \/ PlayerTurn
    \/ \E key \in DOMAIN outbox: Deliver(key)
    \/ \E key \in DOMAIN outbox: Finish(key)

Spec == Init /\ [][Next]_vars

\* The outbox worker polls for ever and a handler it has started ends.
FairSpec ==
    /\ Spec
    /\ \A key \in WorldTicks \cup NpcTicks:
          /\ WF_vars(key \in DOMAIN outbox /\ Deliver(key))
          /\ WF_vars(key \in DOMAIN outbox /\ Finish(key))
-----------------------------------------------------------------------------
(***************************************************************************)
(* Properties.                                                             *)
(***************************************************************************)

\* An agenda is never left running with nobody to run it: its event is still
\* to be delivered, or has failed and the next world tick will notice.
RunningAgendaHasItsEvent ==
    \A a \in Agendas:
        status[a] = "running" =>
            /\ active[a] \in DOMAIN outbox
            /\ outbox[active[a]].state # "processed"

\* An NPC acts once on an agenda; only a process that dies between the
\* director turn and the close can make it act again.
AgendaActsOnce == \A a \in Agendas: runs[a] <= 1 + crashes

\* However often events are delivered and processes die, every agenda has the
\* one event that will run it, and runs once.
AgendaRunsAreSound == TypeOK /\ RunningAgendaHasItsEvent /\ AgendaActsOnce

\* A run that failed is not repeated in the turn it was found out, nor in
\* the one after.
BacksOffAfterFailure ==
    [][\A a \in Agendas:
          status'[a] = "running" /\ status[a] # "running"
              => until[a] = 0 \/ turn > until[a]]_vars

\* A run ends: the agenda is closed, or the event has failed for good.
RunsSettle ==
    \A a \in Agendas:
        status[a] = "running"
            ~> status[a] # "running" \/ Failed(active[a])
=============================================================================

---------------------------- MODULE TurnLifecycle ----------------------------
(***************************************************************************)
(* The turn lifecycle of one session on PostgreSQL: who may work on it,    *)
(* how a turn index is allocated, what pending_turn protects, and how a    *)
(* pending turn whose owner is gone is recovered.                          *)
(*                                                                         *)
(* Sessions share nothing (ADR-001), so one is modelled.  Two locks guard  *)
(* it.  The runtime lock is a session-level advisory lock taken with       *)
(* pg_try_advisory_lock on a connection of its own and held over several   *)
(* transactions; it is the variable rt.  An unlock that raises leaves it   *)
(* on a connection that goes back to the pool; that is the variable        *)
(* leaked.  The transaction-level advisory lock and SELECT ... FOR UPDATE  *)
(* serialise single transactions, so each transaction is one step here.  A *)
(* transaction that raises rolls back and is a stuttering step.            *)
(***************************************************************************)
EXTENDS GameClock

CONSTANTS Clients,        \* request handlers and background workers
          NoClient,       \* nobody
          MaxTurn,        \* bound on the turn index
          Scale,          \* the session's time_scale, in minutes
          AdvanceModes,   \* values of _allocate_turn's advance_time in use
          MaxLockLosses   \* bound on dropped lock connections

ASSUME ClientsAssumption == NoClient \notin Clients
ASSUME MaxTurnAssumption == MaxTurn \in Nat
ASSUME ScaleAssumption == Scale \in TimeScales
ASSUME AdvanceModesAssumption == AdvanceModes \subseteq BOOLEAN
ASSUME MaxLockLossesAssumption == MaxLockLosses \in Nat

VARIABLES rt,        \* the client whose connection holds the runtime lock
          pc,        \* what each client is doing
          mine,      \* the turn a client has allocated and not yet closed
          turnIndex, \* sessions.turn_index
          rows,      \* turns.ai_json.status by turn_index
          pending,   \* state_json.pending_turn
          stale,     \* pending_turn_started_at is over the timeout
          clock,     \* state_json.time
          graphOps,  \* state_json.pending_graph_ops is not empty
          advanced,  \* history: the pending turn moved the clock
          losses,    \* lock connections lost so far
          leaked     \* a failed unlock left the lock on a pooled connection

vars == <<rt, pc, mine, turnIndex, rows, pending, stale, clock, graphOps,
          advanced, losses, leaked>>
ledger == <<turnIndex, rows, pending, stale, clock, advanced>>

NoTurn == -1
Turns == 0..MaxTurn
Stages == {"idle", "locked", "planning", "done"}

TypeOK ==
    /\ rt \in Clients \cup {NoClient}
    /\ pc \in [Clients -> Stages]
    /\ mine \in [Clients -> Turns \cup {NoTurn}]
    /\ turnIndex \in Turns
    /\ rows \in [Turns -> {"none", "pending", "completed", "error"}]
    /\ pending \in Turns \cup {NoTurn}
    /\ stale \in BOOLEAN
    /\ clock \in Instants
    /\ graphOps \in BOOLEAN
    /\ advanced \in BOOLEAN
    /\ losses \in Nat
    /\ leaked \in BOOLEAN

\* create_session_with_defaults leaves turn 0 committed at 0:00.
Init ==
    /\ rt = NoClient
    /\ pc = [c \in Clients |-> "idle"]
    /\ mine = [c \in Clients |-> NoTurn]
    /\ turnIndex = 0
    /\ rows = [i \in Turns |-> IF i = 0 THEN "completed" ELSE "none"]
    /\ pending = NoTurn
    /\ stale = FALSE
    /\ clock = [day |-> 0, minute |-> 0]
    /\ graphOps = FALSE
    /\ advanced = FALSE
    /\ losses = 0
    /\ leaked = FALSE
-----------------------------------------------------------------------------
(***************************************************************************)
(* Recovery.                                                               *)
(***************************************************************************)

\* _current_context_holds_session_turn_runtime_lock: the context variable is
\* set from the moment the lock was taken, even if its connection died since.
HoldsInContext(c) == pc[c] # "idle"

\* _is_session_turn_runtime_lock_held asks pg_locks: the lock counts whether
\* its connection is at work or idle in the pool.
RuntimeLockHeld == rt # NoClient \/ leaked

\* Mutant: nobody asks whether the owner of the pending turn is alive.
MayProceedUnasked(c) == TRUE

\* _recover_abandoned_pending_turn_locked lets c go on (no 409).
MayProceed(c) == pending = NoTurn \/ ~RuntimeLockHeld \/ HoldsInContext(c)

\* Mutant: the abandoned row is deleted.
TombstonesDeleted ==
    IF pending = NoTurn THEN rows ELSE [rows EXCEPT ![pending] = "none"]

\* What _clear_pending_turn_locked leaves in the turns table: a tombstone.
TombstonedRows ==
    IF pending = NoTurn THEN rows
    ELSE [rows EXCEPT ![pending] = IF @ = "completed" THEN @ ELSE "error"]

\* Mutants: the clock goes back with nothing pending; it never goes back.
ClockAlwaysRewound == Rewind(clock, Scale)
ClockNeverRewound == clock

\* ... and in state_json.time.
RecoveredClock ==
    IF pending = NoTurn THEN clock ELSE Rewind(clock, Scale)

\* The transaction closes with no turn pending.
ClearPending ==
    /\ rows' = TombstonedRows
    /\ clock' = RecoveredClock
    /\ pending' = NoTurn
    /\ stale' = FALSE
    /\ advanced' = FALSE
-----------------------------------------------------------------------------
(***************************************************************************)
(* The runtime lock.                                                       *)
(***************************************************************************)

\* Session-level advisory locks are re-entrant: while the lock is leaked, only
\* a handler that draws that very connection from the pool gets it.
AcquireRuntimeLock(c) ==
    /\ pc[c] = "idle"
    /\ rt = NoClient
    /\ rt' = c
    /\ pc' = [pc EXCEPT ![c] = "locked"]
    /\ UNCHANGED <<mine, ledger, graphOps, losses, leaked>>

\* Mutant: a worker takes its next job without letting go of the lock.
KeepRuntimeLock(c) ==
    /\ pc[c] = "done"
    /\ pc' = [pc EXCEPT ![c] = "locked"]
    /\ UNCHANGED <<rt, mine, ledger, graphOps, losses, leaked>>

\* The finally block.  A pg_advisory_unlock that raises is only logged and
\* close() gives the connection back to the pool with its lock; unlocking a
\* lock that is not held, or one that was drawn leaked, takes off one hold.
ReleaseRuntimeLock(c) ==
    /\ pc[c] = "done"
    /\ rt' = IF rt = c THEN NoClient ELSE rt
    /\ \E raises \in BOOLEAN: leaked' = (leaked \/ (raises /\ rt = c))
    /\ pc' = [pc EXCEPT ![c] = "idle"]
    /\ UNCHANGED <<mine, ledger, graphOps, losses>>

\* QueuePool opens a connection older than DB_POOL_RECYCLE_SECONDS anew when
\* it is next taken from the pool, by whichever request or worker that is; its
\* process may also end.
RecycleConnection ==
    /\ leaked
    /\ rt = NoClient
    /\ leaked' = FALSE
    /\ UNCHANGED <<rt, pc, mine, ledger, graphOps, losses>>

\* The request ends without a turn: rate limit, 404, 409, a read-only command.
AbortRequest(c) ==
    /\ pc[c] = "locked"
    /\ pc' = [pc EXCEPT ![c] = "done"]
    /\ UNCHANGED <<rt, mine, ledger, graphOps, losses, leaked>>

\* The server drops the lock connection; its client does not notice.
LoseLockConnection(c) ==
    /\ losses < MaxLockLosses
    /\ rt = c
    /\ rt' = NoClient
    /\ leaked' = FALSE
    /\ losses' = losses + 1
    /\ UNCHANGED <<pc, mine, ledger, graphOps>>

\* The process dies; PostgreSQL releases the lock with the connection, the
\* holds that were leaked on it included.
Crash(c) ==
    /\ pc[c] # "idle"
    /\ rt' = IF rt = c THEN NoClient ELSE rt
    /\ leaked' = (leaked /\ rt # c)
    /\ pc' = [pc EXCEPT ![c] = "idle"]
    /\ mine' = [mine EXCEPT ![c] = NoTurn]
    /\ UNCHANGED <<ledger, graphOps, losses>>
-----------------------------------------------------------------------------
(***************************************************************************)
(* A player or director turn: allocated, planned for seconds outside any   *)
(* transaction, then applied or written off.                               *)
(***************************************************************************)

\* Mutant: the index of a turn that was written off is used again.
AllocateReusingTombstone(c, advance) ==
    LET index == IF rows[turnIndex] = "error" THEN turnIndex
                 ELSE turnIndex + 1
    IN  /\ pc[c] = "locked"
        /\ MayProceed(c)
        /\ index <= MaxTurn
        /\ turnIndex' = index
        /\ rows' = [TombstonedRows EXCEPT ![index] = "pending"]
        /\ pending' = index
        /\ stale' = FALSE
        /\ clock' = Advance(RecoveredClock, Scale)
        /\ advanced' = advance
        /\ mine' = [mine EXCEPT ![c] = index]
        /\ pc' = [pc EXCEPT ![c] = "planning"]
        /\ UNCHANGED <<rt, graphOps, losses, leaked>>

AllocateTurn(c, advance) ==
    /\ pc[c] = "locked"
    /\ MayProceed(c)
    /\ turnIndex < MaxTurn
    /\ RecoveredClock.day < DayCap
    /\ turnIndex' = turnIndex + 1
    /\ rows' = [TombstonedRows EXCEPT ![turnIndex + 1] = "pending"]
    /\ pending' = turnIndex + 1
    /\ stale' = FALSE
    /\ clock' = IF advance THEN Advance(RecoveredClock, Scale)
                ELSE RecoveredClock
    /\ advanced' = advance
    /\ mine' = [mine EXCEPT ![c] = turnIndex + 1]
    /\ pc' = [pc EXCEPT ![c] = "planning"]
    /\ UNCHANGED <<rt, graphOps, losses, leaked>>

\* External: apply_turn_plan commits the turn and pops pending_turn, if the
\* turn is still the pending one.
FinalizeTurn(c) ==
    /\ pc[c] = "planning"
    /\ pending = mine[c]
    /\ rows' = [rows EXCEPT ![pending] = "completed"]
    /\ pending' = NoTurn
    /\ stale' = FALSE
    /\ advanced' = FALSE
    /\ mine' = [mine EXCEPT ![c] = NoTurn]
    /\ pc' = [pc EXCEPT ![c] = "done"]
    /\ UNCHANGED <<rt, turnIndex, clock, graphOps, losses, leaked>>

\* Mutant: the owner pops pending_turn whichever turn it names by now.
FailTurnUnasked(c) ==
    /\ pc[c] = "planning"
    /\ rows' = [rows EXCEPT ![mine[c]] = "error"]
    /\ clock' = RecoveredClock
    /\ pending' = NoTurn
    /\ stale' = FALSE
    /\ advanced' = FALSE
    /\ mine' = [mine EXCEPT ![c] = NoTurn]
    /\ pc' = [pc EXCEPT ![c] = "done"]
    /\ UNCHANGED <<rt, turnIndex, graphOps, losses, leaked>>

\* _recover_stuck_pending_turn: the owner writes its turn off, but only while
\* pending_turn still names it.
FailTurn(c) ==
    /\ pc[c] = "planning"
    /\ IF pending = mine[c] THEN ClearPending
       ELSE UNCHANGED <<rows, clock, pending, stale, advanced>>
    /\ mine' = [mine EXCEPT ![c] = NoTurn]
    /\ pc' = [pc EXCEPT ![c] = "done"]
    /\ UNCHANGED <<rt, turnIndex, graphOps, losses, leaked>>

\* Time passes: the pending turn is older than PENDING_TURN_TIMEOUT_SECONDS.
PendingTurnAges ==
    /\ pending # NoTurn
    /\ ~stale
    /\ stale' = TRUE
    /\ UNCHANGED <<rt, pc, mine, turnIndex, rows, pending, clock, graphOps,
                   advanced, losses, leaked>>

\* POST recover: refused while anybody holds the runtime lock, and, unless
\* forced, while the turn is within its time window.
RecoverPendingTurn(force) ==
    /\ pending # NoTurn
    /\ ~RuntimeLockHeld
    /\ force \/ stale
    /\ ClearPending
    /\ UNCHANGED <<rt, pc, mine, turnIndex, graphOps, losses, leaked>>
-----------------------------------------------------------------------------
(***************************************************************************)
(* Turns of a single transaction.                                          *)
(***************************************************************************)

MovePlayer(c) ==
    /\ pc[c] = "locked"
    /\ MayProceed(c)
    /\ turnIndex < MaxTurn
    /\ RecoveredClock.day < DayCap
    /\ turnIndex' = turnIndex + 1
    /\ rows' = [TombstonedRows EXCEPT ![turnIndex + 1] = "completed"]
    /\ clock' = Advance(RecoveredClock, Scale)
    /\ pending' = NoTurn
    /\ stale' = FALSE
    /\ advanced' = FALSE
    /\ pc' = [pc EXCEPT ![c] = "done"]
    /\ UNCHANGED <<rt, mine, graphOps, losses, leaked>>

\* _create_internal_turn_row and the synthetic turn of the graph check: an
\* index is used, no game time passes.
InternalTurn ==
    /\ turnIndex < MaxTurn
    /\ turnIndex' = turnIndex + 1
    /\ rows' = [TombstonedRows EXCEPT ![turnIndex + 1] = "completed"]
    /\ clock' = RecoveredClock
    /\ pending' = NoTurn
    /\ stale' = FALSE
    /\ advanced' = FALSE

ApplyPendingGraphOps(c) ==
    /\ pc[c] = "locked"
    /\ MayProceed(c)
    /\ \/ graphOps /\ InternalTurn
       \/ ~graphOps /\ ClearPending /\ UNCHANGED turnIndex
    /\ graphOps' = FALSE
    /\ pc' = [pc EXCEPT ![c] = "done"]
    /\ UNCHANGED <<rt, mine, losses, leaked>>

\* create_object, create_link, create_claim: no runtime lock is taken.
InternalMutation(c) ==
    /\ pc[c] = "idle"
    /\ MayProceed(c)
    /\ InternalTurn
    /\ UNCHANGED <<rt, pc, mine, graphOps, losses, leaked>>

\* create_session_snapshot and the lore mutations: they recover an abandoned
\* turn in passing and use no index.
TouchSession(c) ==
    /\ pc[c] = "idle"
    /\ MayProceed(c)
    /\ pending # NoTurn
    /\ ClearPending
    /\ UNCHANGED <<rt, pc, mine, turnIndex, graphOps, losses, leaked>>

\* _store_pending_graph_ops holds the row lock only and asks nobody.
StorePendingGraphOps ==
    /\ ~graphOps
    /\ graphOps' = TRUE
    /\ UNCHANGED <<rt, pc, mine, ledger, losses, leaked>>
-----------------------------------------------------------------------------
Work(c) ==
    \/ AbortRequest(c)
    \/ \E advance \in AdvanceModes: AllocateTurn(c, advance)
    \/ FinalizeTurn(c)
    \/ FailTurn(c)
    \/ MovePlayer(c)
    \/ ApplyPendingGraphOps(c)
    \/ ReleaseRuntimeLock(c)

Next ==
    \/ \E c \in Clients:
          \/ AcquireRuntimeLock(c)
          \/ Work(c)
          \/ LoseLockConnection(c)
          \/ Crash(c)
          \/ InternalMutation(c)
          \/ TouchSession(c)
    \/ \E force \in BOOLEAN: RecoverPendingTurn(force)
    \/ PendingTurnAges
    \/ StorePendingGraphOps
    \/ RecycleConnection

Spec == Init /\ [][Next]_vars

\* A handler that holds the lock keeps running until it dies or is done: its
\* planning calls all carry timeouts.  The pool hands its idle connections out
\* in turn (the outbox worker alone is to poll every second), so one that keeps
\* coming back with the lock is too old at one of these times.  Nobody is
\* obliged to send a request.
FairSpec ==
    /\ Spec
    /\ \A c \in Clients: WF_vars(Work(c))
    /\ SF_vars(RecycleConnection)
-----------------------------------------------------------------------------
(***************************************************************************)
(* Properties.                                                             *)
(***************************************************************************)

\* sessions.turn_index is the newest turn row and no index below it is
\* missing (the deferred trigger of migration 0012, and the tombstones that
\* _clear_pending_turn_locked keeps instead of reusing an index).
IndexIsNewestRow == \A i \in Turns: rows[i] = "none" <=> i > turnIndex

\* The only open turn row is the one pending_turn names (migration 0009), and
\* nobody was given an index above it while it was open.
PendingTurnIsTheOpenRow ==
    /\ \A i \in Turns: rows[i] = "pending" <=> i = pending
    /\ pending # NoTurn => pending = turnIndex

\* What the session row says of its turns is what the turn rows say.
SessionMatchesItsRows == IndexIsNewestRow /\ PendingTurnIsTheOpenRow

\* As long as no lock connection was lost, a handler that is planning its turn
\* has the runtime lock and its turn is the pending one: no mutation, recovery
\* or other handler has written it off or started a second one.
PlanningTurnIsProtected ==
    losses = 0 =>
        \A c \in Clients: pc[c] = "planning" => rt = c /\ pending = mine[c]

\* A turn that completed or was written off keeps that verdict: neither a
\* late failure, a forced recovery nor an automatic one rewrites it.
VerdictsAreFinal ==
    [][\A i \in Turns:
          rows[i] \in {"completed", "error"} => rows'[i] = rows[i]]_vars

\* The clock without the step of the turn that is still pending.
CommittedMinutes ==
    IF pending # NoTurn /\ advanced THEN Minutes(clock) - Scale
    ELSE Minutes(clock)

\* "Pending-turn recovery must preserve committed session state": game time
\* that completed turns have spent is never given back.
CommittedTimeIsKept ==
    [][CommittedMinutes' >= CommittedMinutes]_vars

\* The lifecycle implements the turn history a session promises.
History == INSTANCE TurnLog WITH
    top <- turnIndex, open <- pending, spent <- CommittedMinutes
ImplementsTurnLog == History!Spec

\* Whichever way a request ends, and although an unlock that raises leaves the
\* lock with a connection nobody uses, the lock of the session is let go in the
\* end: by its handler, the pool or the server.
RuntimeLockIsFreed == RuntimeLockHeld ~> ~RuntimeLockHeld
=============================================================================

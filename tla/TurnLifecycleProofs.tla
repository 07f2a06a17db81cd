------------------------- MODULE TurnLifecycleProofs -------------------------
(***************************************************************************)
(* The turn ledger (turn_index, the turn rows, pending_turn and the clock) *)
(* is consistent after every step of every client, with any number of lost *)
(* lock connections; and while none is lost, a turn that is being planned  *)
(* is protected from everybody else.                                       *)
(***************************************************************************)
EXTENDS TurnLifecycle, TLAPS

-----------------------------------------------------------------------------
(***************************************************************************)
(* The calendar arithmetic, for every instant and step.                    *)
(***************************************************************************)
\* Minutes determine an instant: day and minute are quotient and remainder.
LEMMA InstantOfMinutes ==
    ASSUME NEW n \in Nat
    PROVE  /\ n \div MinutesPerDay \in Nat
           /\ n % MinutesPerDay \in 0..(MinutesPerDay - 1)
           /\ (n \div MinutesPerDay) * MinutesPerDay + (n % MinutesPerDay) = n
  BY DEF MinutesPerDay

\* A total below the first minute of day b + 1 falls on day b or earlier.
LEMMA DayOfMinutes ==
    ASSUME NEW n \in Nat, NEW b \in Nat, n < (b + 1) * MinutesPerDay
    PROVE  n \div MinutesPerDay <= b
  BY DEF MinutesPerDay

\* Where one step forward or back from day d, minute m can lead.
LEMMA StepRange ==
    ASSUME NEW d \in Nat, NEW m \in 0..(MinutesPerDay - 1), NEW s \in TimeScales
    PROVE  /\ d * MinutesPerDay + m \in Nat
           /\ d * MinutesPerDay + m + s < (d + 2) * MinutesPerDay
           /\ d * MinutesPerDay + m < (d + 1) * MinutesPerDay
  BY DEF MinutesPerDay, TimeScales, MaxTimeScale

\* An instant counts as a natural number of minutes.
LEMMA InstantParts ==
    ASSUME NEW t \in Instants
    PROVE  /\ t.day \in Nat /\ t.day <= DayCap
           /\ t.minute \in 0..(MinutesPerDay - 1)
           /\ Minutes(t) \in Nat
           /\ Minutes(t) < (t.day + 1) * MinutesPerDay
<1>1. t.day \in 0..DayCap /\ t.minute \in 0..(MinutesPerDay - 1)
  BY DEF Instants
<1>2. t.day \in Nat /\ t.day <= DayCap
  BY <1>1, DayCapAssumption
<1>3. 1 \in TimeScales
  BY DEF TimeScales, MaxTimeScale, MinutesPerDay
<1>4. QED
  BY <1>1, <1>2, <1>3, StepRange DEF Minutes

\* The instant a number of minutes up to the cap stands for.
LEMMA InstantFromMinutes ==
    ASSUME NEW n \in Nat, n < (DayCap + 1) * MinutesPerDay,
           NEW t, t = [day |-> n \div MinutesPerDay, minute |-> n % MinutesPerDay]
    PROVE  t \in Instants /\ Minutes(t) = n
<1>1. n \div MinutesPerDay \in Nat /\ n \div MinutesPerDay <= DayCap
  BY InstantOfMinutes, DayOfMinutes, DayCapAssumption
<1>2. n \div MinutesPerDay \in 0..DayCap
  BY <1>1, DayCapAssumption
<1>3. QED
  BY <1>2, InstantOfMinutes DEF Instants, Minutes

\* _normalize_time_payload on a clock below the day cap moves it forward by
\* exactly one step and leaves a well-formed clock.
THEOREM AdvanceIsExact ==
    ASSUME NEW t \in Instants, NEW s \in TimeScales, t.day < DayCap
    PROVE  /\ Advance(t, s) \in Instants
           /\ Minutes(Advance(t, s)) = Minutes(t) + s
<1> DEFINE n == Minutes(t) + s
<1>1. s \in Nat
  BY DEF TimeScales
<1>2. n \in Nat
  BY <1>1, InstantParts
<1>3. n < (t.day + 2) * MinutesPerDay
  BY InstantParts, StepRange DEF Minutes
<1>4. n < (DayCap + 1) * MinutesPerDay
  <2>1. \A a, b \in Nat: a < b => (a + 2) * MinutesPerDay <= (b + 1) * MinutesPerDay
    BY DEF MinutesPerDay
  <2>2. (t.day + 2) * MinutesPerDay <= (DayCap + 1) * MinutesPerDay
    BY <2>1, InstantParts, DayCapAssumption
  <2>3. \A a, b, c \in Int: a < b /\ b <= c => a < c
    OBVIOUS
  <2>4. /\ (t.day + 2) * MinutesPerDay \in Int
        /\ (DayCap + 1) * MinutesPerDay \in Int
    BY InstantParts, DayCapAssumption DEF MinutesPerDay
  <2>5. QED
    BY <1>2, <1>3, <2>2, <2>3, <2>4
<1>5. n \div MinutesPerDay \in Nat /\ n \div MinutesPerDay <= DayCap
  BY <1>2, <1>4, InstantOfMinutes, DayOfMinutes, DayCapAssumption
<1>6. Minutes(Sanitised(t)) + s = n
  BY InstantParts DEF Sanitised, Minutes, NonNegative
<1>7. ~(n \div MinutesPerDay > DayCap)
  BY <1>5, DayCapAssumption
<1>8. Advance(t, s) = [day |-> n \div MinutesPerDay, minute |-> n % MinutesPerDay]
  BY <1>6, <1>7 DEF Advance
<1>9. QED
  BY <1>2, <1>4, <1>8, InstantFromMinutes

\* The step back of _clear_pending_turn_locked leaves a well-formed clock; it
\* takes one step off, or stops at 0:00.
THEOREM RewindIsExact ==
    ASSUME NEW t \in Instants, NEW s \in TimeScales
    PROVE  /\ Rewind(t, s) \in Instants
           /\ Minutes(t) >= s => Minutes(Rewind(t, s)) = Minutes(t) - s
<1> DEFINE n == NonNegative(Minutes(t) - s)
<1>1. s \in Nat
  BY DEF TimeScales
<1>2. Minutes(t) \in Nat
  BY InstantParts
<1>3. n \in Nat /\ n <= Minutes(t) /\ (Minutes(t) >= s => n = Minutes(t) - s)
  BY <1>1, <1>2 DEF NonNegative
<1>4. n < (DayCap + 1) * MinutesPerDay
  <2>1. \A a, b \in Nat: a <= b => (a + 1) * MinutesPerDay <= (b + 1) * MinutesPerDay
    BY DEF MinutesPerDay
  <2>2. (t.day + 1) * MinutesPerDay <= (DayCap + 1) * MinutesPerDay
    BY <2>1, InstantParts, DayCapAssumption
  <2>3. \A a, b, c, d \in Int: a <= b /\ b < c /\ c <= d => a < d
    OBVIOUS
  <2>4. /\ (t.day + 1) * MinutesPerDay \in Int
        /\ (DayCap + 1) * MinutesPerDay \in Int
    BY InstantParts, DayCapAssumption DEF MinutesPerDay
  <2> HIDE DEF n
  <2>5. QED
    BY <1>2, <1>3, <2>2, <2>3, <2>4, InstantParts
<1>5. NonNegative(t.day) = t.day /\ NonNegative(t.minute) = t.minute
  BY InstantParts DEF NonNegative
<1>6. Rewind(t, s) = [day |-> n \div MinutesPerDay, minute |-> n % MinutesPerDay]
  BY <1>5 DEF Rewind, Minutes
<1>7. Rewind(t, s) \in Instants /\ Minutes(Rewind(t, s)) = n
  <2> HIDE DEF n
  <2> QED BY <1>3, <1>4, <1>6, InstantFromMinutes
<1>8. QED
  BY <1>3, <1>7

\* Recovery takes back exactly the step the allocation took.
THEOREM RewindUndoesAdvance ==
    ASSUME NEW t \in Instants, NEW s \in TimeScales, t.day < DayCap
    PROVE  Minutes(Rewind(Advance(t, s), s)) = Minutes(t)
<1>1. /\ Advance(t, s) \in Instants
      /\ Minutes(Advance(t, s)) = Minutes(t) + s
  BY AdvanceIsExact
<1>2. Minutes(t) \in Nat /\ s \in Nat
  BY InstantParts DEF TimeScales
<1>3. QED
  BY <1>1, <1>2, RewindIsExact
-----------------------------------------------------------------------------

USE ClientsAssumption, MaxTurnAssumption, ScaleAssumption,
    AdvanceModesAssumption, MaxLockLossesAssumption

Verdicts == {"none", "pending", "completed", "error"}

\* A pending turn that moved the clock left at least its own step on it.
ClockCoversPendingTurn ==
    pending # NoTurn /\ advanced => Minutes(clock) >= Scale

LedgerInv ==
    /\ TypeOK
    /\ IndexIsNewestRow
    /\ PendingTurnIsTheOpenRow
    /\ ClockCoversPendingTurn

\* While no connection was lost, whoever works on the session has the lock.
WorkersHoldTheLock ==
    losses = 0 => \A c \in Clients: pc[c] # "idle" => rt = c

PlannersOwnATurn ==
    \A c \in Clients: pc[c] = "planning" => mine[c] \in Turns

IInv ==
    /\ LedgerInv
    /\ WorkersHoldTheLock
    /\ PlannersOwnATurn
    /\ PlanningTurnIsProtected
-----------------------------------------------------------------------------
(* What recovery computes. *)

LEMMA NoTurnIsNotATurn == NoTurn \notin Turns /\ 0 \in Turns
  BY DEF NoTurn, Turns

\* The rows after a recovery: the same indices in use, none of them open.
LEMMA TombstonedRowsFacts ==
    ASSUME LedgerInv
    PROVE  /\ TombstonedRows \in [Turns -> Verdicts]
           /\ \A i \in Turns: TombstonedRows[i] = "none" <=> i > turnIndex
           /\ \A i \in Turns: TombstonedRows[i] # "pending"
           /\ \A i \in Turns:
                 rows[i] \in {"completed", "error"} => TombstonedRows[i] = rows[i]
<1>1. CASE pending = NoTurn
  BY <1>1, NoTurnIsNotATurn
     DEF LedgerInv, TypeOK, IndexIsNewestRow, PendingTurnIsTheOpenRow,
         TombstonedRows, Verdicts
<1>2. CASE pending # NoTurn
  <2>1. pending \in Turns /\ rows[pending] = "pending" /\ pending = turnIndex
    BY <1>2 DEF LedgerInv, TypeOK, PendingTurnIsTheOpenRow
  <2>2. TombstonedRows = [rows EXCEPT ![pending] = "error"]
    BY <1>2, <2>1 DEF TombstonedRows, LedgerInv, TypeOK
  <2>3. QED
    BY <2>1, <2>2
       DEF LedgerInv, TypeOK, IndexIsNewestRow, PendingTurnIsTheOpenRow, Verdicts
<1>3. QED
  BY <1>1, <1>2

\* The clock after a recovery is well formed.
LEMMA RecoveredClockFacts ==
    ASSUME LedgerInv
    PROVE  RecoveredClock \in Instants
  BY RewindIsExact DEF LedgerInv, TypeOK, RecoveredClock

\* A clock that was just advanced covers one step.
LEMMA AdvanceCovers ==
    ASSUME NEW t \in Instants, t.day < DayCap
    PROVE  /\ Advance(t, Scale) \in Instants
           /\ Minutes(Advance(t, Scale)) >= Scale
<1>1. Minutes(t) \in Nat /\ Scale \in Nat
  BY InstantParts DEF TimeScales
<1>2. QED
  BY <1>1, AdvanceIsExact
-----------------------------------------------------------------------------
(* The ledger is consistent initially and after each transaction. *)

LEMMA InitLedger == Init => LedgerInv
<1> SUFFICES ASSUME Init PROVE LedgerInv
  OBVIOUS
<1>1. [day |-> 0, minute |-> 0] \in Instants
  BY DayCapAssumption DEF Instants, MinutesPerDay
<1>2. TypeOK
  BY <1>1, NoTurnIsNotATurn DEF Init, TypeOK, Stages
<1>3. IndexIsNewestRow /\ PendingTurnIsTheOpenRow /\ ClockCoversPendingTurn
  BY DEF Init, IndexIsNewestRow, PendingTurnIsTheOpenRow,
         ClockCoversPendingTurn, Turns, NoTurn
<1>4. QED
  BY <1>2, <1>3 DEF LedgerInv

\* A step that leaves the ledger alone only has to keep its other types.
LEMMA LedgerUntouched ==
    ASSUME LedgerInv, TypeOK', UNCHANGED ledger
    PROVE  LedgerInv'
  BY DEF LedgerInv, ledger, IndexIsNewestRow, PendingTurnIsTheOpenRow,
         ClockCoversPendingTurn

\* A recovery keeps the ledger consistent.
LEMMA ClearPendingKeepsLedger ==
    ASSUME LedgerInv, ClearPending, UNCHANGED turnIndex,
           rt' \in Clients \cup {NoClient}, pc' \in [Clients -> Stages],
           mine' \in [Clients -> Turns \cup {NoTurn}],
           graphOps' \in BOOLEAN, losses' \in Nat, leaked' \in BOOLEAN
    PROVE  LedgerInv'
<1>1. TypeOK'
  BY TombstonedRowsFacts, RecoveredClockFacts
     DEF LedgerInv, TypeOK, ClearPending, Verdicts
<1>2. IndexIsNewestRow'
  BY TombstonedRowsFacts DEF IndexIsNewestRow, ClearPending
<1>3. PendingTurnIsTheOpenRow'
  BY TombstonedRowsFacts, NoTurnIsNotATurn
     DEF PendingTurnIsTheOpenRow, ClearPending
<1>4. ClockCoversPendingTurn'
  BY DEF ClockCoversPendingTurn, ClearPending
<1>5. QED
  BY <1>1, <1>2, <1>3, <1>4 DEF LedgerInv

\* A transaction that uses the next index, for an open or a closed turn.
LEMMA NextTurnKeepsLedger ==
    ASSUME LedgerInv,
           turnIndex < MaxTurn, turnIndex' = turnIndex + 1,
           NEW verdict \in {"pending", "completed"},
           rows' = [TombstonedRows EXCEPT ![turnIndex + 1] = verdict],
           pending' = IF verdict = "pending" THEN turnIndex + 1 ELSE NoTurn,
           clock' \in Instants,
           advanced' \in BOOLEAN,
           verdict = "pending" /\ advanced' => Minutes(clock') >= Scale,
           stale' \in BOOLEAN,
           rt' \in Clients \cup {NoClient}, pc' \in [Clients -> Stages],
           mine' \in [Clients -> Turns \cup {NoTurn}],
           graphOps' \in BOOLEAN, losses' \in Nat, leaked' \in BOOLEAN
    PROVE  LedgerInv'
<1>1. turnIndex \in Nat /\ turnIndex + 1 \in Turns
  BY DEF LedgerInv, TypeOK, Turns
<1>2. /\ \A i \in Turns: rows'[i] = IF i = turnIndex + 1 THEN verdict
                                    ELSE TombstonedRows[i]
      /\ rows' \in [Turns -> Verdicts]
  BY <1>1, TombstonedRowsFacts DEF Verdicts
<1>3. TypeOK'
  BY <1>1, <1>2 DEF TypeOK, Verdicts
<1>4. IndexIsNewestRow'
  <2> SUFFICES ASSUME NEW i \in Turns
               PROVE  rows'[i] = "none" <=> i > turnIndex + 1
    BY DEF IndexIsNewestRow
  <2>1. i \in Int /\ turnIndex \in Int
    BY <1>1 DEF Turns
  <2>2. QED
    BY <1>2, <2>1, TombstonedRowsFacts
<1>5. PendingTurnIsTheOpenRow'
  BY <1>1, <1>2, TombstonedRowsFacts, NoTurnIsNotATurn
     DEF PendingTurnIsTheOpenRow
<1>6. ClockCoversPendingTurn'
  BY DEF ClockCoversPendingTurn
<1>7. QED
  BY <1>3, <1>4, <1>5, <1>6 DEF LedgerInv
-----------------------------------------------------------------------------
(* Every action keeps the ledger consistent. *)

LEMMA AllocateTurnKeepsLedger ==
    ASSUME LedgerInv, NEW c \in Clients, NEW advance \in AdvanceModes,
           AllocateTurn(c, advance)
    PROVE  LedgerInv'
<1>1. turnIndex + 1 \in Turns
  BY DEF LedgerInv, TypeOK, AllocateTurn, Turns
<1>2. clock' \in Instants /\ (advance => Minutes(clock') >= Scale)
  BY RecoveredClockFacts, AdvanceCovers DEF AllocateTurn
<1>3. /\ pc' \in [Clients -> Stages]
      /\ mine' \in [Clients -> Turns \cup {NoTurn}]
      /\ rt' \in Clients \cup {NoClient}
      /\ graphOps' \in BOOLEAN /\ losses' \in Nat /\ leaked' \in BOOLEAN
  BY <1>1 DEF LedgerInv, TypeOK, AllocateTurn, Stages
<1>4. advanced' \in BOOLEAN /\ advanced' = advance /\ stale' \in BOOLEAN
  BY DEF AllocateTurn
<1>5. /\ turnIndex < MaxTurn /\ turnIndex' = turnIndex + 1
      /\ rows' = [TombstonedRows EXCEPT ![turnIndex + 1] = "pending"]
      /\ pending' = turnIndex + 1
  BY DEF AllocateTurn
<1>6. QED
  BY <1>2, <1>3, <1>4, <1>5, NextTurnKeepsLedger

LEMMA InternalTurnKeepsLedger ==
    ASSUME LedgerInv, InternalTurn,
           rt' \in Clients \cup {NoClient}, pc' \in [Clients -> Stages],
           mine' \in [Clients -> Turns \cup {NoTurn}],
           graphOps' \in BOOLEAN, losses' \in Nat, leaked' \in BOOLEAN
    PROVE  LedgerInv'
<1>1. clock' \in Instants /\ advanced' \in BOOLEAN /\ stale' \in BOOLEAN
  BY RecoveredClockFacts DEF InternalTurn
<1>2. /\ turnIndex < MaxTurn /\ turnIndex' = turnIndex + 1
      /\ rows' = [TombstonedRows EXCEPT ![turnIndex + 1] = "completed"]
      /\ pending' = NoTurn
  BY DEF InternalTurn
<1>3. QED
  BY <1>1, <1>2, NextTurnKeepsLedger

LEMMA MovePlayerKeepsLedger ==
    ASSUME LedgerInv, NEW c \in Clients, MovePlayer(c)
    PROVE  LedgerInv'
<1>1. clock' \in Instants /\ advanced' \in BOOLEAN /\ stale' \in BOOLEAN
  BY RecoveredClockFacts, AdvanceCovers DEF MovePlayer
<1>2. /\ pc' \in [Clients -> Stages]
      /\ mine' \in [Clients -> Turns \cup {NoTurn}]
      /\ rt' \in Clients \cup {NoClient}
      /\ graphOps' \in BOOLEAN /\ losses' \in Nat /\ leaked' \in BOOLEAN
  BY DEF LedgerInv, TypeOK, MovePlayer, Stages
<1>3. /\ turnIndex < MaxTurn /\ turnIndex' = turnIndex + 1
      /\ rows' = [TombstonedRows EXCEPT ![turnIndex + 1] = "completed"]
      /\ pending' = NoTurn
  BY DEF MovePlayer
<1>4. QED
  BY <1>1, <1>2, <1>3, NextTurnKeepsLedger

LEMMA FinalizeTurnKeepsLedger ==
    ASSUME LedgerInv, PlannersOwnATurn, NEW c \in Clients, FinalizeTurn(c)
    PROVE  LedgerInv'
<1>1. pending \in Turns /\ pending = turnIndex
  BY NoTurnIsNotATurn
     DEF LedgerInv, PlannersOwnATurn, PendingTurnIsTheOpenRow, FinalizeTurn
<1>2. TypeOK'
  BY <1>1 DEF LedgerInv, TypeOK, FinalizeTurn, Stages
<1>3. IndexIsNewestRow'
  BY <1>1 DEF LedgerInv, TypeOK, IndexIsNewestRow, FinalizeTurn, Turns
<1>4. PendingTurnIsTheOpenRow' /\ ClockCoversPendingTurn'
  BY <1>1, NoTurnIsNotATurn
     DEF LedgerInv, TypeOK, PendingTurnIsTheOpenRow, ClockCoversPendingTurn,
         FinalizeTurn
<1>5. QED
  BY <1>2, <1>3, <1>4 DEF LedgerInv

LEMMA FailTurnKeepsLedger ==
    ASSUME LedgerInv, NEW c \in Clients, FailTurn(c)
    PROVE  LedgerInv'
<1>1. /\ pc' \in [Clients -> Stages]
      /\ mine' \in [Clients -> Turns \cup {NoTurn}]
      /\ rt' \in Clients \cup {NoClient}
      /\ graphOps' \in BOOLEAN /\ losses' \in Nat /\ leaked' \in BOOLEAN
      /\ UNCHANGED turnIndex
  BY DEF LedgerInv, TypeOK, FailTurn, Stages
<1>2. CASE pending = mine[c]
  BY <1>1, <1>2, ClearPendingKeepsLedger DEF FailTurn
<1>3. CASE pending # mine[c]
  <2>1. UNCHANGED ledger
    BY <1>3 DEF FailTurn, ledger
  <2>2. TypeOK'
    BY <1>1, <2>1 DEF LedgerInv, TypeOK, ledger
  <2>3. QED
    BY <2>1, <2>2, LedgerUntouched
<1>4. QED
  BY <1>2, <1>3

LEMMA ApplyPendingGraphOpsKeepsLedger ==
    ASSUME LedgerInv, NEW c \in Clients, ApplyPendingGraphOps(c)
    PROVE  LedgerInv'
<1>1. /\ pc' \in [Clients -> Stages]
      /\ mine' \in [Clients -> Turns \cup {NoTurn}]
      /\ rt' \in Clients \cup {NoClient}
      /\ graphOps' \in BOOLEAN /\ losses' \in Nat /\ leaked' \in BOOLEAN
  BY DEF LedgerInv, TypeOK, ApplyPendingGraphOps, Stages
<1>2. CASE InternalTurn
  BY <1>1, <1>2, InternalTurnKeepsLedger
<1>3. CASE ClearPending /\ UNCHANGED turnIndex
  BY <1>1, <1>3, ClearPendingKeepsLedger
<1>4. QED
  BY <1>2, <1>3 DEF ApplyPendingGraphOps

LEMMA UnlockedStepsKeepLedger ==
    ASSUME LedgerInv,
           \/ \E c \in Clients: InternalMutation(c) \/ TouchSession(c)
           \/ \E force \in BOOLEAN: RecoverPendingTurn(force)
           \/ PendingTurnAges
    PROVE  LedgerInv'
<1>1. CASE \E c \in Clients: InternalMutation(c)
  BY <1>1, InternalTurnKeepsLedger DEF InternalMutation, LedgerInv, TypeOK
<1>2. CASE \E c \in Clients: TouchSession(c)
  BY <1>2, ClearPendingKeepsLedger DEF TouchSession, LedgerInv, TypeOK
<1>3. CASE \E force \in BOOLEAN: RecoverPendingTurn(force)
  BY <1>3, ClearPendingKeepsLedger DEF RecoverPendingTurn, LedgerInv, TypeOK
<1>4. CASE PendingTurnAges
  BY <1>4
     DEF PendingTurnAges, LedgerInv, TypeOK, IndexIsNewestRow,
         PendingTurnIsTheOpenRow, ClockCoversPendingTurn
<1>5. QED
  BY <1>1, <1>2, <1>3, <1>4

LEMMA LockStepsKeepLedger ==
    ASSUME LedgerInv, NEW c \in Clients,
           \/ AcquireRuntimeLock(c) \/ ReleaseRuntimeLock(c)
           \/ AbortRequest(c) \/ LoseLockConnection(c) \/ Crash(c)
    PROVE  LedgerInv'
<1>1. UNCHANGED ledger /\ UNCHANGED graphOps
  BY DEF AcquireRuntimeLock, ReleaseRuntimeLock, AbortRequest,
         LoseLockConnection, Crash
<1>2. /\ rt' \in Clients \cup {NoClient}
      /\ losses' \in Nat
  BY DEF AcquireRuntimeLock, ReleaseRuntimeLock, AbortRequest,
         LoseLockConnection, Crash, LedgerInv, TypeOK
<1>3. pc' \in [Clients -> Stages]
  BY DEF AcquireRuntimeLock, ReleaseRuntimeLock, AbortRequest,
         LoseLockConnection, Crash, LedgerInv, TypeOK, Stages
<1>4. mine' \in [Clients -> Turns \cup {NoTurn}]
  BY DEF AcquireRuntimeLock, ReleaseRuntimeLock, AbortRequest,
         LoseLockConnection, Crash, LedgerInv, TypeOK
<1>5. leaked' \in BOOLEAN
  <2>1. leaked \in BOOLEAN
    BY DEF LedgerInv, TypeOK
  <2>2. CASE ReleaseRuntimeLock(c)
    BY <2>2 DEF ReleaseRuntimeLock
  <2>3. CASE LoseLockConnection(c) \/ Crash(c)
    BY <2>3 DEF LoseLockConnection, Crash
  <2>4. CASE AcquireRuntimeLock(c) \/ AbortRequest(c)
    BY <2>1, <2>4 DEF AcquireRuntimeLock, AbortRequest
  <2>5. QED
    BY <2>2, <2>3, <2>4
<1>6. TypeOK'
  BY <1>1, <1>2, <1>3, <1>4, <1>5 DEF LedgerInv, TypeOK, ledger
<1>7. QED
  BY <1>1, <1>6, LedgerUntouched

LEMMA QuietStepsKeepLedger ==
    ASSUME LedgerInv, StorePendingGraphOps \/ RecycleConnection
    PROVE  LedgerInv'
<1>1. UNCHANGED ledger /\ TypeOK'
  BY DEF StorePendingGraphOps, RecycleConnection, LedgerInv, TypeOK, ledger
<1>2. QED
  BY <1>1, LedgerUntouched

LEMMA NextKeepsLedger ==
    ASSUME IInv, [Next]_vars
    PROVE  LedgerInv'
<1>1. LedgerInv /\ PlannersOwnATurn
  BY DEF IInv
<1>2. CASE UNCHANGED vars
  <2>1. UNCHANGED ledger /\ TypeOK'
    BY <1>1, <1>2 DEF vars, ledger, LedgerInv, TypeOK
  <2>2. QED
    BY <1>1, <2>1, LedgerUntouched
<1>3. CASE \E c \in Clients: Work(c)
  BY <1>1, <1>3, AllocateTurnKeepsLedger, FinalizeTurnKeepsLedger,
     FailTurnKeepsLedger, MovePlayerKeepsLedger,
     ApplyPendingGraphOpsKeepsLedger, LockStepsKeepLedger DEF Work
<1>4. CASE Next /\ ~(\E c \in Clients: Work(c))
  BY <1>1, <1>4, LockStepsKeepLedger, UnlockedStepsKeepLedger,
     QuietStepsKeepLedger DEF Next
<1>5. QED
  BY <1>2, <1>3, <1>4
-----------------------------------------------------------------------------
(* Who holds the lock, and whose turn is pending. *)

LEMMA NextKeepsOwnership ==
    ASSUME IInv, [Next]_vars
    PROVE  WorkersHoldTheLock' /\ PlannersOwnATurn'
<1> USE DEF IInv, LedgerInv, TypeOK, WorkersHoldTheLock, PlannersOwnATurn, Stages
<1>1. CASE UNCHANGED vars
  BY <1>1 DEF vars
<1>2. ASSUME NEW c \in Clients, AcquireRuntimeLock(c)
      PROVE  WorkersHoldTheLock' /\ PlannersOwnATurn'
  BY <1>2 DEF AcquireRuntimeLock
<1>3. ASSUME NEW c \in Clients, ReleaseRuntimeLock(c)
      PROVE  WorkersHoldTheLock' /\ PlannersOwnATurn'
  BY <1>3 DEF ReleaseRuntimeLock
<1>4. ASSUME NEW c \in Clients, AbortRequest(c)
      PROVE  WorkersHoldTheLock' /\ PlannersOwnATurn'
  BY <1>4 DEF AbortRequest
<1>5. ASSUME NEW c \in Clients, LoseLockConnection(c)
      PROVE  WorkersHoldTheLock' /\ PlannersOwnATurn'
  BY <1>5 DEF LoseLockConnection
<1>6. ASSUME NEW c \in Clients, Crash(c)
      PROVE  WorkersHoldTheLock' /\ PlannersOwnATurn'
  BY <1>6 DEF Crash
<1>7. ASSUME NEW c \in Clients, NEW a \in AdvanceModes, AllocateTurn(c, a)
      PROVE  WorkersHoldTheLock' /\ PlannersOwnATurn'
  <2>1. turnIndex + 1 \in Turns
    BY <1>7 DEF AllocateTurn, Turns
  <2>2. QED
    BY <1>7, <2>1 DEF AllocateTurn
<1>8. ASSUME NEW c \in Clients, FinalizeTurn(c) \/ FailTurn(c)
      PROVE  WorkersHoldTheLock' /\ PlannersOwnATurn'
  BY <1>8 DEF FinalizeTurn, FailTurn
<1>9. ASSUME NEW c \in Clients, MovePlayer(c) \/ ApplyPendingGraphOps(c)
      PROVE  WorkersHoldTheLock' /\ PlannersOwnATurn'
  BY <1>9 DEF MovePlayer, ApplyPendingGraphOps
<1>10. ASSUME NEW c \in Clients, InternalMutation(c) \/ TouchSession(c)
       PROVE  WorkersHoldTheLock' /\ PlannersOwnATurn'
  BY <1>10 DEF InternalMutation, TouchSession
<1>11. ASSUME NEW force \in BOOLEAN, RecoverPendingTurn(force)
       PROVE  WorkersHoldTheLock' /\ PlannersOwnATurn'
  BY <1>11 DEF RecoverPendingTurn
<1>12. CASE PendingTurnAges \/ StorePendingGraphOps \/ RecycleConnection
  BY <1>12 DEF PendingTurnAges, StorePendingGraphOps, RecycleConnection
<1>13. QED
  BY <1>1, <1>2, <1>3, <1>4, <1>5, <1>6, <1>7, <1>8, <1>9, <1>10, <1>11, <1>12
     DEF Next, Work

LEMMA NextKeepsProtection ==
    ASSUME IInv, [Next]_vars
    PROVE  PlanningTurnIsProtected'
<1> SUFFICES ASSUME losses' = 0, NEW d \in Clients, pc'[d] = "planning"
             PROVE  rt' = d /\ pending' = mine'[d]
  BY DEF PlanningTurnIsProtected
<1>1. losses \in Nat /\ pc \in [Clients -> Stages]
      /\ mine \in [Clients -> Turns \cup {NoTurn}]
  BY DEF IInv, LedgerInv, TypeOK
<1>2. losses = 0
  BY <1>1 DEF Next, Work, vars, AcquireRuntimeLock, ReleaseRuntimeLock,
     AbortRequest, LoseLockConnection, Crash, AllocateTurn, FinalizeTurn,
     FailTurn, MovePlayer, ApplyPendingGraphOps, InternalMutation,
     TouchSession, RecoverPendingTurn, PendingTurnAges, StorePendingGraphOps,
     RecycleConnection
<1>3. \A c \in Clients: pc[c] # "idle" => rt = c
  BY <1>2 DEF IInv, WorkersHoldTheLock
<1>4. \A c \in Clients: pc[c] = "planning" => rt = c /\ pending = mine[c]
                                              /\ mine[c] \in Turns
  BY <1>2 DEF IInv, PlanningTurnIsProtected, PlannersOwnATurn
<1>5. CASE UNCHANGED vars
  BY <1>4, <1>5 DEF vars
<1>6. ASSUME NEW c \in Clients, NEW a \in AdvanceModes, AllocateTurn(c, a)
      PROVE  rt' = d /\ pending' = mine'[d]
  <2>1. d = c
    BY <1>1, <1>3, <1>6 DEF AllocateTurn
  <2>2. QED
    BY <1>1, <1>3, <1>6, <2>1 DEF AllocateTurn
<1>7. ASSUME NEW c \in Clients,
             \/ AcquireRuntimeLock(c) \/ ReleaseRuntimeLock(c)
             \/ AbortRequest(c) \/ LoseLockConnection(c) \/ Crash(c)
      PROVE  rt' = d /\ pending' = mine'[d]
  BY <1>1, <1>2, <1>3, <1>4, <1>7, ClientsAssumption
     DEF AcquireRuntimeLock, ReleaseRuntimeLock, AbortRequest,
         LoseLockConnection, Crash, ledger
<1>8. ASSUME NEW c \in Clients,
             \/ FinalizeTurn(c) \/ FailTurn(c)
             \/ MovePlayer(c) \/ ApplyPendingGraphOps(c)
      PROVE  rt' = d /\ pending' = mine'[d]
  \* c works, so c has the lock; d plans in the new state, so d is not c and
  \* has it too.
  <2>1. pc[c] # "idle" /\ rt = c
    BY <1>3, <1>8 DEF FinalizeTurn, FailTurn, MovePlayer, ApplyPendingGraphOps
  <2>2. pc'[c] = "done"
    BY <1>1, <1>8 DEF FinalizeTurn, FailTurn, MovePlayer, ApplyPendingGraphOps
  <2>3. pc[d] = "planning" /\ d # c
    BY <1>1, <1>8, <2>2 DEF FinalizeTurn, FailTurn, MovePlayer,
                            ApplyPendingGraphOps
  <2>4. QED
    BY <1>4, <2>1, <2>3
<1>9. ASSUME NEW c \in Clients, InternalMutation(c) \/ TouchSession(c)
      PROVE  rt' = d /\ pending' = mine'[d]
  \* d plans, so somebody else holds the lock: c gets a 409.
  <2>1. pc[d] = "planning" /\ pc[c] = "idle"
    BY <1>9 DEF InternalMutation, TouchSession
  <2>2. rt = d /\ pending # NoTurn /\ rt # NoClient
    BY <1>4, <2>1, ClientsAssumption, NoTurnIsNotATurn
  <2>3. ~MayProceed(c)
    BY <2>1, <2>2 DEF MayProceed, HoldsInContext, RuntimeLockHeld
  <2>4. QED
    BY <1>9, <2>3 DEF InternalMutation, TouchSession
<1>10. ASSUME NEW force \in BOOLEAN, RecoverPendingTurn(force)
       PROVE  rt' = d /\ pending' = mine'[d]
  BY <1>4, <1>10, ClientsAssumption DEF RecoverPendingTurn, RuntimeLockHeld
<1>11. CASE PendingTurnAges \/ StorePendingGraphOps \/ RecycleConnection
  BY <1>4, <1>11 DEF PendingTurnAges, StorePendingGraphOps, RecycleConnection, ledger
<1>12. QED
  BY <1>5, <1>6, <1>7, <1>8, <1>9, <1>10, <1>11 DEF Next, Work
-----------------------------------------------------------------------------
(* The theorems. *)

\* The inductive invariant holds in every reachable state.
THEOREM IInvIsInvariant == Spec => []IInv
<1>1. Init => IInv
  <2> SUFFICES ASSUME Init PROVE IInv
    OBVIOUS
  <2>1. WorkersHoldTheLock /\ PlannersOwnATurn /\ PlanningTurnIsProtected
    BY DEF Init, WorkersHoldTheLock, PlannersOwnATurn, PlanningTurnIsProtected
  <2>2. QED
    BY <2>1, InitLedger DEF IInv
<1>2. IInv /\ [Next]_vars => IInv'
  BY NextKeepsLedger, NextKeepsOwnership, NextKeepsProtection DEF IInv
<1>3. QED
  BY <1>1, <1>2, PTL DEF Spec

\* Every variable keeps its type, for any number of clients and turns.
THEOREM TypeCorrect == Spec => []TypeOK
  BY IInvIsInvariant, PTL DEF IInv, LedgerInv

\* turn_index always is the newest turn row and no index is ever skipped or
\* reused, whatever crashes or loses its lock (migration 0012).
THEOREM IndexCorrect == Spec => []IndexIsNewestRow
  BY IInvIsInvariant, PTL DEF IInv, LedgerInv

\* pending_turn always names the one open turn row, and it is the newest
\* (migration 0009).
THEOREM PendingCorrect == Spec => []PendingTurnIsTheOpenRow
  BY IInvIsInvariant, PTL DEF IInv, LedgerInv

\* Both: the session row never contradicts the turn rows.
THEOREM RowsCorrect == Spec => []SessionMatchesItsRows
  BY IndexCorrect, PendingCorrect, PTL DEF SessionMatchesItsRows

\* The advisory locks protect a turn that is being planned from every other
\* request, as long as the lock connection lives.
THEOREM ProtectionCorrect == Spec => []PlanningTurnIsProtected
  BY IInvIsInvariant, PTL DEF IInv
-----------------------------------------------------------------------------
(* Closed turns stay closed. *)

LEMMA NextKeepsVerdicts ==
    ASSUME IInv, [Next]_vars, NEW i \in Turns, rows[i] \in {"completed", "error"}
    PROVE  rows'[i] = rows[i]
<1>1. /\ TombstonedRows \in [Turns -> Verdicts]
      /\ TombstonedRows[i] = rows[i]
      /\ i # turnIndex + 1
      /\ rows \in [Turns -> Verdicts]
  <2>1. LedgerInv
    BY DEF IInv
  <2>2. rows \in [Turns -> Verdicts] /\ turnIndex \in Int
    BY <2>1 DEF LedgerInv, TypeOK, Verdicts, Turns
  <2>3. i \in Int /\ ~(i > turnIndex)
    BY <2>1 DEF LedgerInv, IndexIsNewestRow, Turns
  <2>4. i # turnIndex + 1
    BY <2>2, <2>3
  <2>5. QED
    BY <2>1, <2>2, <2>4, TombstonedRowsFacts
<1>2. CASE UNCHANGED rows
  BY <1>2
<1>3. CASE rows' = TombstonedRows
  BY <1>1, <1>3
<1>4. ASSUME NEW v \in Verdicts, rows' = [TombstonedRows EXCEPT ![turnIndex + 1] = v]
      PROVE  rows'[i] = rows[i]
  BY <1>1, <1>4
<1>5. ASSUME NEW c \in Clients, FinalizeTurn(c)
      PROVE  rows'[i] = rows[i]
  <2>1. pending \in Turns /\ rows[pending] = "pending"
    BY <1>5 DEF FinalizeTurn, IInv, LedgerInv, PendingTurnIsTheOpenRow,
                PlannersOwnATurn
  <2>2. QED
    BY <1>1, <1>5, <2>1 DEF FinalizeTurn
<1>6. \/ UNCHANGED rows
      \/ rows' = TombstonedRows
      \/ \E v \in Verdicts: rows' = [TombstonedRows EXCEPT ![turnIndex + 1] = v]
      \/ \E c \in Clients: FinalizeTurn(c)
  BY DEF Next, Work, vars, ledger, AcquireRuntimeLock, ReleaseRuntimeLock,
     AbortRequest, LoseLockConnection, Crash, AllocateTurn, FailTurn,
     MovePlayer, ApplyPendingGraphOps, InternalMutation, InternalTurn,
     TouchSession, RecoverPendingTurn, ClearPending, PendingTurnAges,
     StorePendingGraphOps, RecycleConnection, Verdicts
<1>7. QED
  BY <1>2, <1>3, <1>4, <1>5, <1>6

\* No step of any client rewrites the verdict of a closed turn.
THEOREM VerdictsCorrect == Spec => VerdictsAreFinal
<1>1. IInv /\ [Next]_vars =>
        [\A i \in Turns:
           rows[i] \in {"completed", "error"} => rows'[i] = rows[i]]_vars
  BY NextKeepsVerdicts
<1>2. QED
  BY <1>1, IInvIsInvariant, PTL DEF Spec, VerdictsAreFinal
-----------------------------------------------------------------------------
(* The lifecycle implements the turn history, if every turn takes time. *)

\* With advance_time always set, the pending turn has moved the clock.
PendingTurnTookTime == pending # NoTurn => advanced

LEMMA TookTimeInv ==
    ASSUME AdvanceModes \subseteq {TRUE}
    PROVE  Spec => []PendingTurnTookTime
<1>1. Init => PendingTurnTookTime
  BY DEF Init, PendingTurnTookTime
<1>2. PendingTurnTookTime /\ [Next]_vars => PendingTurnTookTime'
  BY DEF PendingTurnTookTime, Next, Work, vars, ledger, AcquireRuntimeLock,
     ReleaseRuntimeLock, AbortRequest, LoseLockConnection, Crash,
     AllocateTurn, FinalizeTurn, FailTurn, MovePlayer, ApplyPendingGraphOps,
     InternalMutation, InternalTurn, TouchSession, RecoverPendingTurn,
     ClearPending, PendingTurnAges, StorePendingGraphOps,
     RecycleConnection
<1>3. QED
  BY <1>1, <1>2, PTL DEF Spec

\* Recovery puts the clock back to the committed time and writes the open
\* turn off.
LEMMA RecoveryIsWriteOff ==
    ASSUME LedgerInv, PendingTurnTookTime
    PROVE  /\ Minutes(RecoveredClock) = CommittedMinutes
           /\ CommittedMinutes \in Int
           /\ TombstonedRows = History!WrittenOff
<1>1. clock \in Instants /\ Scale \in Int /\ Minutes(clock) \in Int
  BY InstantParts DEF LedgerInv, TypeOK, TimeScales
<1>2. CASE pending = NoTurn
  BY <1>1, <1>2 DEF RecoveredClock, CommittedMinutes, TombstonedRows,
                    History!WrittenOff, History!NoTurn, NoTurn
<1>3. CASE pending # NoTurn
  <2>1. advanced /\ Minutes(clock) >= Scale
    BY <1>3 DEF PendingTurnTookTime, LedgerInv, ClockCoversPendingTurn
  <2>2. Minutes(RecoveredClock) = CommittedMinutes /\ CommittedMinutes \in Int
    BY <1>1, <1>3, <2>1, RewindIsExact DEF RecoveredClock, CommittedMinutes
  <2>3. rows[pending] = "pending"
    BY <1>3 DEF LedgerInv, TypeOK, PendingTurnIsTheOpenRow
  <2>4. TombstonedRows = [rows EXCEPT ![pending] = "error"]
    BY <1>3, <2>3 DEF TombstonedRows
  <2>5. QED
    BY <1>3, <2>2, <2>4 DEF History!WrittenOff, History!NoTurn, NoTurn
<1>4. QED
  BY <1>2, <1>3

\* A transaction that takes the next index is a step of the history.
LEMMA NextTurnIsAHistoryStep ==
    ASSUME LedgerInv, PendingTurnTookTime,
           turnIndex < MaxTurn, turnIndex' = turnIndex + 1,
           NEW verdict \in {"pending", "completed"},
           rows' = [TombstonedRows EXCEPT ![turnIndex + 1] = verdict],
           pending' = IF verdict = "pending" THEN turnIndex + 1 ELSE NoTurn,
           \/ /\ verdict = "pending" /\ advanced'
              /\ Minutes(clock') = Minutes(RecoveredClock) + Scale
           \/ /\ verdict = "completed"
              /\ \/ Minutes(clock') = Minutes(RecoveredClock) + Scale
                 \/ Minutes(clock') = Minutes(RecoveredClock)
    PROVE  History!Next
<1>1. /\ Minutes(RecoveredClock) = CommittedMinutes
      /\ CommittedMinutes \in Int /\ Scale \in Int
      /\ TombstonedRows = History!WrittenOff
      /\ turnIndex + 1 # NoTurn
  BY RecoveryIsWriteOff DEF LedgerInv, TypeOK, TimeScales, Turns, NoTurn
<1>2. CASE verdict = "pending"
  <2>1. CommittedMinutes' = CommittedMinutes
    BY <1>1, <1>2 DEF CommittedMinutes
  <2>2. History!OpenTurn
    BY <1>1, <1>2, <2>1 DEF History!OpenTurn
  <2>3. QED
    BY <2>2 DEF History!Next
<1>3. CASE verdict = "completed"
  <2>1. CommittedMinutes' \in {CommittedMinutes + 0, CommittedMinutes + Scale}
    BY <1>1, <1>3 DEF CommittedMinutes
  <2>2. History!InstantTurn
    BY <1>1, <1>3, <2>1 DEF History!InstantTurn, History!NoTurn, NoTurn
  <2>3. QED
    BY <2>2 DEF History!Next
<1>4. QED
  BY <1>2, <1>3

\* A recovery is a write-off, or nothing when no turn is open.
LEMMA ClearPendingIsAHistoryStep ==
    ASSUME LedgerInv, PendingTurnTookTime, ClearPending, UNCHANGED turnIndex
    PROVE  History!Next \/ UNCHANGED History!vars
<1>1. CommittedMinutes' = CommittedMinutes
  BY RecoveryIsWriteOff DEF ClearPending, CommittedMinutes
<1>2. CASE pending = NoTurn
  BY <1>1, <1>2 DEF ClearPending, TombstonedRows, History!vars
<1>3. CASE pending # NoTurn
  <2>1. History!WriteOff
    BY <1>1, <1>3, RecoveryIsWriteOff
       DEF ClearPending, History!WriteOff, History!NoTurn, NoTurn
  <2>2. QED
    BY <2>1 DEF History!Next
<1>4. QED
  BY <1>2, <1>3

LEMMA NextIsAHistoryStep ==
    ASSUME IInv, PendingTurnTookTime, [Next]_vars, AdvanceModes \subseteq {TRUE}
    PROVE  History!Next \/ UNCHANGED History!vars
<1>1. LedgerInv
  BY DEF IInv
<1>2. CASE UNCHANGED ledger
  BY <1>2 DEF ledger, History!vars, CommittedMinutes
<1>3. RecoveredClock \in Instants
  BY <1>1, RecoveredClockFacts
<1>4. ASSUME NEW c \in Clients, NEW a \in AdvanceModes, AllocateTurn(c, a)
      PROVE  History!Next
  <2>1. /\ turnIndex < MaxTurn /\ turnIndex' = turnIndex + 1
        /\ rows' = [TombstonedRows EXCEPT ![turnIndex + 1] = "pending"]
        /\ pending' = turnIndex + 1 /\ advanced'
        /\ clock' = Advance(RecoveredClock, Scale)
        /\ RecoveredClock.day < DayCap
    BY <1>4 DEF AllocateTurn
  <2>2. Minutes(clock') = Minutes(RecoveredClock) + Scale
    BY <1>3, <2>1, AdvanceIsExact
  <2>3. QED
    BY <1>1, <2>1, <2>2, NextTurnIsAHistoryStep
<1>5. ASSUME NEW c \in Clients, MovePlayer(c)
      PROVE  History!Next
  <2>1. /\ turnIndex < MaxTurn /\ turnIndex' = turnIndex + 1
        /\ rows' = [TombstonedRows EXCEPT ![turnIndex + 1] = "completed"]
        /\ pending' = NoTurn
        /\ clock' = Advance(RecoveredClock, Scale)
        /\ RecoveredClock.day < DayCap
    BY <1>5 DEF MovePlayer
  <2>2. Minutes(clock') = Minutes(RecoveredClock) + Scale
    BY <1>3, <2>1, AdvanceIsExact
  <2>3. QED
    BY <1>1, <2>1, <2>2, NextTurnIsAHistoryStep
<1>6. ASSUME InternalTurn
      PROVE  History!Next
  <2>1. /\ turnIndex < MaxTurn /\ turnIndex' = turnIndex + 1
        /\ rows' = [TombstonedRows EXCEPT ![turnIndex + 1] = "completed"]
        /\ pending' = NoTurn
        /\ Minutes(clock') = Minutes(RecoveredClock)
    BY <1>6 DEF InternalTurn
  <2>2. QED
    BY <1>1, <2>1, NextTurnIsAHistoryStep
<1>7. ASSUME NEW c \in Clients, FinalizeTurn(c)
      PROVE  History!Next
  <2>1. pending \in Turns /\ pending # NoTurn /\ advanced
    BY <1>7, NoTurnIsNotATurn
       DEF FinalizeTurn, IInv, PlannersOwnATurn, PendingTurnTookTime
  <2>2. Minutes(clock) \in Int /\ Scale \in Int
    BY <1>1, InstantParts DEF LedgerInv, TypeOK, TimeScales
  <2>3. CommittedMinutes' = CommittedMinutes + Scale
    BY <1>7, <2>1, <2>2 DEF FinalizeTurn, CommittedMinutes
  <2>4. History!Complete
    BY <1>7, <2>1, <2>3
       DEF FinalizeTurn, History!Complete, History!NoTurn, NoTurn
  <2>5. QED
    BY <2>4 DEF History!Next
<1>8. ASSUME NEW c \in Clients, FailTurn(c)
      PROVE  History!Next \/ UNCHANGED History!vars
  <2>1. CASE pending = mine[c]
    BY <1>1, <1>8, <2>1, ClearPendingIsAHistoryStep DEF FailTurn
  <2>2. CASE pending # mine[c]
    BY <1>2, <1>8, <2>2 DEF FailTurn, ledger
  <2>3. QED
    BY <2>1, <2>2
<1>9. CASE PendingTurnAges
  BY <1>9 DEF PendingTurnAges, History!vars, CommittedMinutes
<1>10. \/ UNCHANGED ledger
       \/ \E c \in Clients: \E a \in AdvanceModes: AllocateTurn(c, a)
       \/ \E c \in Clients: MovePlayer(c) \/ FinalizeTurn(c) \/ FailTurn(c)
       \/ InternalTurn
       \/ ClearPending /\ UNCHANGED turnIndex
       \/ PendingTurnAges
  BY DEF Next, Work, vars, ledger, AcquireRuntimeLock, ReleaseRuntimeLock,
     AbortRequest, LoseLockConnection, Crash, ApplyPendingGraphOps,
     InternalMutation, TouchSession, RecoverPendingTurn, StorePendingGraphOps,
     RecycleConnection
<1>11. QED
  BY <1>1, <1>2, <1>4, <1>5, <1>6, <1>7, <1>8, <1>9, <1>10,
     ClearPendingIsAHistoryStep

\* If every allocated turn takes game time, the session keeps the history it
\* promises: indices, verdicts and the time that was spent.
THEOREM HistoryCorrect ==
    ASSUME AdvanceModes \subseteq {TRUE}
    PROVE  Spec => ImplementsTurnLog
<1>1. Init => History!Init
  <2> SUFFICES ASSUME Init PROVE History!Init
    OBVIOUS
  <2>1. CommittedMinutes = 0
    BY DEF Init, CommittedMinutes, Minutes, MinutesPerDay
  <2>2. QED
    BY <2>1 DEF Init, History!Init, History!NoTurn, NoTurn, Turns
<1>2. IInv /\ PendingTurnTookTime /\ [Next]_vars => [History!Next]_(History!vars)
  BY NextIsAHistoryStep
<1>3. QED
  BY <1>1, <1>2, IInvIsInvariant, TookTimeInv, PTL
     DEF Spec, ImplementsTurnLog, History!Spec

\* ... and no recovery gives back game time that completed turns have spent.
THEOREM CommittedTimeCorrect ==
    ASSUME AdvanceModes \subseteq {TRUE}
    PROVE  Spec => CommittedTimeIsKept
<1>1. ASSUME IInv, PendingTurnTookTime, [Next]_vars
      PROVE  CommittedMinutes' >= CommittedMinutes
  <2>1. CommittedMinutes \in Int /\ Scale \in Nat
    BY <1>1, RecoveryIsWriteOff DEF IInv, TimeScales
  <2>2. History!Next \/ UNCHANGED History!vars
    BY <1>1, NextIsAHistoryStep
  <2>3. CommittedMinutes' \in {CommittedMinutes, CommittedMinutes + 0,
                               CommittedMinutes + Scale}
    BY <2>2 DEF History!Next, History!vars, History!OpenTurn,
                History!Complete, History!WriteOff, History!InstantTurn
  <2>4. QED
    BY <2>1, <2>3
<1>2. IInv /\ PendingTurnTookTime /\ [Next]_vars
        => [CommittedMinutes' >= CommittedMinutes]_vars
  BY <1>1
<1>3. QED
  BY <1>2, IInvIsInvariant, TookTimeInv, PTL DEF Spec, CommittedTimeIsKept
=============================================================================

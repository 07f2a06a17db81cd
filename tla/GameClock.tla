------------------------------ MODULE GameClock ------------------------------
(***************************************************************************)
(* The in-game calendar of a session (crud_shared.py).  A clock is the     *)
(* "time" object of state_json: a day and a minute of that day.  Every     *)
(* turn that consumes time moves it one time_scale step forward, and the   *)
(* recovery of a pending turn moves it one step back.  The operators take  *)
(* any stored payload, the odd ones a client could have written included,  *)
(* and Instants are the payloads the backend itself produces.              *)
(***************************************************************************)
EXTENDS Integers

CONSTANT DayCap   \* the last day the counter can show, 999_999 in the code

ASSUME DayCapAssumption == DayCap \in Nat

MinutesPerDay == 1440
DefaultTimeScale == 10
MaxTimeScale == MinutesPerDay

TimeScales == 1..MaxTimeScale
Instants == [day: 0..DayCap, minute: 0..(MinutesPerDay - 1)]

\* raw is what _safe_int reads; a value it cannot read takes the branch of 0.
CoerceTimeScale(raw) ==
    IF raw <= 0 THEN DefaultTimeScale
    ELSE IF raw > MaxTimeScale THEN MaxTimeScale
    ELSE raw

NonNegative(n) == IF n < 0 THEN 0 ELSE n

Minutes(t) == t.day * MinutesPerDay + t.minute

\* What _normalize_time_payload reads before it adds the step.
Sanitised(t) ==
    [day    |-> NonNegative(t.day),
     minute |-> IF t.minute \in 0..(MinutesPerDay - 1) THEN t.minute ELSE 0]

\* Mutant: the minutes that overflow a day are not carried.
AdvanceWithoutCarry(t, scale) ==
    [Sanitised(t) EXCEPT !.minute = @ + scale]

\* One step forward; the day counter saturates, the minute does not.
Advance(t, scale) ==
    LET total == Minutes(Sanitised(t)) + scale
        day   == total \div MinutesPerDay
    IN  [day    |-> IF day > DayCap THEN DayCap ELSE day,
         minute |-> total % MinutesPerDay]

\* One step back, as _clear_pending_turn_locked takes it; never below 0:00.
Rewind(t, scale) ==
    LET now   == NonNegative(t.day) * MinutesPerDay + NonNegative(t.minute)
        total == NonNegative(now - scale)
    IN  [day |-> total \div MinutesPerDay, minute |-> total % MinutesPerDay]
=============================================================================

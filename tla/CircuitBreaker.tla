---------------------------- MODULE CircuitBreaker ----------------------------
(***************************************************************************)
(* The circuit breaker of one LLM provider (resilience.py), shared by all  *)
(* request threads and workers.  Its methods each run under one lock and   *)
(* are one step here; a provider call happens between two of them, so a    *)
(* verdict can arrive long after the breaker has moved on.                 *)
(*                                                                         *)
(* Instants of the monotonic clock are kept as ages, in ticks, that stop   *)
(* at ResetTimeout: the code only ever compares an age with reset_timeout. *)
(* The failure count stops at FailMax for the same reason.                 *)
(***************************************************************************)
EXTENDS Integers

CONSTANTS Threads, FailMax, ResetTimeout

ASSUME FailMaxAssumption == FailMax \in Nat \ {0}
ASSUME ResetTimeoutAssumption == ResetTimeout \in Nat \ {0}

VARIABLES state,        \* _state
          failures,     \* _failure_count
          openAge,      \* time since _opened_at
          probeInFlight,\* _probe_in_flight
          probeAge,     \* time since _probe_started_at
          call,         \* what each thread has in flight
          age,          \* how long it has been in flight
          failAge       \* history: time since the last failure

breaker == <<state, failures, openAge, probeInFlight, probeAge>>
vars == <<breaker, call, age, failAge>>

Ages == 0..ResetTimeout
Older(a) == IF a < ResetTimeout THEN a + 1 ELSE a

TypeOK ==
    /\ state \in {"closed", "open", "half_open"}
    /\ failures \in 0..FailMax
    /\ openAge \in Ages
    /\ probeInFlight \in BOOLEAN
    /\ probeAge \in Ages
    /\ call \in [Threads -> {"none", "regular", "probe"}]
    /\ age \in [Threads -> Ages]
    /\ failAge \in Ages

Init ==
    /\ state = "closed"
    /\ failures = 0
    /\ openAge = 0
    /\ probeInFlight = FALSE
    /\ probeAge = 0
    /\ call = [t \in Threads |-> "none"]
    /\ age = [t \in Threads |-> 0]
    /\ failAge = ResetTimeout
-----------------------------------------------------------------------------
Tick ==
    /\ openAge' = Older(openAge)
    /\ probeAge' = Older(probeAge)
    /\ failAge' = Older(failAge)
    /\ age' = [t \in Threads |-> IF call[t] = "none" THEN age[t]
                                 ELSE Older(age[t])]
    /\ UNCHANGED <<state, failures, probeInFlight, call>>

\* Mutants: a probe is let through whoever else is probing; a probe that
\* never reported back is waited for.
ProbeUncounted == state = "half_open"
ProbeAwaited == state = "half_open" /\ ~probeInFlight

\* _acquire_half_open_probe: one probe at a time, unless it has stalled.
ProbeAllowed ==
    /\ state = "half_open"
    /\ probeInFlight => probeAge = ResetTimeout

CooledDown == state = "open" /\ openAge = ResetTimeout

\* Mutant: the state is spelt in a way no other method knows.
ProbeMisspelt(t) ==
    /\ CooledDown \/ ProbeAllowed
    /\ state' = "half-open"
    /\ probeInFlight' = TRUE
    /\ probeAge' = 0
    /\ call' = [call EXCEPT ![t] = "probe"]
    /\ UNCHANGED <<failures, openAge>>

AcquireHalfOpenProbe(t) ==
    /\ CooledDown \/ ProbeAllowed
    /\ state' = "half_open"
    /\ probeInFlight' = TRUE
    /\ probeAge' = 0
    /\ call' = [call EXCEPT ![t] = "probe"]
    /\ UNCHANGED <<failures, openAge>>

\* ensure_available lets the call through (otherwise CircuitOpenError).
EnsureAvailable(t) ==
    /\ call[t] = "none"
    /\ \/ /\ state = "closed"
          /\ call' = [call EXCEPT ![t] = "regular"]
          /\ UNCHANGED breaker
       \/ AcquireHalfOpenProbe(t)
    /\ age' = [age EXCEPT ![t] = 0]
    /\ UNCHANGED failAge

\* Any success closes the breaker, also a late one.
MarkSuccess(t) ==
    /\ call[t] # "none"
    /\ state' = "closed"
    /\ failures' = 0
    /\ openAge' = 0
    /\ probeInFlight' = FALSE
    /\ probeAge' = 0
    /\ call' = [call EXCEPT ![t] = "none"]
    /\ age' = [age EXCEPT ![t] = 0]
    /\ UNCHANGED failAge

\* Mutant: a late failure does not restart the cool-down of an open breaker.
MarkFailureOnce(t) ==
    LET count == IF failures < FailMax THEN failures + 1 ELSE failures
        trips == state = "half_open" \/ (state = "closed" /\ count = FailMax)
    IN  /\ call[t] # "none"
        /\ failures' = count
        /\ IF trips
           THEN /\ state' = "open"
                /\ openAge' = 0
                /\ probeInFlight' = FALSE
                /\ probeAge' = 0
           ELSE UNCHANGED <<state, openAge, probeInFlight, probeAge>>
        /\ failAge' = 0
        /\ call' = [call EXCEPT ![t] = "none"]
        /\ age' = [age EXCEPT ![t] = 0]

MarkFailure(t) ==
    LET count == IF failures < FailMax THEN failures + 1 ELSE failures
    IN  /\ call[t] # "none"
        /\ failures' = count
        /\ IF state = "half_open" \/ count = FailMax
           THEN /\ state' = "open"
                /\ openAge' = 0
                /\ probeInFlight' = FALSE
                /\ probeAge' = 0
           ELSE UNCHANGED <<state, openAge, probeInFlight, probeAge>>
        /\ failAge' = 0
        /\ call' = [call EXCEPT ![t] = "none"]
        /\ age' = [age EXCEPT ![t] = 0]

\* The thread ends without a verdict: call() lets what is not an Exception
\* through, and users of ensure_provider_available record verdicts themselves.
Abandon(t) ==
    /\ call[t] # "none"
    /\ call' = [call EXCEPT ![t] = "none"]
    /\ age' = [age EXCEPT ![t] = 0]
    /\ UNCHANGED <<breaker, failAge>>

Next ==
    \/ Tick
    \/ \E t \in Threads: \/ EnsureAvailable(t)
                         \/ MarkSuccess(t)
                         \/ MarkFailure(t)
                         \/ Abandon(t)

Spec == Init /\ [][Next]_vars

\* Time passes, calls end (they carry timeouts), and somebody keeps asking.
Fairness ==
    /\ WF_vars(Tick)
    /\ \A t \in Threads:
          /\ WF_vars(EnsureAvailable(t))
          /\ WF_vars(MarkSuccess(t) \/ MarkFailure(t) \/ Abandon(t))

FairSpec == Spec /\ Fairness
-----------------------------------------------------------------------------
(***************************************************************************)
(* Properties.                                                             *)
(***************************************************************************)

\* The state and the failure count agree whatever late verdicts arrive: a
\* breaker that lets everything through is below its threshold, and one that
\* has tripped stays at it until some call succeeds.
TrippedAtThreshold == state = "closed" <=> failures < FailMax

\* While the provider is down at most one thread tries it in any stretch of
\* reset_timeout: of two probes in flight, one has stalled.
OneFreshProbe ==
    \A t, u \in Threads:
        /\ t # u
        /\ call[t] = "probe"
        /\ call[u] = "probe"
        => ResetTimeout \in {age[t], age[u]}

\* Once the breaker has tripped no call goes out until reset_timeout after
\* the last failure anybody reported, the late ones included.
BackoffAfterFailure ==
    [][\A t \in Threads:
          call[t] = "none" /\ call'[t] # "none" /\ state # "closed"
              => failAge = ResetTimeout]_vars

\* A breaker never refuses for ever: if from some point on every call that is
\* let through succeeds, it closes for good, even when earlier probes died
\* without a verdict.
HealthyProviderIsServed ==
    <>[][\A t \in Threads: ~MarkFailure(t) /\ ~Abandon(t)]_vars
        => <>[](state = "closed")
=============================================================================

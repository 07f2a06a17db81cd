--------------------------- MODULE ProcessProofs ---------------------------
(***************************************************************************)
(* What one server process guarantees, whatever the number of its threads, *)
(* the limits and the answers of models: the breaker in front of the       *)
(* provider, the plan of a turn, and the background workers.  They share no *)
(* state; each has an inductive invariant of its own.                      *)
(***************************************************************************)
EXTENDS ServerProcess, FiniteSetTheorems, SequenceTheorems, TLAPS

-----------------------------------------------------------------------------
(***************************************************************************)
(* The breaker, for any number of threads and any limits.                  *)
(***************************************************************************)
USE FailMaxAssumption, ResetTimeoutAssumption

\* Why probes stay apart: no probe is younger than the one the breaker waits
\* for, nor younger than the failure that opened it.
ProbesAreOlder ==
    \A t \in Threads: call[t] = "probe" =>
        /\ state = "open" => age[t] >= openAge
        /\ state = "half_open" => age[t] >= probeAge

\* Why back-off holds: the cool-down is counted from the last failure.
CoolDownIsSinceFailure ==
    /\ state = "open" => openAge = failAge
    /\ state = "half_open" => failAge = ResetTimeout /\ probeInFlight

IInv ==
    /\ TypeOK
    /\ TrippedAtThreshold
    /\ ProbesAreOlder
    /\ CoolDownIsSinceFailure
    /\ OneFreshProbe

LEMMA InitHolds == Init => IInv
<1> SUFFICES ASSUME Init PROVE IInv
  OBVIOUS
<1>1. probeInFlight \in BOOLEAN
  BY Zenon DEF Init
<1> QED
  BY <1>1 DEF Init, IInv, TypeOK, TrippedAtThreshold, ProbesAreOlder,
         CoolDownIsSinceFailure, OneFreshProbe, Ages

\* probe_in_flight is only ever copied or set to a truth value.
LEMMA ProbeInFlightStep ==
  ASSUME TypeOK, [Next]_vars PROVE probeInFlight' \in BOOLEAN
<1>1. probeInFlight \in BOOLEAN
  BY Zenon DEF TypeOK
<1>2. CASE Tick
  BY <1>1, <1>2, Zenon DEF Tick
<1>3. ASSUME NEW t \in Threads, EnsureAvailable(t)
      PROVE  probeInFlight' \in BOOLEAN
  BY <1>1, <1>3, Zenon DEF EnsureAvailable, AcquireHalfOpenProbe, breaker
<1>4. ASSUME NEW t \in Threads, MarkSuccess(t)
      PROVE  probeInFlight' \in BOOLEAN
  BY <1>4, Zenon DEF MarkSuccess
<1>5. ASSUME NEW t \in Threads, MarkFailure(t)
      PROVE  probeInFlight' \in BOOLEAN
  <2>1. probeInFlight' = FALSE \/ probeInFlight' = probeInFlight
    BY <1>5, Zenon DEF MarkFailure
  <2> QED
    BY <1>1, <2>1, Zenon
<1>6. ASSUME NEW t \in Threads, Abandon(t) PROVE probeInFlight' \in BOOLEAN
  BY <1>1, <1>6, Zenon DEF Abandon, breaker
<1>7. CASE UNCHANGED vars
  BY <1>1, <1>7, Zenon DEF vars, breaker
<1> QED
  BY <1>2, <1>3, <1>4, <1>5, <1>6, <1>7 DEF Next

LEMMA TypeStep == TypeOK /\ [Next]_vars => TypeOK'
<1> SUFFICES ASSUME TypeOK, [Next]_vars PROVE TypeOK'
  OBVIOUS
<1>0. probeInFlight' \in BOOLEAN
  BY ProbeInFlightStep
<1> USE DEF TypeOK, Ages
<1>1. CASE Tick
  BY <1>0, <1>1 DEF Tick, Older
<1>2. ASSUME NEW t \in Threads, EnsureAvailable(t) PROVE TypeOK'
  BY <1>0, <1>2 DEF EnsureAvailable, AcquireHalfOpenProbe, breaker
<1>3. ASSUME NEW t \in Threads, MarkSuccess(t) PROVE TypeOK'
  BY <1>0, <1>3 DEF MarkSuccess
<1>4. ASSUME NEW t \in Threads, MarkFailure(t) PROVE TypeOK'
  BY <1>0, <1>4 DEF MarkFailure
<1>5. ASSUME NEW t \in Threads, Abandon(t) PROVE TypeOK'
  BY <1>0, <1>5 DEF Abandon, breaker
<1>6. CASE UNCHANGED vars
  BY <1>0, <1>6 DEF vars, breaker
<1> QED
  BY <1>1, <1>2, <1>3, <1>4, <1>5, <1>6 DEF Next

LEMMA IInvStep == IInv /\ [Next]_vars => IInv'
<1> SUFFICES ASSUME IInv, [Next]_vars PROVE IInv'
  OBVIOUS
<1>0. TypeOK /\ TypeOK'
  BY TypeStep DEF IInv
<1> USE DEF TypeOK, Ages, TrippedAtThreshold, ProbesAreOlder,
            CoolDownIsSinceFailure, OneFreshProbe
<1>1. CASE Tick
  <2>1. TrippedAtThreshold' /\ CoolDownIsSinceFailure'
    BY <1>0, <1>1 DEF Tick, Older, IInv
  <2>2. ProbesAreOlder' /\ OneFreshProbe'
    BY <1>0, <1>1 DEF Tick, Older, IInv
  <2> QED
    BY <1>0, <2>1, <2>2 DEF IInv
<1>2. ASSUME NEW t \in Threads, EnsureAvailable(t) PROVE IInv'
  <2>1. CASE state = "closed"
    BY <1>0, <1>2, <2>1 DEF EnsureAvailable, AcquireHalfOpenProbe,
       CooledDown, ProbeAllowed, IInv,
       breaker
  <2>2. CASE state # "closed"
    <3>1. \A u \in Threads: call[u] = "probe" => age[u] = ResetTimeout
      BY <1>0, <1>2, <2>2 DEF EnsureAvailable, AcquireHalfOpenProbe,
       CooledDown, ProbeAllowed, IInv
    <3>2. TrippedAtThreshold' /\ CoolDownIsSinceFailure'
      BY <1>0, <1>2, <2>2 DEF EnsureAvailable, AcquireHalfOpenProbe,
       CooledDown, ProbeAllowed, IInv
    <3>3. ProbesAreOlder' /\ OneFreshProbe'
      BY <1>0, <1>2, <2>2, <3>1 DEF EnsureAvailable, AcquireHalfOpenProbe, IInv
    <3> QED
      BY <1>0, <3>2, <3>3 DEF IInv
  <2> QED
    BY <2>1, <2>2
<1>3. ASSUME NEW t \in Threads, MarkSuccess(t) PROVE IInv'
  BY <1>0, <1>3 DEF MarkSuccess, IInv
<1>4. ASSUME NEW t \in Threads, MarkFailure(t) PROVE IInv'
  <2>1. TrippedAtThreshold' /\ CoolDownIsSinceFailure'
    BY <1>0, <1>4 DEF MarkFailure, IInv
  <2>2. ProbesAreOlder' /\ OneFreshProbe'
    BY <1>0, <1>4 DEF MarkFailure, IInv
  <2> QED
    BY <1>0, <2>1, <2>2 DEF IInv
<1>5. ASSUME NEW t \in Threads, Abandon(t) PROVE IInv'
  BY <1>0, <1>5 DEF Abandon, IInv, breaker
<1>6. CASE UNCHANGED vars
  BY <1>0, <1>6 DEF vars, breaker, IInv
<1> QED
  BY <1>1, <1>2, <1>3, <1>4, <1>5, <1>6 DEF Next

THEOREM IInvIsInvariant == Spec => []IInv
  BY InitHolds, IInvStep, PTL DEF Spec

\* The breaker's variables keep their types, for any number of threads.
THEOREM TypeCorrect == Spec => []TypeOK
<1>1. IInv => TypeOK
  BY DEF IInv
<1> QED
  BY <1>1, IInvIsInvariant, PTL

\* State and failure count agree, whatever verdicts arrive late.
THEOREM ThresholdCorrect == Spec => []TrippedAtThreshold
<1>1. IInv => TrippedAtThreshold
  BY DEF IInv
<1> QED
  BY <1>1, IInvIsInvariant, PTL

\* Of two probes in flight one has stalled, for any number of threads.
THEOREM ProbesCorrect == Spec => []OneFreshProbe
<1>1. IInv => OneFreshProbe
  BY DEF IInv
<1> QED
  BY <1>1, IInvIsInvariant, PTL

\* A tripped breaker lets nothing through before reset_timeout has passed
\* since the last failure reported.
THEOREM BackoffCorrect == Spec => BackoffAfterFailure
<1> DEFINE Step == \A t \in Threads:
             call[t] = "none" /\ call'[t] # "none" /\ state # "closed"
                 => failAge = ResetTimeout
<1>1. IInv /\ [Next]_vars => [Step]_vars
  <2> SUFFICES ASSUME IInv, Next, NEW t \in Threads, call[t] = "none",
                      call'[t] # "none", state # "closed"
               PROVE  failAge = ResetTimeout
    BY DEF vars
  <2>1. PICK u \in Threads: EnsureAvailable(u)
    BY DEF Next, Tick, MarkSuccess, MarkFailure, Abandon, IInv, TypeOK
  <2> QED
    BY <2>1 DEF EnsureAvailable, AcquireHalfOpenProbe,
       CooledDown, ProbeAllowed, IInv, TypeOK,
       CoolDownIsSinceFailure
<1> QED
  BY <1>1, IInvIsInvariant, PTL DEF Spec, BackoffAfterFailure
-----------------------------------------------------------------------------
(***************************************************************************)
(* Sorting: sequences taken apart and put together in an order.            *)
(***************************************************************************)
\* A strict order of all of S.
Ordered(S, order) ==
    /\ \A i \in S : <<i, i>> \notin order
    /\ \A i, j \in S : i # j => <<i, j>> \in order \/ <<j, i>> \in order
    /\ \A i, j, k \in S : <<i, j>> \in order /\ <<j, k>> \in order
                             => <<i, k>> \in order

Before(S, order, i) == {j \in S : <<j, i>> \in order}

\* Who is later in the order has more before him.
LEMMA RanksGrow ==
    ASSUME NEW S, IsFiniteSet(S), NEW order, Ordered(S, order)
    PROVE  /\ \A i \in S : /\ IsFiniteSet(Before(S, order, i))
                           /\ Cardinality(Before(S, order, i)) \in 0..(Cardinality(S) - 1)
           /\ \A i, j \in S : <<i, j>> \in order =>
                 Cardinality(Before(S, order, i)) < Cardinality(Before(S, order, j))
<1>0. Cardinality(S) \in Nat
  BY FS_CardinalityType
<1>1. ASSUME NEW i \in S
      PROVE  /\ IsFiniteSet(Before(S, order, i))
             /\ Cardinality(Before(S, order, i)) \in 0..(Cardinality(S) - 1)
  <2>1. Before(S, order, i) \in SUBSET (S \ {i})
    BY DEF Before, Ordered
  <2>2. IsFiniteSet(S \ {i}) /\ Cardinality(S \ {i}) = Cardinality(S) - 1
    BY FS_RemoveElement
  <2>3. /\ IsFiniteSet(Before(S, order, i))
        /\ Cardinality(Before(S, order, i)) <= Cardinality(S) - 1
    BY <2>1, <2>2, FS_Subset
  <2>4. Cardinality(Before(S, order, i)) \in Nat
    BY <2>3, FS_CardinalityType
  <2> QED
    BY <1>0, <2>3, <2>4
<1>2. ASSUME NEW i \in S, NEW j \in S, <<i, j>> \in order
      PROVE  Cardinality(Before(S, order, i)) < Cardinality(Before(S, order, j))
  <2> DEFINE upTo == Before(S, order, i) \cup {i}
  <2>1. i \notin Before(S, order, i)
    BY DEF Before, Ordered
  <2>2. upTo \in SUBSET Before(S, order, j)
    BY <1>2 DEF Before, Ordered
  <2>3. Cardinality(upTo) = Cardinality(Before(S, order, i)) + 1
    BY <1>1, <2>1, FS_AddElement
  <2>4. Cardinality(upTo) <= Cardinality(Before(S, order, j))
    <3> HIDE DEF upTo
    <3> QED
      BY <1>1, <2>2, FS_Subset
  <2>5. /\ Cardinality(Before(S, order, i)) \in Nat
        /\ Cardinality(Before(S, order, j)) \in Nat
    BY <1>0, <1>1
  <2> HIDE DEF upTo
  <2> QED
    BY <2>3, <2>4, <2>5
<1> QED
  BY <1>1, <1>2

LEMMA SameCardinality == \A S : P!Cardinality(S) = Cardinality(S)
  BY DEF Cardinality, P!Cardinality

\* InOrder goes through all of a set, once, in its order.
LEMMA OrderIsComplete ==
    ASSUME NEW S, IsFiniteSet(S), NEW order, Ordered(S, order),
           NEW f, f = P!InOrder(S, order), NEW n, n = Cardinality(S)
    PROVE  /\ f \in [1..n -> S]
           /\ \A i \in S : \E k \in 1..n : f[k] = i
           /\ \A j, k \in 1..n : j < k <=> <<f[j], f[k]>> \in order
<1> DEFINE rank == [i \in S |-> Cardinality(Before(S, order, i)) + 1]
<1>0. n \in Nat /\ IsFiniteSet(1..n) /\ Cardinality(1..n) = n
  BY FS_CardinalityType, FS_Interval
<1>1. ASSUME NEW i \in S PROVE rank[i] \in 1..n
  <2>1. Cardinality(Before(S, order, i)) \in 0..(n - 1)
    BY RanksGrow
  <2> QED
    BY <1>0, <2>1
<1>2. ASSUME NEW i \in S, NEW j \in S, <<i, j>> \in order PROVE rank[i] < rank[j]
  <2>1. /\ Cardinality(Before(S, order, i)) \in Nat
        /\ Cardinality(Before(S, order, j)) \in Nat
        /\ Cardinality(Before(S, order, i)) < Cardinality(Before(S, order, j))
    BY <1>0, <1>2, RanksGrow
  <2> QED
    BY <2>1
<1>3. rank \in Injection(S, 1..n)
  <2>1. \A i, j \in S : rank[i] = rank[j] => i = j
    <3> SUFFICES ASSUME NEW i \in S, NEW j \in S, rank[i] = rank[j], i # j
                 PROVE  FALSE
      OBVIOUS
    <3>1. <<i, j>> \in order \/ <<j, i>> \in order
      BY DEF Ordered
    <3>2. rank[i] \in Int /\ rank[j] \in Int
      BY <1>1
    <3> HIDE DEF rank
    <3> QED
      BY <1>2, <3>1, <3>2
  <2>2. rank \in [S -> 1..n]
    BY <1>1
  <2> HIDE DEF rank
  <2> QED
    BY <2>1, <2>2 DEF Injection, IsInjective
<1>4. rank \in Surjection(S, 1..n)
  <2> HIDE DEF rank
  <2> QED
    BY <1>0, <1>3, FS_Injection
<1>5. \A k \in 1..n : \E i \in S : rank[i] = k
  <2> HIDE DEF rank
  <2> QED
    BY <1>4 DEF Surjection
<1>6. \A k \in 1..n : f[k] = CHOOSE i \in S : Cardinality(Before(S, order, i)) = k - 1
  BY SameCardinality DEF P!InOrder, Before
<1>7. DOMAIN f = 1..n
  BY SameCardinality DEF P!InOrder
<1>8. ASSUME NEW k \in 1..n PROVE f[k] \in S /\ rank[f[k]] = k
  <2>1. PICK i \in S : rank[i] = k
    BY <1>5
  <2>2. Cardinality(Before(S, order, i)) \in 0..(n - 1)
    BY RanksGrow
  <2>3. Cardinality(Before(S, order, i)) = k - 1
    BY <1>0, <2>1, <2>2
  <2>4. f[k] \in S /\ Cardinality(Before(S, order, f[k])) = k - 1
    BY <1>6, <2>3
  <2> QED
    BY <1>0, <2>4
<1> HIDE DEF rank
<1>9. \A i \in S : f[rank[i]] = i
  BY <1>1, <1>3, <1>8 DEF Injection, IsInjective
<1>10. ASSUME NEW j \in 1..n, NEW k \in 1..n
       PROVE  j < k <=> <<f[j], f[k]>> \in order
  <2>1. f[j] \in S /\ f[k] \in S /\ rank[f[j]] = j /\ rank[f[k]] = k
    BY <1>8
  <2>2. ASSUME <<f[j], f[k]>> \in order PROVE j < k
    BY <1>2, <2>1, <2>2
  <2>3. ASSUME j < k PROVE <<f[j], f[k]>> \in order
    <3>1. f[j] # f[k]
      BY <1>0, <2>1, <2>3
    <3>2. <<f[j], f[k]>> \in order \/ <<f[k], f[j]>> \in order
      BY <2>1, <3>1 DEF Ordered
    <3>3. ASSUME <<f[k], f[j]>> \in order PROVE FALSE
      BY <1>0, <1>2, <2>1, <2>3, <3>3
    <3> QED
      BY <3>2, <3>3
  <2> QED
    BY <2>2, <2>3
<1>11. f \in [1..n -> S]
  <2> DEFINE g(k) == CHOOSE i \in S :
                        P!Cardinality({j \in S : <<j, i>> \in order}) = k - 1
  <2>0. f = [k \in 1..n |-> g(k)]
    BY SameCardinality DEF P!InOrder
  <2> HIDE DEF g
  <2>1. f = [k \in 1..n |-> f[k]]
    BY <2>0
  <2> QED
    BY <1>8, <2>1
<1>12. \A i \in S : \E k \in 1..n : f[k] = i
  BY <1>1, <1>9
<1> QED
  BY <1>10, <1>11, <1>12

\* The last member of an order has all the others before it.
LEMMA HasGreatest ==
    ASSUME NEW n \in Nat, NEW T, T \subseteq 1..n, T # {}
    PROVE  \E x \in T : \A y \in T : y <= x
<1> DEFINE f == P!InOrder(T, P!Earlier(T))
<1>0. \A x \in T : x \in Nat
  OBVIOUS
<1>1. IsFiniteSet(T) /\ Cardinality(T) \in Nat /\ Cardinality(T) # 0
  <2>1. IsFiniteSet(1..n)
    BY FS_Interval
  <2>2. IsFiniteSet(T)
    BY <2>1, FS_Subset
  <2> QED
    BY <2>2, FS_CardinalityType, FS_EmptySet
<1>2. Ordered(T, P!Earlier(T))
  BY DEF Ordered, P!Earlier
<1>3. /\ f \in [1..Cardinality(T) -> T]
      /\ \A i \in T : \E k \in 1..Cardinality(T) : f[k] = i
      /\ \A j, k \in 1..Cardinality(T) : j < k <=> <<f[j], f[k]>> \in P!Earlier(T)
  BY <1>1, <1>2, OrderIsComplete
<1> DEFINE last == Cardinality(T)
<1> HIDE DEF f, last
<1>4. f[last] \in T /\ last \in 1..last /\ last \in Nat
  BY <1>1, <1>3 DEF last
<1>5. ASSUME NEW y \in T PROVE y <= f[last]
  <2>1. PICK k \in 1..last : f[k] = y
    BY <1>3 DEF last
  <2>2. k = last \/ <<f[k], f[last]>> \in P!Earlier(T)
    BY <1>3, <1>4, <2>1 DEF last
  <2>3. f[last] \in Nat /\ y \in Nat
    BY <1>0, <1>4
  <2> QED
    BY <2>1, <2>2, <2>3 DEF P!Earlier
<1> QED
  BY <1>4, <1>5

\* An operation is released by one of the creations it waits for.
LEMMA LastCreationReleases ==
    ASSUME NEW X, NEW ops \in Seq(X), NEW i \in DOMAIN ops
    PROVE  /\ P!Released(ops, i) \in Nat
           /\ P!Dependencies(ops, i) # {} =>
                 P!Released(ops, i) \in P!Dependencies(ops, i)
<1>1. DOMAIN ops = 1..Len(ops) /\ Len(ops) \in Nat
  BY LenProperties
<1> DEFINE D == P!Dependencies(ops, i)
<1>2. D \subseteq 1..Len(ops)
  BY <1>1 DEF P!Dependencies
<1>3. CASE D = {}
  BY <1>3 DEF P!Released
<1>4. CASE D # {}
  <2> HIDE DEF D
  <2>1. \E x \in D : \A y \in D : y <= x
    BY <1>1, <1>2, <1>4, HasGreatest
  <2>2. PICK x \in D : \A y \in D : x >= y
    BY <1>1, <1>2, <2>1
  <2>3. P!Max(D) \in D
    BY <2>2 DEF P!Max
  <2> QED
    BY <1>1, <1>2, <1>4, <2>3 DEF P!Released, D
<1> QED
  BY <1>3, <1>4

\* The queue is an order: two operations released together keep theirs.
LEMMA QueuedIsOrdered ==
    ASSUME NEW X, NEW ops \in Seq(X)
    PROVE  Ordered(DOMAIN ops, P!Queued(ops))
<1> DEFINE order == P!Queued(ops)
<1>1. DOMAIN ops = 1..Len(ops) /\ Len(ops) \in Nat
  BY LenProperties
<1>2. \A i \in DOMAIN ops : P!Released(ops, i) \in Nat
  BY LastCreationReleases
<1>3. \A i, j : <<i, j>> \in order <=>
         /\ i \in DOMAIN ops /\ j \in DOMAIN ops
         /\ \/ P!Released(ops, i) < P!Released(ops, j)
            \/ P!Released(ops, i) = P!Released(ops, j) /\ i < j
  BY DEF P!Queued
<1> HIDE DEF order
<1> QED
  BY <1>1, <1>2, <1>3 DEF Ordered, order

\* What of a sequence is taken in an order of its indices has all of it.
LEMMA Reordered ==
    ASSUME NEW X, NEW ops \in Seq(X), NEW order, Ordered(DOMAIN ops, order)
    PROVE  LET f == P!InOrder(DOMAIN ops, order)
           IN  /\ DOMAIN ops = 1..Len(ops) /\ Len(ops) \in Nat
               /\ f \in [1..Len(ops) -> DOMAIN ops]
               /\ \A i \in DOMAIN ops : \E k \in 1..Len(ops) : f[k] = i
               /\ \A j, k \in 1..Len(ops) : j < k <=> <<f[j], f[k]>> \in order
<1>1. DOMAIN ops = 1..Len(ops) /\ Len(ops) \in Nat
  BY LenProperties
<1>2. IsFiniteSet(DOMAIN ops) /\ Cardinality(DOMAIN ops) = Len(ops)
  BY <1>1, FS_Interval
<1> QED
  BY <1>1, <1>2, OrderIsComplete

\* Sorting a patch: all of it, and operations that wait for the same creations
\* stay in order.
LEMMA SortedPatch ==
    ASSUME NEW X, NEW ops \in Seq(X)
    PROVE  LET sorted == P!ToposortPatchOps(ops)
               f == P!InOrder(DOMAIN ops, P!Queued(ops))
           IN  /\ DOMAIN sorted = 1..Len(ops) /\ Len(sorted) = Len(ops)
               /\ f \in [1..Len(ops) -> DOMAIN ops]
               /\ \A j, k \in 1..Len(ops) : f[j] = f[k] => j = k
               /\ \A k \in 1..Len(ops) : sorted[k] = ops[f[k]]
               /\ \A j, k \in 1..Len(ops) :
                     /\ j < k
                     /\ P!Dependencies(ops, f[j]) = P!Dependencies(ops, f[k])
                     => f[j] < f[k]
<1> DEFINE order == P!Queued(ops)
           f == P!InOrder(DOMAIN ops, order)
           sorted == P!ToposortPatchOps(ops)
<1>1. DOMAIN ops = 1..Len(ops) /\ Len(ops) \in Nat
  BY LenProperties
<1>2. Ordered(DOMAIN ops, order)
  BY QueuedIsOrdered
<1> HIDE DEF order
<1>3. /\ f \in [1..Len(ops) -> DOMAIN ops]
      /\ \A j, k \in 1..Len(ops) : j < k <=> <<f[j], f[k]>> \in order
  BY <1>2, Reordered
<1>4. sorted = [k \in 1..Len(ops) |-> ops[f[k]]]
  <2>1. DOMAIN f = 1..Len(ops)
    BY <1>3
  <2>2. sorted = [k \in DOMAIN f |-> ops[f[k]]]
    BY DEF P!ToposortPatchOps, order
  <2> QED
    BY <2>1, <2>2
<1> HIDE DEF f, sorted
<1>5. Len(sorted) = Len(ops)
  <2>1. sorted \in [1..Len(ops) -> X]
    BY <1>1, <1>3, <1>4, ElementOfSeq
  <2>2. sorted \in Seq(X)
    BY <1>1, <2>1, SeqDef
  <2> QED
    BY <1>1, <2>1, <2>2, LenProperties
<1>6. ASSUME NEW j \in 1..Len(ops), NEW k \in 1..Len(ops), f[j] = f[k] PROVE j = k
  <2>1. f[j] \in DOMAIN ops /\ <<f[j], f[j]>> \notin order
    BY <1>2, <1>3 DEF Ordered
  <2>2. ~(j < k) /\ ~(k < j)
    BY <1>3, <1>6, <2>1
  <2> QED
    BY <1>1, <2>2
<1>7. ASSUME NEW j \in 1..Len(ops), NEW k \in 1..Len(ops), j < k,
             P!Dependencies(ops, f[j]) = P!Dependencies(ops, f[k])
      PROVE  f[j] < f[k]
  <2>1. <<f[j], f[k]>> \in order /\ f[j] \in DOMAIN ops /\ f[k] \in DOMAIN ops
    BY <1>3, <1>7
  <2>2. /\ P!Released(ops, f[j]) = P!Released(ops, f[k])
        /\ P!Released(ops, f[j]) \in Nat /\ P!Released(ops, f[k]) \in Nat
    BY <1>7, <2>1, LastCreationReleases DEF P!Released
  <2> QED
    BY <2>1, <2>2 DEF order, P!Queued
<1> QED
  BY <1>1, <1>3, <1>4, <1>5, <1>6, <1>7 DEF f, sorted, order
-----------------------------------------------------------------------------
(***************************************************************************)
(* The plan of a turn.                                                     *)
(***************************************************************************)
HIDE FailMaxAssumption
HIDE ResetTimeoutAssumption
USE PlanningAssumption


\* A repair is the first one.
PlanningTypes ==
    /\ P!TypeOK
    /\ step = "repair" => repairs = 0

\* There is no plan before the planner is done, and then it asks nobody.
PlanEndsPlanning == plan.status # "none" => step = "done"

\* The checks of a draft leave a transaction open only when the planner is done.
OpenTxEndsPlanning == tx = "open" => step = "done"

PlanningInv ==
    /\ PlanningTypes
    /\ PlanEndsPlanning
    /\ OpenTxEndsPlanning
    /\ P!StoryMatchesPatch

LEMMA InitPlanning == ASSUME P!Init PROVE PlanningInv
<1>1. /\ planner \in Planners /\ step \in {"judge", "narrate"}
      /\ draft.form = "none" /\ longText = FALSE /\ repairs = 0 /\ tx = "none"
      /\ plan.status = "none" /\ plan.repaired = FALSE
  BY DEF P!Init, P!NoDraft, P!NoPlan
<1>2. P!TypeOK
  <2>1. longText \in BOOLEAN /\ plan.repaired \in BOOLEAN
    BY <1>1, Zenon
  <2>2. /\ planner \in {"debug", "travel", "state_first", "split", "legacy"}
        /\ step \in P!Calls \cup {"judge", "done", "failed"} /\ repairs \in 0..2
    BY <1>1 DEF P!Calls
  <2> QED
    BY <1>1, <2>1, <2>2, Zenon DEF P!TypeOK
<1>3. P!StoryMatchesPatch
  BY <1>1 DEF P!StoryMatchesPatch
<1> QED
  BY <1>1, <1>2, <1>3
  DEF PlanningInv, PlanningTypes, PlanEndsPlanning, OpenTxEndsPlanning

\* A patch is judged ok, rejected or uncertain.
LEMMA Verdicts == \A ops : P!ValidatePatchOps(ops).status \in {"ok", "reject", "uncertain"}
  BY DEF P!ValidatePatchOps, P!Reject

LEMMA AnswerForms ==
    ASSUME NEW a \in Answers \cup {P!Failure}
    PROVE  a.form \in {"good", "bad", "none"}
  BY DEF P!Failure, P!NoDraft

\* While the planner goes on asking, or gives up.
LEMMA AskingStep ==
    ASSUME PlanningInv, planner' \in {"debug", "travel", "state_first", "split", "legacy"},
           step \in {"narrate", "patch", "reparse"},
           draft'.form \in {"good", "bad", "none"}, longText' \in BOOLEAN,
           repairs' \in 0..2, tx' = tx,
           \/ UNCHANGED plan /\ step' \in {"narrate", "patch", "reparse", "judge"}
           \/ /\ plan'.status = "reject" /\ plan'.repaired \in BOOLEAN
              /\ step' = "done"
    PROVE  PlanningInv'
<1>1. plan.status = "none"
  BY DEF PlanningInv, PlanEndsPlanning, PlanningTypes, P!TypeOK
<1>2. tx # "open"
  BY DEF PlanningInv, OpenTxEndsPlanning
<1>3. plan'.status \in {"none", "reject"} /\ plan'.status # "ok"
  BY <1>1
<1>4. P!StoryMatchesPatch'
  BY <1>3 DEF P!StoryMatchesPatch
<1>5. plan'.repaired \in BOOLEAN
  BY Zenon DEF PlanningInv, PlanningTypes, P!TypeOK
<1>6. step' \in P!Calls \cup {"judge", "done", "failed"} /\ step' # "repair"
  BY DEF P!Calls
<1>7. tx' \in {"none", "open", "aborted"}
  BY DEF PlanningInv, PlanningTypes, P!TypeOK
<1>8. P!TypeOK'
  BY <1>3, <1>5, <1>6, <1>7, Zenon DEF P!TypeOK, P!Calls
<1>9. PlanEndsPlanning' /\ OpenTxEndsPlanning'
  BY <1>1, <1>2 DEF PlanEndsPlanning, OpenTxEndsPlanning
<1> QED
  BY <1>4, <1>6, <1>8, <1>9 DEF PlanningInv, PlanningTypes

LEMMA GivingUp ==
    ASSUME NEW repaired \in BOOLEAN, P!GiveUp(repaired)
    PROVE  plan'.status = "reject" /\ plan'.repaired \in BOOLEAN /\ step' = "done"
<1>1. plan'.status = "reject" /\ plan'.repaired = repaired /\ step' = "done"
  BY DEF P!GiveUp, P!Finish
<1>2. plan'.repaired \in BOOLEAN
  BY <1>1, Zenon
<1> QED
  BY <1>1, <1>2

LEMMA FirstQuestions ==
    ASSUME PlanningInv,
           \/ P!LegacyAsks \/ P!StateFirstAsks \/ P!SplitNarrates \/ P!SplitAsks
    PROVE  PlanningInv'
<1>1. /\ step \in {"narrate", "patch", "reparse"} /\ repairs' = repairs /\ tx' = tx
      /\ repairs \in 0..2 /\ draft.form \in {"good", "bad", "none"}
      /\ planner \in {"debug", "travel", "state_first", "split", "legacy"}
  BY DEF P!LegacyAsks, P!StateFirstAsks, P!SplitNarrates, P!SplitAsks,
         PlanningInv, PlanningTypes, P!TypeOK
<1>2. longText' \in BOOLEAN
  <2>1. longText \in BOOLEAN
    BY Zenon DEF PlanningInv, PlanningTypes, P!TypeOK
  <2>2. CASE P!LegacyAsks
    BY <2>2, Zenon DEF P!LegacyAsks
  <2>3. CASE P!StateFirstAsks \/ P!SplitAsks
    BY <2>1, <2>3, Zenon DEF P!StateFirstAsks, P!SplitAsks
  <2>4. CASE P!SplitNarrates
    BY <2>1, <2>4, Zenon DEF P!SplitNarrates
  <2> QED
    BY <2>2, <2>3, <2>4
<1>3. /\ draft'.form \in {"good", "bad", "none"}
      /\ planner' \in {"debug", "travel", "state_first", "split", "legacy"}
      /\ \/ UNCHANGED plan /\ step' \in {"narrate", "patch", "reparse", "judge"}
         \/ P!GiveUp(FALSE)
  <2>1. CASE P!LegacyAsks
    BY <1>1, <2>1, AnswerForms DEF P!LegacyAsks, P!CallNarrator
  <2>2. CASE P!StateFirstAsks
    BY <1>1, <2>2, AnswerForms DEF P!StateFirstAsks, P!CallNarrator
  <2>3. CASE P!SplitNarrates
    BY <1>1, <2>3 DEF P!SplitNarrates
  <2>4. CASE P!SplitAsks
    BY <1>1, <2>4, AnswerForms DEF P!SplitAsks, P!CallDeepseekPatchGenerator
  <2> QED
    BY <2>1, <2>2, <2>3, <2>4
<1>4. P!GiveUp(FALSE) => /\ plan'.status = "reject" /\ plan'.repaired \in BOOLEAN
                         /\ step' = "done"
  BY GivingUp
<1> QED
  BY <1>1, <1>2, <1>3, <1>4, AskingStep

LEMMA SecondQuestions ==
    ASSUME PlanningInv, P!LegacyReparses \/ P!SplitReparses
    PROVE  PlanningInv'
<1>1. /\ step = "reparse" /\ tx' = tx /\ planner' = planner
      /\ repairs \in 0..2 /\ draft.form \in {"good", "bad", "none"}
      /\ planner \in {"debug", "travel", "state_first", "split", "legacy"}
  BY DEF P!LegacyReparses, P!SplitReparses, PlanningInv, PlanningTypes, P!TypeOK
<1>2. longText' \in BOOLEAN
  <2>1. longText \in BOOLEAN
    BY Zenon DEF PlanningInv, PlanningTypes, P!TypeOK
  <2> QED
    BY <2>1, Zenon DEF P!LegacyReparses, P!SplitReparses
<1>3. /\ draft'.form \in {"good", "bad", "none"} /\ repairs' \in 0..2
      /\ \/ UNCHANGED plan /\ step' \in {"narrate", "patch", "reparse", "judge"}
         \/ P!GiveUp(FALSE) \/ P!GiveUp(TRUE)
  <2>1. CASE P!LegacyReparses
    <3>1. PICK a \in P!CallLibrarian :
             \/ P!GiveUp(FALSE) /\ UNCHANGED <<draft, longText, repairs>>
             \/ draft' = a /\ repairs' = 1 /\ step' = "judge" /\ UNCHANGED plan
      BY <2>1 DEF P!LegacyReparses
    <3>2. a.form \in {"good", "bad", "none"}
      BY AnswerForms DEF P!CallLibrarian
    <3>3. CASE P!GiveUp(FALSE) /\ UNCHANGED <<draft, longText, repairs>>
      BY <1>1, <3>3
    <3>4. CASE draft' = a /\ repairs' = 1 /\ step' = "judge" /\ UNCHANGED plan
      BY <3>2, <3>4
    <3> QED
      BY <3>1, <3>3, <3>4
  <2>2. CASE P!SplitReparses
    <3>1. PICK a \in P!CallLibrarian :
             \/ P!GiveUp(TRUE) /\ UNCHANGED draft
             \/ draft' = a /\ step' = "judge" /\ UNCHANGED plan
      BY <2>2 DEF P!SplitReparses
    <3> QED
      BY <1>1, <2>2, <3>1, AnswerForms DEF P!CallLibrarian, P!SplitReparses
  <2> QED
    BY <2>1, <2>2
<1>4. P!GiveUp(FALSE) \/ P!GiveUp(TRUE) =>
         plan'.status = "reject" /\ plan'.repaired \in BOOLEAN /\ step' = "done"
  BY GivingUp
<1> QED
  BY <1>1, <1>2, <1>3, <1>4, AskingStep

\* Planners that ask nobody, and requests that end without a plan.
LEMMA DebugStep ==
    ASSUME PlanningInv, P!BuildPlanFromDebugPatch
    PROVE  PlanningInv'
<1>1. /\ planner = "debug" /\ step = "judge" /\ tx # "open" /\ plan.status = "none"
      /\ UNCHANGED <<planner, longText, repairs, tx>> /\ repairs \in 0..2
      /\ tx \in {"none", "aborted"}
  BY DEF P!BuildPlanFromDebugPatch, PlanningInv, PlanEndsPlanning,
         OpenTxEndsPlanning, PlanningTypes, P!TypeOK
<1>2. longText' \in BOOLEAN /\ plan.repaired \in BOOLEAN
  BY <1>1, Zenon DEF PlanningInv, PlanningTypes, P!TypeOK
<1>3. CASE step' = "failed" /\ UNCHANGED <<draft, plan>>
  <2>1. P!TypeOK'
    <3>1. draft'.form \in {"good", "bad", "none"}
      BY <1>3 DEF PlanningInv, PlanningTypes, P!TypeOK
    <3>2. step' \in P!Calls \cup {"judge", "done", "failed"}
      BY <1>3
    <3>3. plan'.repaired \in BOOLEAN /\ plan'.status = "none"
      BY <1>1, <1>2, <1>3, Zenon
    <3> QED
      BY <1>1, <1>2, <3>1, <3>2, <3>3, Zenon DEF P!TypeOK
  <2> QED
    BY <1>1, <1>3, <2>1 DEF PlanningInv, PlanningTypes, PlanEndsPlanning,
       OpenTxEndsPlanning, P!StoryMatchesPatch
<1>4. ASSUME NEW a \in Answers, draft' = a,
             \/ P!Finish(P!ValidatePatchOps(a.ops).status, P!ValidatePatchOps(a.ops).ops,
                         FALSE)
             \/ P!GiveUp(FALSE)
      PROVE  PlanningInv'
  <2>1. /\ step' = "done" /\ plan'.status \in {"ok", "reject", "uncertain"}
        /\ draft'.form \in {"good", "bad", "none"} /\ plan'.repaired = FALSE
    BY <1>4, Verdicts, AnswerForms DEF P!Finish, P!GiveUp
  <2>2. P!TypeOK'
    <3>1. plan'.repaired \in BOOLEAN /\ plan'.status \in {"none", "ok", "reject", "uncertain"}
      BY <2>1, Zenon
    <3> QED
      BY <1>1, <1>2, <2>1, <3>1, Zenon DEF P!TypeOK
  <2> QED
    BY <1>1, <2>1, <2>2 DEF PlanningInv, PlanningTypes, PlanEndsPlanning,
       OpenTxEndsPlanning, P!StoryMatchesPatch
<1> QED
  BY <1>3, <1>4 DEF P!BuildPlanFromDebugPatch

LEMMA TravelStep ==
    ASSUME PlanningInv, P!ResolveTravelTurnPlan PROVE PlanningInv'
<1>1. /\ planner = "travel" /\ step = "narrate" /\ step' = "done"
      /\ UNCHANGED <<planner, draft, repairs, tx>>
      /\ plan'.status = "ok" /\ plan'.repaired = FALSE
  BY DEF P!ResolveTravelTurnPlan, P!Finish
<1>2. longText' \in BOOLEAN /\ plan'.repaired \in BOOLEAN
  BY <1>1, Zenon DEF P!ResolveTravelTurnPlan
<1>3. /\ draft'.form \in {"good", "bad", "none"} /\ repairs' \in 0..2
      /\ tx' \in {"none", "open", "aborted"}
  BY <1>1 DEF PlanningInv, PlanningTypes, P!TypeOK
<1>4. P!TypeOK'
  BY <1>1, <1>2, <1>3, Zenon DEF P!TypeOK
<1> QED
  BY <1>1, <1>4 DEF PlanningInv, PlanningTypes, PlanEndsPlanning,
     OpenTxEndsPlanning, P!StoryMatchesPatch

\* Judgement: when the doubts cover the story, an unrepaired plan agrees with it.
LEMMA JudgeStep ==
    ASSUME PlanningInv, step = "judge", NEW doubts \in BOOLEAN, P!Judge(doubts),
           UNCHANGED <<planner, longText, repairs>>,
           planner \in {"legacy", "split"} =>
               (doubts <=> P!LegacyDoubts(draft, P!CoercedOps))
    PROVE  PlanningInv'
<1> DEFINE v == P!ValidatePatchOps(P!Coerced(draft))
           reads == v.status # "reject" /\ v.ops # <<>>
           status == IF v.status = "ok" /\ doubts THEN "uncertain" ELSE v.status
<1>0. /\ v = P!ValidatePatchOps(P!Coerced(draft))
      /\ v.status \in {"ok", "reject", "uncertain"} /\ v.ops = P!CoercedOps
  BY Verdicts DEF P!CoercedOps
<1> HIDE DEF v
<1>1. /\ plan.status = "none" /\ tx # "open" /\ tx \in {"none", "open", "aborted"}
      /\ repairs \in 0..2 /\ draft.form \in {"good", "bad", "none"}
      /\ planner \in {"debug", "travel", "state_first", "split", "legacy"}
  BY DEF PlanningInv, PlanEndsPlanning, OpenTxEndsPlanning, PlanningTypes, P!TypeOK
<1>2. longText' \in BOOLEAN /\ plan.repaired \in BOOLEAN
  BY Zenon DEF PlanningInv, PlanningTypes, P!TypeOK
<1>3. \/ repairs = 0 /\ P!AskForRepair(reads)
      \/ /\ P!Finish(status, IF status = "ok" THEN v.ops ELSE <<>>, repairs > 0)
         /\ tx' = IF reads THEN "open" ELSE tx
         /\ UNCHANGED draft
  BY <1>0 DEF P!Judge
<1>4. status \in {"ok", "reject", "uncertain"}
  BY <1>0
<1> HIDE DEF reads
<1>5. CASE repairs = 0 /\ P!AskForRepair(reads)
  <2>1. /\ step' = "repair" /\ tx' = "none" /\ draft' = P!NoDraft /\ UNCHANGED plan
    BY <1>5 DEF P!AskForRepair
  <2>2. draft'.form = "none" /\ repairs' \in 0..2 /\ step' \in P!Calls
    BY <1>1, <2>1 DEF P!NoDraft, P!Calls
  <2>3. P!TypeOK'
    BY <1>1, <1>2, <2>1, <2>2, Zenon DEF P!TypeOK
  <2> QED
    BY <1>1, <1>5, <2>1, <2>3 DEF PlanningInv, PlanningTypes, PlanEndsPlanning,
       OpenTxEndsPlanning, P!StoryMatchesPatch
<1>6. CASE /\ P!Finish(status, IF status = "ok" THEN v.ops ELSE <<>>, repairs > 0)
           /\ tx' = IF reads THEN "open" ELSE tx
           /\ UNCHANGED draft
  <2>1. /\ plan'.status = status /\ plan'.repaired = (repairs > 0) /\ step' = "done"
        /\ plan'.ops = IF status = "ok" THEN v.ops ELSE <<>>
    BY <1>6 DEF P!Finish
  <2>2. tx' \in {"none", "open", "aborted"} /\ draft'.form \in {"good", "bad", "none"}
    BY <1>1, <1>6
  <2>3. plan'.repaired \in BOOLEAN
    <3>1. plan'.repaired = TRUE \/ plan'.repaired = FALSE
      BY <2>1
    <3> QED
      BY <3>1, Zenon
  <2>4. P!TypeOK'
    BY <1>1, <1>2, <1>4, <2>1, <2>2, <2>3, Zenon DEF P!TypeOK
  <2>5. P!StoryMatchesPatch'
    <3>1. SUFFICES ASSUME plan'.status = "ok", planner' \in {"legacy", "split"}
                   PROVE  /\ ~P!DeathContractBroken(draft'.events, plan'.ops)
                          /\ ~P!FactsMismatch(draft'.facts, plan'.ops)
                          /\ ~P!ReopensUntracked(plan'.ops)
                          /\ ~(plan'.ops = <<>> /\ longText')
      BY DEF P!StoryMatchesPatch
    <3>2. ~doubts /\ plan'.ops = P!CoercedOps
      BY <1>0, <2>1, <3>1
    <3>3. ~P!LegacyDoubts(draft, P!CoercedOps)
      BY <3>1, <3>2
    <3> QED
      BY <1>6, <3>2, <3>3 DEF P!LegacyDoubts, P!Desync
  <2> QED
    BY <2>1, <2>4, <2>5 DEF PlanningInv, PlanningTypes, PlanEndsPlanning,
       OpenTxEndsPlanning
<1> QED
  BY <1>3, <1>5, <1>6

LEMMA JudgeSteps ==
    ASSUME PlanningInv, P!LegacyJudge \/ P!StateFirstJudge \/ P!SplitJudge
    PROVE  PlanningInv'
<1>1. CASE P!LegacyJudge
  <2>1. P!LegacyDoubts(draft, P!CoercedOps) \in BOOLEAN
    BY Zenon DEF P!LegacyDoubts
  <2> QED
    BY <1>1, <2>1, JudgeStep DEF P!LegacyJudge
<1>2. CASE P!StateFirstJudge
  <2>1. P!StateFirstDoubts(draft, P!CoercedOps) \in BOOLEAN
    BY Zenon DEF P!StateFirstDoubts
  <2> QED
    BY <1>2, <2>1, JudgeStep DEF P!StateFirstJudge
<1>3. CASE P!SplitJudge
  <2>1. P!SplitDoubts(draft, P!CoercedOps) \in BOOLEAN
    BY Zenon DEF P!SplitDoubts, P!LegacyDoubts
  <2> QED
    BY <1>3, <2>1, JudgeStep DEF P!SplitJudge, P!SplitDoubts
<1> QED
  BY <1>1, <1>2, <1>3

LEMMA RepairStep ==
    ASSUME PlanningInv,
           P!LegacyRepair \/ P!StateFirstRepair \/ P!SplitRepair
    PROVE  PlanningInv'
<1>1. /\ step = "repair" /\ P!Repair /\ repairs = 0 /\ tx # "open"
      /\ planner \in {"debug", "travel", "state_first", "split", "legacy"}
      /\ tx \in {"none", "open", "aborted"}
  BY DEF P!LegacyRepair, P!StateFirstRepair, P!SplitRepair, PlanningInv,
         PlanningTypes, P!TypeOK, OpenTxEndsPlanning
<1>2. longText' \in BOOLEAN
  BY <1>1, Zenon DEF P!Repair, PlanningInv, PlanningTypes, P!TypeOK
<1>3. PICK a \in P!CallLibrarian :
         draft' = a /\ P!Finish(P!Repaired(a).status, P!Repaired(a).ops, TRUE)
  BY <1>1 DEF P!Repair
<1>4. P!Repaired(a).status \in {"ok", "reject", "uncertain"}
  BY Verdicts DEF P!Repaired, P!Reject
<1>5. /\ plan'.status \in {"ok", "reject", "uncertain"} /\ plan'.repaired = TRUE
      /\ step' = "done" /\ draft'.form \in {"good", "bad", "none"} /\ repairs' = 1
      /\ UNCHANGED <<planner, tx>>
  BY <1>1, <1>3, <1>4, AnswerForms DEF P!Repair, P!Finish, P!CallLibrarian
<1>6. P!TypeOK'
  <2>1. plan'.repaired \in BOOLEAN /\ repairs' \in 0..2
    <3>1. plan'.repaired \in BOOLEAN
      BY <1>5, Zenon
    <3> QED
      BY <1>5, <3>1
  <2> QED
    BY <1>1, <1>2, <1>5, <2>1, Zenon DEF P!TypeOK
<1> QED
  BY <1>5, <1>6 DEF PlanningInv, PlanningTypes, PlanEndsPlanning,
     OpenTxEndsPlanning, P!StoryMatchesPatch

LEMMA LookupStep ==
    ASSUME PlanningInv, P!LookupFails PROVE PlanningInv'
<1>1. /\ plan'.status = "none" /\ UNCHANGED <<plan, longText>>
      /\ tx' = "aborted" /\ repairs' = 0
      /\ step' \in {"narrate", "failed"} /\ draft'.form \in {"good", "bad", "none"}
      /\ planner' \in {"debug", "travel", "state_first", "split", "legacy"}
  BY DEF P!LookupFails, PlanningInv, PlanEndsPlanning, PlanningTypes, P!TypeOK,
         P!NoDraft
<1>2. longText' \in BOOLEAN /\ plan'.repaired \in BOOLEAN
  BY <1>1, Zenon DEF PlanningInv, PlanningTypes, P!TypeOK
<1>3. P!TypeOK'
  <2>1. repairs' \in 0..2 /\ step' \in P!Calls \cup {"judge", "done", "failed"}
    BY <1>1 DEF P!Calls
  <2> QED
    BY <1>1, <1>2, <2>1, Zenon DEF P!TypeOK
<1> QED
  BY <1>1, <1>3 DEF PlanningInv, PlanningTypes, PlanEndsPlanning,
     OpenTxEndsPlanning, P!StoryMatchesPatch

LEMMA PlanningStep ==
    ASSUME PlanningInv, [P!Next]_(P!vars) PROVE PlanningInv'
<1>1. CASE UNCHANGED P!vars
  BY <1>1 DEF P!vars, PlanningInv, PlanningTypes, P!TypeOK, PlanEndsPlanning,
     OpenTxEndsPlanning, P!StoryMatchesPatch
<1>2. CASE P!Ended
  BY <1>1, <1>2 DEF P!Ended
<1> QED
  BY <1>1, <1>2, FirstQuestions, SecondQuestions, DebugStep, TravelStep,
     JudgeSteps, RepairStep, LookupStep DEF P!Next

\* The strengthening is an invariant of planning.
LEMMA PlanningInvariance == P!Spec => []PlanningInv
<1>1. P!Init => PlanningInv
  BY InitPlanning
<1>2. PlanningInv /\ [P!Next]_(P!vars) => PlanningInv'
  BY PlanningStep
<1> QED
  BY <1>1, <1>2, PTL DEF P!Spec

\* Whatever the models answer and whatever fails, and whichever planner takes
\* over, no model is waited for inside a live transaction
\* (_end_read_transaction before every call).
THEOREM CallsCorrect == P!Spec => []CallsHoldNoTransaction
<1>1. PlanningInv => CallsHoldNoTransaction
  BY DEF PlanningInv, PlanningTypes, OpenTxEndsPlanning, CallsHoldNoTransaction,
         P!CallsHoldNoTransaction, P!Calls
<1> QED
  BY <1>1, PlanningInvariance, PTL

\* ... and an unrepaired plan of the legacy or the split planner agrees with
\* the story told with it (_find_narration_semantic_desync_reasons and the
\* checks beside it).
THEOREM StoryCorrect == P!Spec => []StoryMatchesPatch
<1>1. PlanningInv => StoryMatchesPatch
  BY DEF PlanningInv, StoryMatchesPatch
<1> QED
  BY <1>1, PlanningInvariance, PTL

\* Coercion keeps a sequence a sequence.
LEMMA CoercedIsSequence ==
    ASSUME NEW d \in Answers \cup {P!NoDraft}
    PROVE  \E X : P!Coerced(d) \in Seq(X)
<1> DEFINE items == d.ops
           coerced == [i \in DOMAIN items |-> P!CoercePatchOp(items[i], i)]
           good == {i \in DOMAIN items : coerced[i].op # "none"}
           kept == P!InOrder(good, P!Earlier(good))
           X == {coerced[i] : i \in good}
<1>1. \E Y : items \in Seq(Y)
  <2>1. CASE d \in Answers
    BY <2>1
  <2>2. CASE d = P!NoDraft
    <3>1. items = <<>>
      BY <2>2 DEF P!NoDraft
    <3> QED
      BY <3>1, EmptySeq
  <2> QED
    BY <2>1, <2>2
<1>2. DOMAIN items = 1..Len(items) /\ Len(items) \in Nat
  BY <1>1, LenProperties
<1>3. P!Coerced(d) = [k \in DOMAIN kept |-> coerced[kept[k]]]
  BY DEF P!Coerced, P!CoerceOps
<1> HIDE DEF coerced
<1>4. good \subseteq 1..Len(items)
  BY <1>2
<1>5. IsFiniteSet(good) /\ Cardinality(good) \in Nat
  <2>1. IsFiniteSet(1..Len(items))
    BY <1>2, FS_Interval
  <2> HIDE DEF good
  <2> QED
    BY <1>4, <2>1, FS_Subset, FS_CardinalityType
<1>6. Ordered(good, P!Earlier(good))
  <2>1. \A i \in good : i \in Nat
    BY <1>2, <1>4
  <2> HIDE DEF good
  <2> QED
    BY <2>1 DEF Ordered, P!Earlier
<1>7. kept \in [1..Cardinality(good) -> good]
  <2> DEFINE n == Cardinality(good)
  <2> HIDE DEF good, n, kept
  <2> QED
    BY <1>5, <1>6, OrderIsComplete DEF n, kept
<1> HIDE DEF items, good, kept
<1>8. P!Coerced(d) \in [1..Cardinality(good) -> X]
  BY <1>3, <1>7
<1> QED
  BY <1>5, <1>8, SeqDef

\* What an operation waits for is what it refers to.
LEMMA SameDependencies ==
    ASSUME NEW ops, NEW i, NEW k, P!SameTarget(ops[i], ops[k])
    PROVE  P!Dependencies(ops, i) = P!Dependencies(ops, k)
  BY DEF P!SameTarget, P!Dependencies, P!CollectRefs

\* What can be handed over: an answer that passed as it is, without a move.
SortedAnswer(d, ops) ==
    /\ P!ValidatePatchOps(P!Coerced(d)) = [status |-> "ok", ops |-> ops]
    /\ \A k \in DOMAIN ops : ops[k].op # "player.move"

\* What PlanIsSound asks of a patch that is handed over.
Sound(d, ops) ==
    /\ \E order \in [DOMAIN ops -> DOMAIN P!Coerced(d)] :
          /\ P!IsInjective(order)
          /\ Len(ops) = Len(P!Coerced(d))
          /\ \A k \in DOMAIN order : ops[k] = P!Coerced(d)[order[k]]
          /\ \A j, k \in DOMAIN order :
                j < k /\ P!SameTarget(ops[j], ops[k]) => order[j] < order[k]
    /\ \A k \in DOMAIN ops :
          /\ ops[k].op # "player.move" /\ ~P!Forbidden(ops[k])
          /\ \A r \in P!CollectRefs(ops[k]) \cap TmpRefs :
                \E j \in 1..(k - 1) : /\ ops[j].op = "object.create"
                                      /\ ops[j].ref = r

\* ... is sound: the sort promises all that PlanIsSound asks.
LEMMA SortedAnswersAreSound ==
    ASSUME NEW d \in Answers \cup {P!NoDraft}, NEW ops, SortedAnswer(d, ops)
    PROVE  Sound(d, ops)
<1> DEFINE raw == P!Coerced(d)
           order == P!InOrder(DOMAIN raw, P!Queued(raw))
           createdBy(k) == {ops[j].ref : j \in {i \in 1..k : ops[i].op = "object.create"}}
<1>1. PICK X : raw \in Seq(X)
  BY CoercedIsSequence
<1>2. /\ ops = P!ToposortPatchOps(raw)
      /\ \A i \in DOMAIN raw : ~P!Forbidden(raw[i])
      /\ \A k \in DOMAIN ops :
            (P!CollectRefs(ops[k]) \cap TmpRefs) \ createdBy(k) = {}
  <2> HIDE DEF raw
  <2>1. P!ValidatePatchOps(raw) = [status |-> "ok", ops |-> ops]
    BY DEF SortedAnswer, raw
  <2>2. /\ ops = P!ToposortPatchOps(raw)
        /\ \A i \in DOMAIN raw : ~P!Forbidden(raw[i])
    BY <2>1 DEF P!ValidatePatchOps, P!Reject
  <2>3. \A k \in DOMAIN ops :
            (P!CollectRefs(ops[k]) \cap TmpRefs) \ createdBy(k) = {}
    BY <2>1, <2>2 DEF P!ValidatePatchOps, P!Reject
  <2> QED
    BY <2>2, <2>3
<1> DEFINE n == Len(raw)
<1> HIDE DEF raw
<1>3. /\ DOMAIN raw = 1..n /\ n \in Nat
      /\ DOMAIN ops = 1..n /\ Len(ops) = n
      /\ order \in [1..n -> DOMAIN raw]
      /\ \A j, k \in 1..n : order[j] = order[k] => j = k
      /\ \A k \in 1..n : ops[k] = raw[order[k]]
      /\ \A j, k \in 1..n :
            /\ j < k
            /\ P!Dependencies(raw, order[j]) = P!Dependencies(raw, order[k])
            => order[j] < order[k]
  BY <1>1, <1>2, SortedPatch, LenProperties
<1> HIDE DEF order, n, createdBy
<1>4. P!IsInjective(order)
  BY <1>3 DEF P!IsInjective
<1>5. ASSUME NEW j \in DOMAIN order, NEW k \in DOMAIN order,
             j < k, P!SameTarget(ops[j], ops[k])
      PROVE  order[j] < order[k]
  <2>1. j \in 1..n /\ k \in 1..n
    BY <1>3
  <2>2. P!SameTarget(raw[order[j]], raw[order[k]])
    BY <1>3, <1>5, <2>1
  <2>3. P!Dependencies(raw, order[j]) = P!Dependencies(raw, order[k])
    BY <2>2, SameDependencies
  <2> QED
    BY <1>3, <1>5, <2>1, <2>3
<1>6. ASSUME NEW k \in DOMAIN ops
      PROVE  /\ ops[k].op # "player.move" /\ ~P!Forbidden(ops[k])
             /\ \A r \in P!CollectRefs(ops[k]) \cap TmpRefs :
                   \E j \in 1..(k - 1) : /\ ops[j].op = "object.create"
                                         /\ ops[j].ref = r
  <2>1. ops[k].op # "player.move" /\ ~P!Forbidden(ops[k])
    BY <1>2, <1>3 DEF SortedAnswer
  <2>2. ASSUME NEW r \in P!CollectRefs(ops[k]) \cap TmpRefs
        PROVE  \E j \in 1..(k - 1) : ops[j].op = "object.create" /\ ops[j].ref = r
    <3>1. r \in createdBy(k)
      BY <1>2, <2>2
    <3>2. PICK j \in 1..k : ops[j].op = "object.create" /\ ops[j].ref = r
      BY <3>1 DEF createdBy
    <3>3. ops[k].op # "object.create"
      BY <2>2 DEF P!CollectRefs
    <3>4. k \in Nat /\ j \in Nat /\ j # k
      BY <1>3, <3>2, <3>3
    <3> QED
      BY <3>2, <3>4
  <2> QED
    BY <2>1, <2>2
<1>7. order \in [DOMAIN ops -> DOMAIN raw] /\ DOMAIN order = DOMAIN ops
  BY <1>3
<1>8. \E g \in [DOMAIN ops -> DOMAIN raw] :
         /\ P!IsInjective(g)
         /\ Len(ops) = Len(raw)
         /\ \A k \in DOMAIN g : ops[k] = raw[g[k]]
         /\ \A j, k \in DOMAIN g :
               j < k /\ P!SameTarget(ops[j], ops[k]) => g[j] < g[k]
  <2>1. Len(ops) = Len(raw)
    BY <1>3 DEF n
  <2> USE <1>7
  <2> WITNESS order \in [DOMAIN ops -> DOMAIN raw]
  <2> QED
    BY <1>3, <1>4, <1>5, <2>1
<1> QED
  BY <1>6, <1>8 DEF raw, Sound

\* What a planner hands over is a sorted answer, or nothing.
DraftIsAnswer == draft \in Answers \cup {P!NoDraft}
PlanIsSorted ==
    plan.status # "none" /\ planner # "debug" =>
        \/ plan.ops = <<>>
        \/ plan.status = "ok" /\ SortedAnswer(draft, plan.ops)
SortInv == DraftIsAnswer /\ PlanIsSorted

\* The invariant is strong enough.
LEMMA SortedPlansAreSound == ASSUME SortInv PROVE PlanIsSound
<1> SUFFICES ASSUME plan.status # "none", planner # "debug"
             PROVE  P!PlanIsSound
  BY DEF PlanIsSound, P!PlanIsSound
<1>1. CASE plan.ops = <<>>
  BY <1>1 DEF P!PlanIsSound
<1>2. CASE plan.status = "ok" /\ SortedAnswer(draft, plan.ops)
  <2>1. draft \in Answers \cup {P!NoDraft}
    BY DEF SortInv, DraftIsAnswer
  <2>2. Sound(draft, plan.ops)
    BY <1>2, <2>1, SortedAnswersAreSound
  <2> QED
    BY <1>2, <2>2, Zenon DEF P!PlanIsSound, Sound
<1> QED
  BY <1>1, <1>2 DEF SortInv, PlanIsSorted

\* A patch without a move keeps the player where it is.
LEMMA NobodyMoves ==
    ASSUME NEW events, NEW ops, ~P!MovesThePlayer(events, ops)
    PROVE  \A k \in DOMAIN ops : ops[k].op # "player.move"
  BY DEF P!MovesThePlayer, P!Ops, P!ToSet

\* A judged draft is handed over only without doubts, a repaired one only when
\* it passes the same checks.
LEMMA JudgedIsSorted ==
    ASSUME SortInv, NEW doubts, P!Judge(doubts), plan.status = "none",
           P!MovesThePlayer(draft.events, P!CoercedOps) => doubts,
           UNCHANGED planner
    PROVE  SortInv'
<1> DEFINE v == P!ValidatePatchOps(P!Coerced(draft))
           status == IF v.status = "ok" /\ doubts THEN "uncertain" ELSE v.status
<1>1. v = [status |-> v.status, ops |-> v.ops]
  BY DEF P!ValidatePatchOps, P!Reject
<1>2. CASE P!AskForRepair(v.status # "reject" /\ v.ops # <<>>)
  BY <1>2 DEF P!AskForRepair, SortInv, DraftIsAnswer, PlanIsSorted
<1>3. CASE /\ P!Finish(status, IF status = "ok" THEN v.ops ELSE <<>>, repairs > 0)
           /\ UNCHANGED draft
  <2>1. /\ plan'.status = status /\ plan'.ops = (IF status = "ok" THEN v.ops ELSE <<>>)
        /\ UNCHANGED draft
    BY <1>3 DEF P!Finish
  <2>2. CASE status = "ok"
    <3>1. v.status = "ok" /\ ~doubts /\ v.ops = P!CoercedOps
      BY <2>2 DEF P!CoercedOps
    <3>2. \A k \in DOMAIN v.ops : v.ops[k].op # "player.move"
      <4> HIDE DEF v
      <4> QED
        BY <3>1, NobodyMoves
    <3>3. SortedAnswer(draft, v.ops)
      BY <1>1, <3>1, <3>2 DEF SortedAnswer
    <3> HIDE DEF v
    <3> QED
      BY <2>1, <2>2, <3>3 DEF SortInv, DraftIsAnswer, PlanIsSorted
  <2>3. CASE status # "ok"
    <3> HIDE DEF v
    <3> QED
      BY <2>1, <2>3 DEF SortInv, DraftIsAnswer, PlanIsSorted
  <2> QED
    BY <2>2, <2>3
<1> QED
  BY <1>2, <1>3 DEF P!Judge

LEMMA RepairedIsSorted ==
    ASSUME SortInv, P!Repair PROVE SortInv'
<1>1. PICK a \in P!CallLibrarian :
         /\ draft' = a
         /\ P!Finish(P!Repaired(a).status, P!Repaired(a).ops, TRUE)
  BY DEF P!Repair
<1> DEFINE v == P!ValidatePatchOps(P!Coerced(a))
<1>2. v = [status |-> v.status, ops |-> v.ops]
  BY DEF P!ValidatePatchOps, P!Reject
<1>3. /\ plan'.status = P!Repaired(a).status /\ plan'.ops = P!Repaired(a).ops
      /\ draft' = a /\ a \in Answers \cup {P!NoDraft}
  BY <1>1 DEF P!Finish, P!CallLibrarian, P!Failure
<1>4. CASE v.status = "ok" /\ ~P!MovesThePlayer(a.events, v.ops) /\ P!Repaired(a) = v
  <2>1. SortedAnswer(a, v.ops)
    BY <1>2, <1>4, NobodyMoves DEF SortedAnswer
  <2> HIDE DEF v
  <2> QED
    BY <1>3, <1>4, <2>1 DEF SortInv, DraftIsAnswer, PlanIsSorted
<1>5. CASE P!Repaired(a) = P!Reject
  BY <1>3, <1>5 DEF P!Reject, SortInv, DraftIsAnswer, PlanIsSorted
<1> QED
  BY <1>4, <1>5 DEF P!Repaired

LEMMA SortStep ==
    ASSUME PlanningInv, SortInv, [P!Next]_(P!vars) PROVE SortInv'
<1>0. /\ step # "done" => plan.status = "none"
      /\ P!GiveUp(FALSE) \/ P!GiveUp(TRUE) => plan'.ops = <<>>
  BY DEF PlanningInv, PlanEndsPlanning, P!GiveUp, P!Finish
<1> USE DEF SortInv, DraftIsAnswer, PlanIsSorted
<1>1. CASE P!BuildPlanFromDebugPatch
  BY <1>1 DEF P!BuildPlanFromDebugPatch
<1>2. CASE P!ResolveTravelTurnPlan
  BY <1>2 DEF P!ResolveTravelTurnPlan, P!Finish
<1>3. CASE P!LegacyAsks
  BY <1>0, <1>3 DEF P!LegacyAsks, P!CallNarrator, P!Failure
<1>4. CASE P!LegacyReparses
  BY <1>0, <1>4 DEF P!LegacyReparses, P!CallLibrarian, P!Failure
<1>5. CASE P!StateFirstAsks
  BY <1>0, <1>5 DEF P!StateFirstAsks, P!CallNarrator, P!Failure
<1>6. CASE P!SplitNarrates
  BY <1>0, <1>6 DEF P!SplitNarrates
<1>7. CASE P!SplitAsks
  BY <1>0, <1>7 DEF P!SplitAsks, P!CallDeepseekPatchGenerator, P!Failure
<1>8. CASE P!SplitReparses
  BY <1>0, <1>8 DEF P!SplitReparses, P!CallLibrarian, P!Failure
<1>9. CASE P!LookupFails
  BY <1>0, <1>9 DEF P!LookupFails
<1>10. CASE P!LegacyJudge \/ P!StateFirstJudge \/ P!SplitJudge
  <2>1. plan.status = "none" /\ UNCHANGED planner
    BY <1>0, <1>10 DEF P!LegacyJudge, P!StateFirstJudge, P!SplitJudge
  <2>2. CASE P!LegacyJudge
    BY <2>1, <2>2, JudgedIsSorted DEF P!LegacyJudge, P!LegacyDoubts
  <2>3. CASE P!StateFirstJudge
    BY <2>1, <2>3, JudgedIsSorted DEF P!StateFirstJudge, P!StateFirstDoubts
  <2>4. CASE P!SplitJudge
    BY <2>1, <2>4, JudgedIsSorted DEF P!SplitJudge, P!SplitDoubts, P!LegacyDoubts
  <2> QED
    BY <1>10, <2>2, <2>3, <2>4
<1>11. CASE P!LegacyRepair \/ P!StateFirstRepair \/ P!SplitRepair
  BY <1>11, RepairedIsSorted DEF P!LegacyRepair, P!StateFirstRepair, P!SplitRepair
<1>12. CASE P!Ended \/ UNCHANGED P!vars
  BY <1>12 DEF P!Ended, P!vars
<1> QED
  BY <1>1, <1>2, <1>3, <1>4, <1>5, <1>6, <1>7, <1>8, <1>9, <1>10, <1>11, <1>12
  DEF P!Next

\* Whatever the models answer, whichever planner takes over and whoever repairs,
\* the patch a planner hands over is all of the coerced answer, reordered so
\* that creations come before their use and operations on one target keep
\* their order, and holds nothing only the server may write
\* (_toposort_patch_ops, _validate_patch_ops, _server_owned_movement_reasons).
THEOREM PlanCorrect == P!Spec => []PlanIsSound
<1>1. P!Init => SortInv
  BY DEF P!Init, P!NoPlan, SortInv, DraftIsAnswer, PlanIsSorted
<1>2. PlanningInv /\ SortInv /\ [P!Next]_(P!vars) => SortInv'
  BY SortStep
<1>3. SortInv => PlanIsSound
  BY SortedPlansAreSound
<1> QED
  BY <1>1, <1>2, <1>3, PlanningInvariance, PTL DEF P!Spec

\* What is used comes after its creation: a patch that creates every temporary
\* reference it uses is never called uncertain, however its operations come
\* (_toposort_patch_ops under _validate_patch_ops).
THEOREM CreationsComeFirst ==
    ASSUME NEW X, NEW ops \in Seq(X),
           \A i \in DOMAIN ops : \A r \in P!CollectRefs(ops[i]) \cap TmpRefs :
               \E c \in DOMAIN ops : ops[c].op = "object.create" /\ ops[c].ref = r
    PROVE  P!ValidatePatchOps(ops).status # "uncertain"
<1> DEFINE sorted == P!ToposortPatchOps(ops)
           order == P!InOrder(DOMAIN ops, P!Queued(ops))
           n == Len(ops)
           createdBy(k) == {sorted[j].ref : j \in {i \in 1..k :
                                               sorted[i].op = "object.create"}}
<1>1. /\ DOMAIN ops = 1..n /\ n \in Nat /\ DOMAIN sorted = 1..n
      /\ order \in [1..n -> DOMAIN ops]
      /\ \A i \in DOMAIN ops : \E k \in 1..n : order[k] = i
      /\ \A k \in 1..n : sorted[k] = ops[order[k]]
      /\ \A j, k \in 1..n : j < k <=> <<order[j], order[k]>> \in P!Queued(ops)
  <2>1. Ordered(DOMAIN ops, P!Queued(ops))
    BY QueuedIsOrdered
  <2> QED
    BY <2>1, Reordered, SortedPatch
<1> HIDE DEF sorted, order, n
<1>2. ASSUME NEW k \in 1..n, NEW r \in P!CollectRefs(sorted[k]) \cap TmpRefs
      PROVE  r \in createdBy(k)
  <2>1. order[k] \in DOMAIN ops /\ sorted[k] = ops[order[k]]
    BY <1>1
  <2>2. PICK c \in DOMAIN ops : ops[c].op = "object.create" /\ ops[c].ref = r
    BY <1>2, <2>1
  <2>3. PICK j \in 1..n : order[j] = c
    BY <1>1
  <2>4. c \in P!Dependencies(ops, order[k])
    BY <1>2, <2>1, <2>2 DEF P!Dependencies
  <2>5. P!Dependencies(ops, c) = {}
    BY <2>2 DEF P!Dependencies, P!CollectRefs
  <2>6. P!Released(ops, c) = 0 /\ P!Released(ops, order[k]) \in 1..n
    <3>1. P!Released(ops, order[k]) \in P!Dependencies(ops, order[k])
      BY <2>1, <2>4, LastCreationReleases
    <3> QED
      BY <1>1, <2>5, <3>1 DEF P!Released, P!Dependencies
  <2>7. <<c, order[k]>> \in P!Queued(ops)
    BY <1>1, <2>1, <2>2, <2>6 DEF P!Queued
  <2>8. j < k
    BY <1>1, <2>3, <2>7
  <2>9. sorted[j] = ops[c]
    BY <1>1, <2>3
  <2>10. j \in 1..k
    BY <1>1, <2>3, <2>8
  <2> QED
    BY <2>2, <2>9, <2>10
<1>3. ~ \E k \in DOMAIN sorted :
           (P!CollectRefs(sorted[k]) \cap TmpRefs) \ createdBy(k) # {}
  <2> HIDE DEF createdBy
  <2> QED
    BY <1>1, <1>2
<1> QED
  BY <1>3 DEF P!ValidatePatchOps, P!Reject, sorted

HIDE PlanningAssumption
-----------------------------------------------------------------------------
(***************************************************************************)
(* The background workers, for any number of them.                         *)
(***************************************************************************)
USE WorkersAssumption

States == {"new", "added", "running", "leaving", "gone"}

\* Whoever has been taken on and has not left is on the list.
ListedUntilTheyLeave ==
    \A w \in Workers : thread[w] \in {"added", "running", "leaving"} => w \in workers

\* After shutdown nobody is about to start.
NobodyStartsLate ==
    shutdown => \A w \in Workers : thread[w] \notin {"new", "added"}

WorkersInv ==
    /\ thread \in [Workers -> States]
    /\ wait = [at |-> wait.at, left |-> wait.left]
    /\ ListedUntilTheyLeave
    /\ NobodyStartsLate
    /\ wait.at # "none" => shutdown
    /\ W!NobodyIsLeftBehind
    /\ review = [at |-> review.at, todo |-> review.todo, written |-> review.written]
    /\ review.at # "off" => thread[Loop] = "running"

LEMMA InitWorkers == W!Init => WorkersInv
<1> SUFFICES ASSUME W!Init PROVE WorkersInv
  OBVIOUS
<1>1. thread \in [Workers -> States] /\ \A w \in Workers : thread[w] = "new"
  BY DEF W!Init, States
<1>2. wait = [at |-> wait.at, left |-> wait.left] /\ wait.at = "none"
  BY DEF W!Init
<1>3. ~shutdown
  BY DEF W!Init
<1>4. /\ review = [at |-> review.at, todo |-> review.todo, written |-> review.written]
      /\ review.at = "off"
  BY DEF W!Init
<1> QED
  BY <1>1, <1>2, <1>3, <1>4
  DEF WorkersInv, ListedUntilTheyLeave, NobodyStartsLate, W!NobodyIsLeftBehind

LEMMA RegisterStep ==
    ASSUME WorkersInv, NEW w \in Workers, W!Register(w)
    PROVE  WorkersInv'
<1>0. /\ UNCHANGED <<shutdown, wait, review>> /\ thread[w] = "new"
      /\ \A v \in Workers : thread[v] # "added"
  BY DEF W!Register, W!reviewVars
<1>1. CASE shutdown
  <2>1. FALSE
    BY <1>1 DEF W!Register, WorkersInv, NobodyStartsLate
  <2> QED
    BY <2>1
<1>2. CASE ~shutdown
  <2>1. /\ workers' = W!CleanupFinishedWorkers \cup {w}
        /\ thread' = [thread EXCEPT ![w] = "added"]
    BY <1>2 DEF W!Register
  <2>2. thread' \in [Workers -> States]
    BY <2>1 DEF WorkersInv, States
  <2>3. ListedUntilTheyLeave'
    <3>1. SUFFICES ASSUME NEW v \in Workers, v # w,
                          thread'[v] \in {"added", "running", "leaving"}
                   PROVE  v \in workers'
      BY <2>1 DEF ListedUntilTheyLeave
    <3>2. thread[v] \in {"running", "leaving"}
      BY <1>0, <2>1, <3>1 DEF WorkersInv
    <3>3. v \in workers
      BY <3>2 DEF WorkersInv, ListedUntilTheyLeave
    <3> QED
      BY <2>1, <3>2, <3>3 DEF W!CleanupFinishedWorkers, W!IsAlive
  <2>4. wait'.at = "none"
    BY <1>0, <1>2 DEF WorkersInv
  <2>5. review'.at # "off" => thread'[Loop] = "running"
    BY <1>0, <2>1 DEF WorkersInv
  <2> QED
    BY <1>0, <1>2, <2>2, <2>3, <2>4, <2>5
    DEF WorkersInv, NobodyStartsLate, W!NobodyIsLeftBehind
<1> QED
  BY <1>1, <1>2

LEMMA StartStep ==
    ASSUME WorkersInv, NEW w \in Workers, W!StartThread(w)
    PROVE  WorkersInv'
<1>1. /\ thread[w] = "added" /\ thread' = [thread EXCEPT ![w] = "running"]
      /\ UNCHANGED <<workers, shutdown, wait>>
  BY DEF W!StartThread
<1>2. ~shutdown
  BY <1>1 DEF WorkersInv, NobodyStartsLate
<1>3. wait'.at = "none"
  BY <1>1, <1>2 DEF WorkersInv
<1>4. review' = IF w = Loop THEN [review EXCEPT !.at = "check"] ELSE review
  BY DEF W!StartThread
<1>5. /\ review' = [at |-> review'.at, todo |-> review'.todo, written |-> review'.written]
      /\ review'.at # "off" => thread'[Loop] = "running"
  BY <1>1, <1>4 DEF WorkersInv
<1>6. thread' \in [Workers -> States] /\ ListedUntilTheyLeave'
  BY <1>1 DEF WorkersInv, ListedUntilTheyLeave, States
<1> QED
  BY <1>1, <1>2, <1>3, <1>5, <1>6
  DEF WorkersInv, NobodyStartsLate, W!NobodyIsLeftBehind

\* A thread that runs begins to end.
LEMMA LeavingStep ==
    ASSUME WorkersInv, NEW w \in Workers, thread[w] = "running",
           thread' = [thread EXCEPT ![w] = "leaving"],
           UNCHANGED <<workers, shutdown, wait>>,
           review' = [at |-> review'.at, todo |-> review'.todo,
                      written |-> review'.written],
           IF w = Loop THEN review'.at = "off" ELSE UNCHANGED review
    PROVE  WorkersInv'
  BY DEF W!NobodyIsLeftBehind, WorkersInv, NobodyStartsLate, ListedUntilTheyLeave, States, W!IsAlive

LEMMA LeavesStep ==
    ASSUME WorkersInv, NEW w \in Workers, W!RunnerLeaves(w)
    PROVE  WorkersInv'
  BY DEF W!RunnerLeaves, W!reviewVars, W!NobodyIsLeftBehind, WorkersInv, NobodyStartsLate, ListedUntilTheyLeave,
         States, W!IsAlive

LEMMA ShutdownStep == ASSUME WorkersInv, W!BeginShutdown PROVE WorkersInv'
<1>1. /\ \A w \in Workers : thread[w] \notin {"new", "added"}
      /\ shutdown' /\ wait' = [wait EXCEPT !.at = "look"] /\ UNCHANGED <<workers, thread, review>>
  BY DEF W!BeginShutdown, W!reviewVars
<1>2. wait' = [at |-> wait'.at, left |-> wait'.left] /\ wait'.at = "look"
  BY <1>1 DEF WorkersInv
<1> QED
  BY <1>1, <1>2 DEF WorkersInv, NobodyStartsLate, ListedUntilTheyLeave,
                    W!NobodyIsLeftBehind

LEMMA LooksStep == ASSUME WorkersInv, W!WaitLooks PROVE WorkersInv'
<1>1. /\ wait.at = "look" /\ workers' = W!CleanupFinishedWorkers
      /\ wait' = [wait EXCEPT !.at = IF W!CleanupFinishedWorkers = {} THEN "clear"
                                     ELSE IF wait.left = 0 THEN "late" ELSE "join"]
      /\ UNCHANGED <<thread, shutdown, review>>
  BY DEF W!WaitLooks, W!reviewVars
<1>2. /\ wait' = [at |-> wait'.at, left |-> wait'.left]
      /\ wait'.at = "clear" => W!CleanupFinishedWorkers = {}
  BY <1>1 DEF WorkersInv
<1>3. shutdown /\ \A w \in Workers : thread[w] \notin {"new", "added"}
  BY <1>1 DEF WorkersInv, NobodyStartsLate
<1>4. \A w \in Workers : W!IsAlive(w) => w \in W!CleanupFinishedWorkers
  BY DEF WorkersInv, ListedUntilTheyLeave, W!CleanupFinishedWorkers, W!IsAlive
<1>5. ListedUntilTheyLeave'
  BY <1>1, <1>3, <1>4 DEF ListedUntilTheyLeave, W!IsAlive
<1>6. wait'.at = "clear" => \A w \in Workers : ~W!IsAlive(w)'
  BY <1>1, <1>2, <1>4 DEF W!IsAlive
<1> QED
  BY <1>1, <1>2, <1>3, <1>5, <1>6
  DEF WorkersInv, NobodyStartsLate, W!NobodyIsLeftBehind

LEMMA JoinsStep == ASSUME WorkersInv, W!WaitJoins PROVE WorkersInv'
<1>1. PICK left \in 0..wait.left : wait' = [wait EXCEPT !.at = "look", !.left = left]
  BY DEF W!WaitJoins
<1>2. wait.at = "join" /\ UNCHANGED <<workers, thread, shutdown, review>>
  BY DEF W!WaitJoins, W!reviewVars
<1>3. wait' = [at |-> wait'.at, left |-> wait'.left] /\ wait'.at = "look"
  BY <1>1 DEF WorkersInv
<1> QED
  BY <1>2, <1>3 DEF WorkersInv, NobodyStartsLate, ListedUntilTheyLeave,
                    W!NobodyIsLeftBehind

\* Steps that are of the review only.
LEMMA ReviewSteps ==
    ASSUME WorkersInv, UNCHANGED <<workers, thread, shutdown, wait>>,
           review' = [at |-> review'.at, todo |-> review'.todo,
                      written |-> review'.written],
           review.at # "off" \/ UNCHANGED review
    PROVE  WorkersInv'
  BY DEF WorkersInv, NobodyStartsLate, ListedUntilTheyLeave, W!IsAlive,
         W!NobodyIsLeftBehind

LEMMA LoopStep ==
    ASSUME WorkersInv, W!LoopChecks
    PROVE  WorkersInv' /\ (thread'[Loop] # thread[Loop] => shutdown)
<1>1. CASE shutdown
  <2>1. /\ review.at = "check" /\ review' = [review EXCEPT !.at = "off"]
        /\ thread' = [thread EXCEPT ![Loop] = "leaving"]
        /\ UNCHANGED <<workers, shutdown, wait>>
    BY <1>1 DEF W!LoopChecks
  <2>2. /\ review' = [at |-> review'.at, todo |-> review'.todo,
                      written |-> review'.written]
        /\ review'.at = "off" /\ thread[Loop] = "running"
    BY <2>1 DEF WorkersInv
  <2> QED
    BY <1>1, <2>1, <2>2, LeavingStep
<1>2. CASE ~shutdown
  <2>1. /\ review.at = "check" /\ review' = [review EXCEPT !.at = "list"]
        /\ UNCHANGED <<workers, thread, shutdown, wait>>
    BY <1>2 DEF W!LoopChecks
  <2>2. review' = [at |-> review'.at, todo |-> review'.todo, written |-> review'.written]
    BY <2>1 DEF WorkersInv
  <2> QED
    BY <2>1, <2>2, ReviewSteps
<1> QED
  BY <1>1, <1>2

LEMMA WorkersStep ==
    ASSUME WorkersInv, [W!Next]_(W!vars)
    PROVE  WorkersInv'
<1>1. CASE UNCHANGED W!vars \/ W!Exited
  <2>1. UNCHANGED <<workers, thread, shutdown, wait, review>>
    BY <1>1 DEF W!Exited, W!vars
  <2>2. review' = [at |-> review'.at, todo |-> review'.todo, written |-> review'.written]
    BY <2>1 DEF WorkersInv
  <2> QED
    BY <2>1, <2>2, ReviewSteps
<1>2. ASSUME NEW w \in Workers, W!TargetEnds(w) PROVE WorkersInv'
  <2>1. /\ w # Loop /\ thread[w] = "running"
        /\ thread' = [thread EXCEPT ![w] = "leaving"]
        /\ UNCHANGED <<workers, shutdown, wait, review>>
    BY <1>2 DEF W!TargetEnds, W!reviewVars
  <2>2. review' = [at |-> review'.at, todo |-> review'.todo, written |-> review'.written]
    BY <2>1 DEF WorkersInv
  <2> QED
    BY <2>1, <2>2, LeavingStep
<1>3. ASSUME NEW s \in Sessions, W!Remember(s) PROVE WorkersInv'
  <2>1. UNCHANGED <<workers, thread, shutdown, wait, review>>
    BY <1>3 DEF W!Remember
  <2>2. review' = [at |-> review'.at, todo |-> review'.todo, written |-> review'.written]
    BY <2>1 DEF WorkersInv
  <2> QED
    BY <2>1, <2>2, ReviewSteps
<1>4. ASSUME NEW s \in Sessions, W!ReviewSession(s) PROVE WorkersInv'
  <2>1. /\ UNCHANGED <<workers, thread, shutdown, wait>> /\ review.at = "session"
        /\ review' = [at |-> IF review.todo = {s} THEN "commit" ELSE "session",
                      todo |-> review.todo \ {s},
                      written |-> [review.written EXCEPT ![s] = W!BuildReviewReport(s)]]
    BY <1>4 DEF W!ReviewSession
  <2>2. review' = [at |-> review'.at, todo |-> review'.todo, written |-> review'.written]
    BY <2>1
  <2> QED
    BY <2>1, <2>2, ReviewSteps
<1>5. CASE W!RunReviewOnce
  <2>1. UNCHANGED <<workers, thread, shutdown, wait>> /\ review.at = "list"
    BY <1>5 DEF W!RunReviewOnce
  <2>2. review' = [at |-> review'.at, todo |-> review'.todo, written |-> review'.written]
    BY <1>5 DEF W!RunReviewOnce
  <2> QED
    BY <2>1, <2>2, ReviewSteps
<1>6. CASE W!CommitReview \/ W!ReviewFails \/ W!LoopWakes
  <2>1. UNCHANGED <<workers, thread, shutdown, wait>> /\ review.at # "off"
    BY <1>6 DEF W!CommitReview, W!ReviewFails, W!LoopWakes
  <2>2. review' = [at |-> review'.at, todo |-> review'.todo, written |-> review'.written]
    BY <1>6 DEF W!CommitReview, W!ReviewFails, W!LoopWakes, WorkersInv
  <2> QED
    BY <2>1, <2>2, ReviewSteps
<1> QED
  BY <1>1, <1>2, <1>3, <1>4, <1>5, <1>6, RegisterStep, StartStep, LeavesStep,
     ShutdownStep, LooksStep, JoinsStep, LoopStep DEF W!Next

LEMMA LoopEndsInShutdown ==
    ASSUME WorkersInv, W!Next,
           thread[Loop] = "running", thread'[Loop] # "running"
    PROVE  shutdown
<1>1. ASSUME NEW w \in Workers,
             W!Register(w) \/ W!StartThread(w) \/ W!TargetEnds(w) \/ W!RunnerLeaves(w)
      PROVE  FALSE
  <2>1. w # Loop
    BY <1>1 DEF W!Register, W!StartThread, W!TargetEnds, W!RunnerLeaves, WorkersInv
  <2> QED
    BY <1>1, <2>1 DEF W!Register, W!StartThread, W!TargetEnds, W!RunnerLeaves, WorkersInv
<1>2. CASE \/ W!BeginShutdown \/ W!WaitLooks \/ W!WaitJoins
           \/ \E s \in Sessions : W!Remember(s) \/ W!ReviewSession(s)
           \/ W!RunReviewOnce \/ W!CommitReview \/ W!ReviewFails \/ W!LoopWakes
           \/ W!Exited
  BY <1>2 DEF W!BeginShutdown, W!WaitLooks, W!WaitJoins, W!Remember, W!ReviewSession,
              W!RunReviewOnce, W!CommitReview, W!ReviewFails, W!LoopWakes,
              W!Exited, W!vars
<1> QED
  BY <1>1, <1>2, LoopStep DEF W!Next

\* However many workers there are: the review loop runs until shutdown, and
\* the wait never reports the workers gone while one runs, although the list
\* it reads is cleaned of threads that have not started
\* (start_background_worker, wait_for_background_workers, run_review_loop).
THEOREM ShutdownCorrect ==
    W!Spec => W!ReviewRunsUntilShutdown /\ []W!NobodyIsLeftBehind
<1>1. W!Init => WorkersInv
  BY InitWorkers
<1>2. WorkersInv /\ [W!Next]_(W!vars) => WorkersInv'
  BY WorkersStep
<1>3. WorkersInv => W!NobodyIsLeftBehind
  BY DEF WorkersInv
<1>4. WorkersInv /\ [W!Next]_(W!vars) =>
        [thread[Loop] = "running" /\ thread'[Loop] # "running" => shutdown]_(W!vars)
  BY LoopEndsInShutdown
<1> QED
  BY <1>1, <1>2, <1>3, <1>4, PTL DEF W!Spec, W!ReviewRunsUntilShutdown

\* The records and versions of the workers keep their types.
LEMMA WorkerTypesStep ==
    ASSUME WorkersInv, W!TypeOK, [W!Next]_(W!vars)
    PROVE  W!TypeOK'
<1>1. CASE UNCHANGED W!vars \/ W!Exited
  BY <1>1 DEF W!Exited, W!vars, W!TypeOK
<1>2. ASSUME NEW w \in Workers,
             W!Register(w) \/ W!StartThread(w) \/ W!TargetEnds(w) \/ W!RunnerLeaves(w)
      PROVE  W!TypeOK'
  <2>1. CASE W!StartThread(w)
    <3>1. /\ thread' = [thread EXCEPT ![w] = "running"]
          /\ UNCHANGED <<workers, shutdown, wait, rows, reports>>
          /\ review' = review \/ review' = [review EXCEPT !.at = "check"]
      BY <2>1 DEF W!StartThread
    <3>2. /\ review'.at \in {"off", "check", "list", "session", "commit", "sleep"}
          /\ review'.todo = review.todo /\ review'.written = review.written
      BY <3>1 DEF W!TypeOK, WorkersInv
    <3> QED
      BY <3>1, <3>2 DEF W!TypeOK
  <2>2. CASE W!Register(w)
    BY <2>2 DEF W!Register, W!TypeOK, W!CleanupFinishedWorkers, W!reviewVars
  <2>3. CASE W!TargetEnds(w) \/ W!RunnerLeaves(w)
    BY <2>3 DEF W!TargetEnds, W!RunnerLeaves, W!TypeOK, W!reviewVars
  <2> QED
    BY <1>2, <2>1, <2>2, <2>3
<1>3. CASE W!BeginShutdown \/ W!WaitLooks \/ W!WaitJoins
  <2>1. /\ workers' \subseteq Workers /\ UNCHANGED <<thread, rows, reports, review>>
        /\ shutdown' \in BOOLEAN
    BY <1>3 DEF W!BeginShutdown, W!WaitLooks, W!WaitJoins, W!TypeOK,
                W!CleanupFinishedWorkers, W!reviewVars
  <2>2. wait'.at \in {"none", "look", "join", "clear", "late"} /\ wait'.left \in 0..Slices
    <3>1. wait.left \in 0..Slices /\ wait = [at |-> wait.at, left |-> wait.left]
      BY DEF W!TypeOK, WorkersInv
    <3>2. CASE W!BeginShutdown
      BY <3>1, <3>2 DEF W!BeginShutdown
    <3>3. CASE W!WaitLooks
      BY <3>1, <3>3 DEF W!WaitLooks
    <3>4. CASE W!WaitJoins
      BY <3>1, <3>4 DEF W!WaitJoins
    <3> QED
      BY <1>3, <3>2, <3>3, <3>4
  <2> QED
    BY <2>1, <2>2 DEF W!TypeOK
<1>4. ASSUME NEW s \in Sessions, W!Remember(s) PROVE W!TypeOK'
  BY <1>4 DEF W!Remember, W!TypeOK
<1>5. ASSUME NEW s \in Sessions, W!ReviewSession(s) PROVE W!TypeOK'
  <2>1. review'.written = [review.written EXCEPT ![s] = rows[s]]
    BY <1>5 DEF W!ReviewSession, W!BuildReviewReport
  <2>2. review'.written \in [Sessions -> 0..MaxVersion]
    BY <2>1 DEF W!TypeOK
  <2>3. review'.at \in {"commit", "session"} /\ review'.todo \subseteq Sessions
    BY <1>5 DEF W!ReviewSession, W!TypeOK
  <2> QED
    BY <1>5, <2>2, <2>3 DEF W!ReviewSession, W!TypeOK
<1>6. CASE W!LoopChecks \/ W!RunReviewOnce
  BY <1>6 DEF W!LoopChecks, W!RunReviewOnce, W!TypeOK, WorkersInv
<1>7. CASE W!CommitReview \/ W!ReviewFails \/ W!LoopWakes
  BY <1>7 DEF W!CommitReview, W!ReviewFails, W!LoopWakes, W!TypeOK, WorkersInv
<1> QED
  BY <1>1, <1>2, <1>3, <1>4, <1>5, <1>6, <1>7 DEF W!Next

\* Whatever happens in the process, the variables of the breaker, of planning
\* and of the workers keep their types: a breaker's age and failures stay
\* within its limits, a plan has a verdict, a review writes versions there are.
THEOREM TypesCorrect == Spec /\ P!Spec /\ W!Spec => []AllTypesOK
<1>1. W!Init => WorkersInv /\ W!TypeOK
  <2> SUFFICES ASSUME W!Init PROVE W!TypeOK
    BY InitWorkers
  <2>1. shutdown \in BOOLEAN
    BY DEF W!Init
  <2>2. /\ workers \subseteq Workers /\ wait.at = "none" /\ wait.left \in 0..Slices
        /\ review.at = "off" /\ review.todo = {} /\ review.written = reports
        /\ thread \in [Workers -> {"new", "added", "running", "leaving", "gone"}]
    BY DEF W!Init
  <2>3. /\ rows \in [Sessions -> 0..MaxVersion]
        /\ reports \in [Sessions -> 0..MaxVersion]
    BY DEF W!Init
  <2> QED
    BY <2>1, <2>2, <2>3 DEF W!TypeOK
<1>2. WorkersInv /\ W!TypeOK /\ [W!Next]_(W!vars) => WorkersInv' /\ W!TypeOK'
  BY WorkersStep, WorkerTypesStep
<1>3. PlanningInv => P!TypeOK
  BY DEF PlanningInv, PlanningTypes
<1>4. TypeOK /\ P!TypeOK /\ W!TypeOK => AllTypesOK
  BY DEF AllTypesOK
<1> QED
  BY <1>1, <1>2, <1>3, <1>4, TypeCorrect, PlanningInvariance, PTL DEF W!Spec
=============================================================================

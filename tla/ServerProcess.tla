---------------------------- MODULE ServerProcess ----------------------------
(***************************************************************************)
(* What lives in one server process: the circuit breaker of a provider,    *)
(* the planning of one turn with its model calls, the background threads.  *)
(* They share no state: a call that planning waits for is one of those     *)
(* the breaker counts, but neither looks at the other's variables, and     *)
(* together they do what Spec /\ P!Spec /\ W!Spec says.                    *)
(***************************************************************************)
EXTENDS CircuitBreaker, Sequences

CONSTANTS Answers, Planners, TmpRefs, AutoRef, Player, EndedQuests, MaxPatchOps,
          Workers, Loop, Sessions, MaxVersion, Slices

VARIABLES planner, step, draft, longText, repairs, tx, plan,
          workers, thread, shutdown, wait, rows, reports, review

P == INSTANCE TurnPlanning
W == INSTANCE BackgroundWorkers

ASSUME PlanningAssumption ==
    /\ \A a \in Answers : a.form \in {"good", "bad"}
    /\ \A a \in Answers : a.ops \in Seq({a.ops[i] : i \in DOMAIN a.ops})
    /\ Planners \subseteq {"debug", "travel", "state_first", "split", "legacy"}

ASSUME WorkersAssumption ==
    Loop \in Workers /\ MaxVersion \in Nat \ {0} /\ Slices \in Nat

planningVars == <<planner, step, draft, longText, repairs, tx, plan>>
workersVars == <<workers, thread, shutdown, wait, rows, reports, review>>

\* The variables of all three keep their types.
AllTypesOK == TypeOK /\ P!TypeOK /\ W!TypeOK

\* See TurnPlanning.
PlanIsSound == P!PlanIsSound
StoryMatchesPatch == P!StoryMatchesPatch
CallsHoldNoTransaction == P!CallsHoldNoTransaction

\* See BackgroundWorkers.
ShutdownIsOrderly == W!ShutdownIsOrderly
=============================================================================

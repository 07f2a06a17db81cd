-------------------------- MODULE WorldDirectorProofs --------------------------
(***************************************************************************)
(* However often events are delivered again and processes die, a running   *)
(* agenda keeps the one event that will run it, and an NPC acts once on an *)
(* agenda and once more for every process that died.                       *)
(***************************************************************************)
EXTENDS WorldDirector, TLAPS

USE ChainAssumption, LimitsAssumption, BoundsAssumption

-----------------------------------------------------------------------------
(* The inductive invariant. *)

Keys == WorldTicks \cup NpcTicks

\* An event that has used up its attempts is no longer pending.
BoxOK(box) ==
    /\ DOMAIN box \subseteq Keys
    /\ \A key \in DOMAIN box: box[key] \in Event
    /\ \A key \in DOMAIN box:
          box[key].state = "pending" => box[key].attempts < MaxAttempts

\* The tick of an agenda still to be delivered is the one the agenda waits
\* for, unless the agenda is closed; only a closed agenda's tick is done with.
TicksHaveAgendas ==
    \A key \in DOMAIN outbox: key.kind = "npc" =>
        /\ outbox[key].state = "pending" =>
              \/ status[key.agenda] = "closed"
              \/ status[key.agenda] = "running" /\ active[key.agenda] = key
        /\ outbox[key].state = "processed" => status[key.agenda] = "closed"

RunningHasATick ==
    \A a \in Agendas:
        status[a] = "running" =>
            /\ active[a] \in DOMAIN outbox
            /\ active[a].kind = "npc" /\ active[a].agenda = a

\* Between the director turn and the close nobody else touches the agenda.
HandlerHoldsItsAgenda ==
    handler # NoKey => Pending(handler) /\ status[handler.agenda] = "running"

ActedFor(a) ==
    \/ status[a] = "closed"
    \/ handler.kind = "npc" /\ handler.agenda = a

\* A director turn that closed nothing was paid for by a crash.
TurnsAreAccountedFor ==
    \A a \in Agendas:
        /\ ActedFor(a) => runs[a] <= 1 + crashes
        /\ ~ActedFor(a) => runs[a] <= crashes

\* An agenda that competes again has waited long enough.
OpenHasWaited ==
    \A a \in Agendas:
        /\ status[a] = "none" => until[a] = 0
        /\ status[a] = "open" => until[a] = 0 \/ turn > until[a]

IInv ==
    /\ TypeOK /\ BoxOK(outbox)
    /\ TicksHaveAgendas /\ RunningHasATick
    /\ HandlerHoldsItsAgenda /\ TurnsAreAccountedFor /\ OpenHasWaited
-----------------------------------------------------------------------------
(* Keys and the outbox. *)

\* The kind of a dedupe key tells the two kinds of events apart, and a tick
\* of an agenda names it (_npc_tick_dedupe_key).
LEMMA KeyKinds ==
    ASSUME NEW key \in Keys
    PROVE  /\ key \in NpcTicks <=> key.kind = "npc"
           /\ key \in WorldTicks <=> key.kind = "world"
           /\ key # NoKey
           /\ key.kind = "npc" => key.agenda \in Agendas
           /\ key.by \in Turns
           /\ key.kind = "world" => key.depth \in Depths
BY DEF Keys, WorldTicks, NpcTicks, WorldTick, NpcTick, NoKey

\* Enqueueing keeps the events there are and adds pending ones
\* (enqueue_outbox_event).
LEMMA EnqueuedBox ==
    ASSUME NEW box, BoxOK(box),
           NEW keys \in SUBSET Keys, NEW depth \in Depths
    PROVE  LET more == Enqueued(box, keys, depth)
           IN  /\ BoxOK(more)
               /\ DOMAIN more = DOMAIN box \cup keys
               /\ \A key \in DOMAIN box: more[key] = box[key]
               /\ \A key \in keys \ DOMAIN box: more[key].state = "pending"
<1> DEFINE more == Enqueued(box, keys, depth)
           fresh == [state |-> "pending", attempts |-> 0, depth |-> depth]
<1>1. fresh \in Event /\ fresh.attempts < MaxAttempts
  BY DEF Event
<1>2. DOMAIN more = DOMAIN box \cup keys
  BY DEF Enqueued
<1>3. /\ \A key \in DOMAIN box: more[key] = box[key]
      /\ \A key \in keys \ DOMAIN box: more[key] = fresh
  BY DEF Enqueued
<1>4. fresh.state = "pending"
  OBVIOUS
<1> HIDE DEF more, fresh
<1>5. BoxOK(more)
  BY <1>1, <1>2, <1>3 DEF BoxOK
<1>6. \A key \in keys \ DOMAIN box: more[key].state = "pending"
  BY <1>3, <1>4
<1> QED
  BY <1>2, <1>3, <1>5, <1>6 DEF more

\* A delivery that failed changes its own event only, and gives it up for
\* good when the last attempt is spent (the outbox worker).
LEMMA UnacknowledgedBox ==
    ASSUME NEW box, BoxOK(box), NEW key \in DOMAIN box,
           box[key].state = "pending"
    PROVE  LET after == Unacknowledged(box, key)
           IN  /\ BoxOK(after) /\ DOMAIN after = DOMAIN box
               /\ \A other \in DOMAIN box \ {key}: after[other] = box[other]
               /\ after[key].state # "processed"
<1> DEFINE after == Unacknowledged(box, key)
           tried == box[key].attempts + 1
<1>1. box[key] \in Event /\ box[key].attempts < MaxAttempts
  BY DEF BoxOK
<1>2. tried \in 0..MaxAttempts
  BY <1>1 DEF Event
<1>3. after = [box EXCEPT ![key] =
                  [[@ EXCEPT !.attempts = tried] EXCEPT
                        !.state = IF tried < MaxAttempts THEN "pending"
                                  ELSE "failed"]]
  BY <1>1 DEF Unacknowledged, Event
<1>4. /\ DOMAIN after = DOMAIN box
      /\ \A other \in DOMAIN box \ {key}: after[other] = box[other]
  BY DEF Unacknowledged
<1>5. /\ after[key] \in Event
      /\ after[key].state = IF tried < MaxAttempts THEN "pending" ELSE "failed"
      /\ after[key].attempts = tried
  BY <1>1, <1>2, <1>3 DEF Event
<1> HIDE DEF after, tried
<1>6. BoxOK(after)
  BY <1>4, <1>5 DEF BoxOK
<1> QED
  BY <1>4, <1>5, <1>6 DEF after

\* A delivery that succeeded changes its own event only.
LEMMA AcknowledgedBox ==
    ASSUME NEW box, BoxOK(box), NEW key \in DOMAIN box
    PROVE  LET after == Acknowledged(box, key)
           IN  /\ BoxOK(after) /\ DOMAIN after = DOMAIN box
               /\ \A other \in DOMAIN box \ {key}: after[other] = box[other]
<1> DEFINE after == Acknowledged(box, key)
<1>1. box[key] \in Event
  BY DEF BoxOK
<1>2. /\ DOMAIN after = DOMAIN box
      /\ \A other \in DOMAIN box \ {key}: after[other] = box[other]
  BY DEF Acknowledged
<1>3. after[key] \in Event /\ after[key].state = "processed"
  BY <1>1 DEF Acknowledged, Event
<1> HIDE DEF after
<1>4. BoxOK(after)
  BY <1>2, <1>3 DEF BoxOK
<1> QED
  BY <1>2, <1>4 DEF after

\* However a delivery ends, the other events stay as they are.
LEMMA DeliveredBox ==
    ASSUME NEW box, BoxOK(box), NEW key \in DOMAIN box,
           box[key].state = "pending",
           crashes \in 0..MaxCrashes, Delivered(box, key)
    PROVE  /\ BoxOK(outbox') /\ DOMAIN outbox' = DOMAIN box
           /\ \A other \in DOMAIN box \ {key}: outbox'[other] = box[other]
           /\ crashes' \in 0..MaxCrashes /\ crashes <= crashes'
<1>1. CASE outbox' = Acknowledged(box, key) /\ UNCHANGED crashes
  BY <1>1, AcknowledgedBox
<1>2. CASE /\ crashes < MaxCrashes
           /\ crashes' = crashes + 1
           /\ outbox' = Unacknowledged(box, key)
  BY <1>2, UnacknowledgedBox
<1> QED
  BY <1>1, <1>2 DEF Delivered
-----------------------------------------------------------------------------
(* Each action preserves the invariant. *)

LEMMA InitInv == Init => IInv
<1> SUFFICES ASSUME Init PROVE IInv
  OBVIOUS
<1>1. TypeOK
  BY DEF Init, TypeOK, Turns
<1>2. BoxOK(outbox) /\ TicksHaveAgendas /\ HandlerHoldsItsAgenda
  BY DEF Init, BoxOK, TicksHaveAgendas, HandlerHoldsItsAgenda
<1>3. RunningHasATick /\ TurnsAreAccountedFor /\ OpenHasWaited
  BY DEF Init, RunningHasATick, TurnsAreAccountedFor, OpenHasWaited,
         ActedFor, NoKey
<1> QED
  BY <1>1, <1>2, <1>3 DEF IInv

\* A player's turn moves the clock and adds a world tick.
LEMMA PlayerTurnInv ==
    ASSUME IInv, PlayerTurn
    PROVE  IInv'
<1> USE DEF IInv
<1>1. /\ turn \in Turns /\ turn' = turn + 1 /\ turn' \in Turns
      /\ due' \subseteq Agendas
  BY DEF PlayerTurn, TypeOK, Turns
<1>2. {WorldTick(turn + 1, 0)} \in SUBSET Keys
  BY <1>1 DEF Keys, WorldTicks, Depths
<1>3. /\ BoxOK(outbox')
      /\ DOMAIN outbox' = DOMAIN outbox \cup {WorldTick(turn + 1, 0)}
      /\ \A key \in DOMAIN outbox: outbox'[key] = outbox[key]
  <2>1. /\ outbox' = Enqueued(outbox, {WorldTick(turn + 1, 0)}, 0)
        /\ 0 \in Depths
    BY DEF PlayerTurn, Depths
  <2> QED
    BY <1>2, <2>1, EnqueuedBox
<1>4. UNCHANGED <<status, active, until, handler, runs, crashes>>
  BY DEF PlayerTurn, agendaVars
<1>5. TypeOK'
  BY <1>1, <1>3, <1>4 DEF TypeOK, BoxOK, Keys
<1>6. TicksHaveAgendas'
  BY <1>3, <1>4 DEF TicksHaveAgendas, WorldTick
<1>7. RunningHasATick' /\ HandlerHoldsItsAgenda'
  BY <1>3, <1>4 DEF RunningHasATick, HandlerHoldsItsAgenda, Pending
<1>8. TurnsAreAccountedFor'
  BY <1>4 DEF TurnsAreAccountedFor, ActedFor
<1>9. OpenHasWaited'
  BY <1>1, <1>4 DEF OpenHasWaited, TypeOK, Turns
<1> QED
  BY <1>3, <1>5, <1>6, <1>7, <1>8, <1>9

\* What the world tick does to each agenda
\* (_refresh_or_materialize_agendas, _schedule_due_agendas).
AgendaStep(a, key, best) ==
    /\ status'[a] = IF LostItsEvent(a) THEN "suppressed"
                    ELSE IF a \in best THEN "running"
                    ELSE Refreshed(a)
    /\ active'[a] = IF LostItsEvent(a) THEN NoKey
                    ELSE IF a \in best THEN NpcTick(a, key.by)
                    ELSE active[a]
    /\ until'[a] = IF LostItsEvent(a) THEN turn + 1 ELSE until[a]

LEMMA RunWorldTickInv ==
    ASSUME IInv, NEW key \in DOMAIN outbox, RunWorldTick(key)
    PROVE  IInv'
<1> USE DEF IInv
<1>1. PICK best \in SUBSET {a \in Agendas: Schedulable(a)}:
          /\ status' = [a \in Agendas |->
                IF LostItsEvent(a) THEN "suppressed"
                ELSE IF a \in best THEN "running"
                ELSE Refreshed(a)]
          /\ active' = [a \in Agendas |->
                IF LostItsEvent(a) THEN NoKey
                ELSE IF a \in best THEN NpcTick(a, key.by)
                ELSE active[a]]
          /\ Delivered(Enqueued(outbox, {NpcTick(a, key.by): a \in best},
                                key.depth + 1), key)
  BY DEF RunWorldTick
<1> DEFINE ticks == {NpcTick(a, key.by): a \in best}
           depth == key.depth + 1
           box == Enqueued(outbox, ticks, depth)
<1>2. /\ Pending(key) /\ key.kind = "world" /\ handler = NoKey
      /\ key.depth < MaxChainDepth
      /\ until' = [a \in Agendas |-> IF LostItsEvent(a) THEN turn + 1
                                     ELSE until[a]]
      /\ UNCHANGED <<turn, due, handler, runs>>
  BY DEF RunWorldTick
<1>3. key \in Keys /\ key.by \in Turns /\ key.depth + 1 \in Depths
  BY <1>2, KeyKinds DEF BoxOK, Depths
<1>4. ticks \in SUBSET Keys
  BY <1>3 DEF NpcTicks, Keys
<1>5. \A a \in best: NpcTick(a, key.by) \in ticks
  OBVIOUS
<1>6. \A k \in ticks: \E a \in best: k = NpcTick(a, key.by)
  OBVIOUS
<1> HIDE DEF ticks
<1>7. /\ BoxOK(box) /\ DOMAIN box = DOMAIN outbox \cup ticks
      /\ \A k \in DOMAIN outbox: box[k] = outbox[k]
      /\ \A k \in ticks \ DOMAIN outbox: box[k].state = "pending"
  <2>1. BoxOK(outbox) /\ depth \in Depths
    BY <1>3
  <2> HIDE DEF IInv, depth
  <2> QED
    BY <1>4, <2>1, EnqueuedBox
<1>8. Delivered(box, key)
  BY <1>1 DEF ticks
<1> HIDE DEF box
<1>9. /\ BoxOK(outbox') /\ DOMAIN outbox' = DOMAIN outbox \cup ticks
      /\ \A k \in DOMAIN box \ {key}: outbox'[k] = box[k]
      /\ crashes' \in 0..MaxCrashes /\ crashes <= crashes'
  BY <1>2, <1>7, <1>8, DeliveredBox DEF Pending, TypeOK
<1>10. \A a \in Agendas: AgendaStep(a, key, best)
  BY <1>1, <1>2 DEF AgendaStep
<1>11. \A a \in best: ~LostItsEvent(a) /\ Refreshed(a) = "open" /\ a \in Agendas
  BY DEF Schedulable
<1>12. \A a \in Agendas:
          /\ Refreshed(a) = status[a] \/ Refreshed(a) = "open"
          /\ status[a] \in {"open", "running", "closed"}
                => Refreshed(a) = status[a]
          /\ LostItsEvent(a) => status[a] = "running" /\ Failed(active[a])
  BY DEF Refreshed, LostItsEvent
<1>13. TypeOK'
  <2>1. status' \in
           [Agendas -> {"none", "open", "running", "closed", "suppressed"}]
    BY <1>1, <1>12 DEF TypeOK
  <2>2. active' \in [Agendas -> NpcTicks \cup {NoKey}]
    BY <1>1, <1>3 DEF TypeOK, NpcTicks
  <2>3. until' \in [Agendas -> 0..(MaxTurn + 1)]
    BY <1>2 DEF TypeOK, Turns
  <2> QED
    BY <1>2, <1>9, <2>1, <2>2, <2>3 DEF TypeOK, BoxOK, Keys
<1>14. TicksHaveAgendas'
  <2> SUFFICES ASSUME NEW k \in DOMAIN outbox', k.kind = "npc"
               PROVE  /\ outbox'[k].state = "pending" =>
                            \/ status'[k.agenda] = "closed"
                            \/ /\ status'[k.agenda] = "running"
                               /\ active'[k.agenda] = k
                      /\ outbox'[k].state = "processed" =>
                            status'[k.agenda] = "closed"
    BY DEF TicksHaveAgendas
  <2>1. k # key /\ k.agenda \in Agendas /\ outbox'[k] = box[k]
    BY <1>2, <1>7, <1>9, KeyKinds DEF BoxOK
  <2>2. CASE k \in DOMAIN outbox
    <3>1. outbox'[k] = outbox[k]
      BY <1>7, <2>1, <2>2
    <3>2. AgendaStep(k.agenda, key, best)
      BY <1>10, <2>1
    <3>3. status[k.agenda] = "closed" => status'[k.agenda] = "closed"
      BY <1>11, <1>12, <2>1, <3>2 DEF AgendaStep
    <3>4. ASSUME outbox[k].state = "pending", status[k.agenda] = "running",
                 active[k.agenda] = k
          PROVE  status'[k.agenda] = "running" /\ active'[k.agenda] = k
      <4>1. ~LostItsEvent(k.agenda)
        BY <1>12, <2>1, <3>4 DEF Failed
      <4>2. Refreshed(k.agenda) = "running" /\ k.agenda \notin best
        BY <1>11, <1>12, <2>1, <3>4
      <4> QED
        BY <3>2, <3>4, <4>1, <4>2 DEF AgendaStep
    <3> QED
      BY <2>2, <3>1, <3>3, <3>4 DEF TicksHaveAgendas
  <2>3. CASE k \notin DOMAIN outbox
    <3>1. k \in ticks /\ outbox'[k].state = "pending"
      BY <1>7, <1>9, <2>1, <2>3
    <3>2. PICK a \in best: k = NpcTick(a, key.by)
      BY <1>6, <3>1
    <3>3. k.agenda = a
      BY <3>2 DEF NpcTick
    <3>4. status'[a] = "running" /\ active'[a] = NpcTick(a, key.by)
      BY <1>10, <1>11 DEF AgendaStep
    <3> QED
      BY <3>1, <3>2, <3>3, <3>4
  <2> QED
    BY <2>2, <2>3
<1>15. RunningHasATick'
  <2> SUFFICES ASSUME NEW a \in Agendas, status'[a] = "running"
               PROVE  /\ active'[a] \in DOMAIN outbox'
                      /\ active'[a].kind = "npc" /\ active'[a].agenda = a
    BY DEF RunningHasATick
  <2>1. AgendaStep(a, key, best)
    BY <1>10
  <2>2. CASE a \in best
    <3>1. active'[a] = NpcTick(a, key.by)
      BY <1>11, <2>1, <2>2 DEF AgendaStep
    <3>2. NpcTick(a, key.by) \in DOMAIN outbox'
      BY <1>5, <1>9, <2>2
    <3> QED
      BY <3>1, <3>2 DEF NpcTick
  <2>3. CASE a \notin best
    <3>1. status[a] = "running" /\ active'[a] = active[a]
      BY <1>12, <2>1, <2>3 DEF AgendaStep
    <3> QED
      BY <1>9, <3>1 DEF RunningHasATick
  <2> QED
    BY <2>2, <2>3
<1>16. HandlerHoldsItsAgenda'
  BY <1>2 DEF HandlerHoldsItsAgenda
<1>17. TurnsAreAccountedFor'
  <2> SUFFICES ASSUME NEW a \in Agendas
               PROVE  /\ ActedFor(a)' => runs'[a] <= 1 + crashes'
                      /\ ~ActedFor(a)' => runs'[a] <= crashes'
    BY DEF TurnsAreAccountedFor
  <2>1. runs'[a] = runs[a] /\ runs[a] \in Int /\ crashes \in Int
                           /\ crashes' \in Int
    BY <1>2, <1>9 DEF TypeOK
  <2>2. ActedFor(a)' <=> ActedFor(a)
    <3>1. status'[a] = "closed" <=> status[a] = "closed"
      BY <1>10, <1>11, <1>12 DEF AgendaStep
    <3> QED
      BY <1>2, <3>1 DEF ActedFor
  <2> QED
    BY <1>9, <2>1, <2>2 DEF TurnsAreAccountedFor
<1>18. OpenHasWaited'
  <2> SUFFICES ASSUME NEW a \in Agendas
               PROVE  /\ status'[a] = "none" => until'[a] = 0
                      /\ status'[a] = "open" => until'[a] = 0 \/ turn' > until'[a]
    BY DEF OpenHasWaited
  <2>1. AgendaStep(a, key, best)
    BY <1>10
  <2>2. CASE status'[a] = "none"
    BY <1>12, <2>1, <2>2 DEF AgendaStep, OpenHasWaited
  <2>3. CASE status'[a] = "open"
    <3>1. until'[a] = until[a] /\ Refreshed(a) = "open" /\ turn' = turn
      BY <1>2, <2>1, <2>3 DEF AgendaStep
    <3>2. until[a] = 0 \/ turn > until[a]
      BY <3>1 DEF Refreshed, OpenHasWaited
    <3> QED
      BY <3>1, <3>2, <2>3
  <2> QED
    BY <2>2, <2>3
<1> QED
  BY <1>9, <1>13, <1>14, <1>15, <1>16, <1>17, <1>18

\* The director turn is taken by the one handler there is.
LEMMA TakeDirectorTurnInv ==
    ASSUME IInv, NEW key \in DOMAIN outbox, TakeDirectorTurn(key)
    PROVE  IInv'
<1> USE DEF IInv
<1>1. /\ Pending(key) /\ key.kind = "npc" /\ handler = NoKey
      /\ status[key.agenda] = "running"
      /\ turn < MaxTurn /\ turn' = turn + 1 /\ due' \subseteq due
      /\ runs' = [runs EXCEPT ![key.agenda] = @ + 1]
      /\ handler' = key
      /\ UNCHANGED <<status, active, until, outbox, crashes>>
  BY DEF TakeDirectorTurn, StillWanted, agendaVars
<1>2. key \in NpcTicks /\ key.agenda \in Agendas /\ key # NoKey
  BY <1>1, KeyKinds DEF BoxOK
<1>3. TypeOK'
  BY <1>1, <1>2 DEF TypeOK, Turns
<1>4. BoxOK(outbox') /\ TicksHaveAgendas' /\ RunningHasATick'
  BY <1>1 DEF TicksHaveAgendas, RunningHasATick
<1>5. HandlerHoldsItsAgenda'
  BY <1>1 DEF HandlerHoldsItsAgenda, Pending
<1>6. TurnsAreAccountedFor'
  <2> SUFFICES ASSUME NEW a \in Agendas
               PROVE  /\ ActedFor(a)' => runs'[a] <= 1 + crashes'
                      /\ ~ActedFor(a)' => runs'[a] <= crashes'
    BY DEF TurnsAreAccountedFor
  <2>1. runs \in [Agendas -> Nat] /\ crashes \in Int
    BY DEF TypeOK
  <2>2. CASE a = key.agenda
    <3>1. ~ActedFor(a) /\ ActedFor(a)'
      BY <1>1, <2>2 DEF ActedFor, NoKey
    <3> QED
      BY <1>1, <2>1, <2>2, <3>1 DEF TurnsAreAccountedFor
  <2>3. CASE a # key.agenda
    <3>1. ActedFor(a) <=> ActedFor(a)'
      BY <1>1, <2>3 DEF ActedFor, NoKey
    <3> QED
      BY <1>1, <2>1, <2>3, <3>1 DEF TurnsAreAccountedFor
  <2> QED
    BY <2>2, <2>3
<1>7. OpenHasWaited'
  BY <1>1 DEF OpenHasWaited, TypeOK, Turns
<1> QED
  BY <1>3, <1>4, <1>5, <1>6, <1>7

\* What is skipped is the tick of a closed agenda.
LEMMA SkipNpcTickInv ==
    ASSUME IInv, NEW key \in DOMAIN outbox, SkipNpcTick(key)
    PROVE  IInv'
<1> USE DEF IInv
<1>1. /\ Pending(key) /\ key.kind = "npc" /\ handler = NoKey
      /\ status[key.agenda] # "running" /\ Delivered(outbox, key)
      /\ UNCHANGED <<turn, due, status, active, until, handler, runs>>
  BY DEF SkipNpcTick, StillWanted, agendaVars
<1>2. status[key.agenda] = "closed"
  BY <1>1 DEF TicksHaveAgendas, Pending
<1>3. /\ BoxOK(outbox') /\ DOMAIN outbox' = DOMAIN outbox
      /\ \A k \in DOMAIN outbox \ {key}: outbox'[k] = outbox[k]
      /\ crashes' \in 0..MaxCrashes /\ crashes <= crashes'
  BY <1>1, DeliveredBox DEF Pending, TypeOK
<1>4. TypeOK'
  BY <1>1, <1>3 DEF TypeOK, BoxOK, Keys
<1>5. TicksHaveAgendas'
  BY <1>1, <1>2, <1>3 DEF TicksHaveAgendas
<1>6. RunningHasATick' /\ HandlerHoldsItsAgenda' /\ OpenHasWaited'
  BY <1>1, <1>3 DEF RunningHasATick, HandlerHoldsItsAgenda, OpenHasWaited
<1>7. TurnsAreAccountedFor'
  <2>1. /\ \A a \in Agendas: runs[a] \in Int
        /\ crashes \in Int /\ crashes' \in Int
    BY <1>3 DEF TypeOK
  <2> QED
    BY <1>1, <1>3, <2>1 DEF TurnsAreAccountedFor, ActedFor
<1> QED
  BY <1>3, <1>4, <1>5, <1>6, <1>7

\* The close ends the agenda whether or not its delivery is acknowledged.
LEMMA CloseAgendaInv ==
    ASSUME IInv, NEW key \in DOMAIN outbox, CloseAgenda(key)
    PROVE  IInv'
<1> USE DEF IInv
<1> DEFINE box == Enqueued(outbox, NextTicks(key), outbox[key].depth)
           agenda == key.agenda
<1>1. /\ handler = key /\ handler' = NoKey
      /\ status' = [status EXCEPT ![agenda] = "closed"]
      /\ active' = [active EXCEPT ![agenda] = NoKey]
      /\ Delivered(box, key)
      /\ UNCHANGED <<turn, due, until, runs>>
  BY DEF CloseAgenda
<1>2. key \in NpcTicks /\ agenda \in Agendas /\ key.kind = "npc"
  <2>1. key \in Keys /\ key # NoKey
    BY KeyKinds DEF BoxOK
  <2> QED
    BY <1>1, <2>1, KeyKinds DEF TypeOK
<1>3. Pending(key) /\ status[agenda] = "running"
  <2>1. key # NoKey
    BY KeyKinds DEF BoxOK
  <2> QED
    BY <1>1, <2>1 DEF HandlerHoldsItsAgenda
<1>4. outbox[key].depth \in Depths /\ turn \in Turns
  BY DEF BoxOK, Event, TypeOK
<1>5. NextTicks(key) \in SUBSET WorldTicks
  BY <1>4 DEF NextTicks, WorldTicks
<1>6. /\ BoxOK(box) /\ DOMAIN box = DOMAIN outbox \cup NextTicks(key)
      /\ \A k \in DOMAIN outbox: box[k] = outbox[k]
  BY <1>4, <1>5, EnqueuedBox DEF Keys
<1> HIDE DEF box
<1>7. /\ BoxOK(outbox') /\ DOMAIN outbox' = DOMAIN outbox \cup NextTicks(key)
      /\ \A k \in DOMAIN box \ {key}: outbox'[k] = box[k]
      /\ crashes' \in 0..MaxCrashes /\ crashes <= crashes'
  BY <1>1, <1>3, <1>6, DeliveredBox DEF Pending, TypeOK
<1>8. \A k \in DOMAIN outbox':
          k.kind = "npc" => k \in DOMAIN outbox /\ k.agenda \in Agendas
  BY <1>5, <1>7, KeyKinds DEF BoxOK, Keys
<1>9. /\ status'[agenda] = "closed"
      /\ \A a \in Agendas \ {agenda}:
            status'[a] = status[a] /\ active'[a] = active[a]
  BY <1>1, <1>2 DEF TypeOK
<1>10. TypeOK'
  <2>1. status' \in
           [Agendas -> {"none", "open", "running", "closed", "suppressed"}]
    BY <1>1 DEF TypeOK
  <2>2. active' \in [Agendas -> NpcTicks \cup {NoKey}]
    BY <1>1 DEF TypeOK
  <2> QED
    BY <1>1, <1>7, <2>1, <2>2 DEF TypeOK, BoxOK, Keys
<1> HIDE DEF agenda
<1>11. TicksHaveAgendas'
  <2> SUFFICES ASSUME NEW k \in DOMAIN outbox', k.kind = "npc",
                      k.agenda # agenda
               PROVE  /\ outbox'[k].state = "pending" =>
                            \/ status'[k.agenda] = "closed"
                            \/ /\ status'[k.agenda] = "running"
                               /\ active'[k.agenda] = k
                      /\ outbox'[k].state = "processed" =>
                            status'[k.agenda] = "closed"
    BY <1>9 DEF TicksHaveAgendas
  <2>1. k # key
    BY DEF agenda
  <2>2. k \in DOMAIN outbox /\ outbox'[k] = outbox[k] /\ k.agenda \in Agendas
    BY <1>6, <1>7, <1>8, <2>1
  <2> QED
    BY <1>9, <2>2 DEF TicksHaveAgendas
<1>12. RunningHasATick'
  BY <1>7, <1>9 DEF RunningHasATick
<1>13. HandlerHoldsItsAgenda' /\ OpenHasWaited'
  BY <1>1, <1>9 DEF HandlerHoldsItsAgenda, OpenHasWaited
<1>14. TurnsAreAccountedFor'
  <2> SUFFICES ASSUME NEW a \in Agendas
               PROVE  /\ ActedFor(a)' => runs'[a] <= 1 + crashes'
                      /\ ~ActedFor(a)' => runs'[a] <= crashes'
    BY DEF TurnsAreAccountedFor
  <2>1. runs'[a] = runs[a] /\ runs[a] \in Int /\ crashes \in Int
                           /\ crashes' \in Int
    BY <1>1, <1>7 DEF TypeOK
  <2>2. ActedFor(a) <=> ActedFor(a)'
    BY <1>1, <1>2, <1>9 DEF ActedFor, agenda, NoKey
  <2> QED
    BY <1>7, <2>1, <2>2 DEF TurnsAreAccountedFor
<1> QED
  BY <1>7, <1>10, <1>11, <1>12, <1>13, <1>14

\* A process that dies before the close pays for the turn it took.
LEMMA DieBeforeCloseInv ==
    ASSUME IInv, NEW key \in DOMAIN outbox, DieBeforeClose(key)
    PROVE  IInv'
<1> USE DEF IInv
<1>1. /\ handler = key /\ handler' = NoKey
      /\ crashes < MaxCrashes /\ crashes' = crashes + 1
      /\ outbox' = Unacknowledged(outbox, key)
      /\ UNCHANGED <<turn, due, status, active, until, runs>>
  BY DEF DieBeforeClose, agendaVars
<1>2. Pending(key) /\ status[key.agenda] = "running"
  <2>1. key # NoKey
    BY KeyKinds DEF BoxOK
  <2> QED
    BY <1>1, <2>1 DEF HandlerHoldsItsAgenda
<1>3. /\ BoxOK(outbox') /\ DOMAIN outbox' = DOMAIN outbox
      /\ \A k \in DOMAIN outbox \ {key}: outbox'[k] = outbox[k]
      /\ outbox'[key].state # "processed"
  BY <1>1, <1>2, UnacknowledgedBox DEF Pending
<1>4. TypeOK'
  BY <1>1, <1>3 DEF TypeOK, BoxOK, Keys
<1>5. TicksHaveAgendas'
  BY <1>1, <1>2, <1>3 DEF TicksHaveAgendas, Pending
<1>6. RunningHasATick' /\ HandlerHoldsItsAgenda' /\ OpenHasWaited'
  BY <1>1, <1>3 DEF RunningHasATick, HandlerHoldsItsAgenda, OpenHasWaited
<1>7. TurnsAreAccountedFor'
  <2>1. (\A a \in Agendas: runs[a] \in Int) /\ crashes \in Int
    BY DEF TypeOK
  <2>2. \A a \in Agendas: runs[a] <= 1 + crashes
    BY <2>1 DEF TurnsAreAccountedFor
  <2> QED
    BY <1>1, <2>1, <2>2 DEF TurnsAreAccountedFor
<1> QED
  BY <1>3, <1>4, <1>5, <1>6, <1>7

\* A delivery that fails early leaves everything but its event alone.
LEMMA FailDeliveryInv ==
    ASSUME IInv, NEW key \in DOMAIN outbox, FailDelivery(key)
    PROVE  IInv'
<1> USE DEF IInv
<1>1. /\ Pending(key) /\ handler # key
      /\ outbox' = Unacknowledged(outbox, key)
      /\ UNCHANGED <<turn, due, status, active, until, handler, runs, crashes>>
  BY DEF FailDelivery, agendaVars
<1>2. /\ BoxOK(outbox') /\ DOMAIN outbox' = DOMAIN outbox
      /\ \A k \in DOMAIN outbox \ {key}: outbox'[k] = outbox[k]
      /\ outbox'[key].state # "processed"
  BY <1>1, UnacknowledgedBox DEF Pending
<1>3. TypeOK'
  BY <1>1, <1>2 DEF TypeOK, BoxOK, Keys
<1>4. TicksHaveAgendas'
  BY <1>1, <1>2 DEF TicksHaveAgendas, Pending
<1>5. HandlerHoldsItsAgenda'
  BY <1>1, <1>2 DEF HandlerHoldsItsAgenda, Pending
<1>6. RunningHasATick' /\ OpenHasWaited'
  BY <1>1, <1>2 DEF RunningHasATick, OpenHasWaited
<1>7. TurnsAreAccountedFor'
  BY <1>1 DEF TurnsAreAccountedFor, ActedFor
<1> QED
  BY <1>2, <1>3, <1>4, <1>5, <1>6, <1>7

LEMMA StutterInv ==
    ASSUME IInv, UNCHANGED vars
    PROVE  IInv'
<1>1. UNCHANGED <<turn, due, status, active, until, outbox, handler, runs,
                  crashes>>
  BY DEF vars, agendaVars
<1> QED
  BY <1>1 DEF IInv, TypeOK, BoxOK, TicksHaveAgendas, RunningHasATick,
              HandlerHoldsItsAgenda, TurnsAreAccountedFor, OpenHasWaited,
              Pending, ActedFor

LEMMA NextInv ==
    ASSUME IInv, [Next]_vars
    PROVE  IInv'
<1>1. CASE PlayerTurn
  BY <1>1, PlayerTurnInv
<1>2. ASSUME NEW key \in DOMAIN outbox, Deliver(key)
      PROVE  IInv'
  BY <1>2, RunWorldTickInv, TakeDirectorTurnInv, SkipNpcTickInv,
     FailDeliveryInv DEF Deliver
<1>3. ASSUME NEW key \in DOMAIN outbox, Finish(key)
      PROVE  IInv'
  BY <1>3, CloseAgendaInv, DieBeforeCloseInv DEF Finish
<1>4. CASE UNCHANGED vars
  BY <1>4, StutterInv
<1> QED
  BY <1>1, <1>2, <1>3, <1>4 DEF Next

LEMMA Invariance == Spec => []IInv
BY InitInv, NextInv, PTL DEF Spec
-----------------------------------------------------------------------------
(* The theorems. *)

\* Whatever is delivered twice and whoever dies, a running agenda has the one
\* event that will run it, and an NPC acts once on it and once more for every
\* crash (_schedule_due_agendas, _run_npc_agenda_tick_outbox_event).
THEOREM AgendasCorrect == Spec => []AgendaRunsAreSound
<1>1. IInv => AgendaRunsAreSound
  <2> SUFFICES ASSUME IInv, NEW a \in Agendas
               PROVE  /\ status[a] = "running" =>
                            /\ active[a] \in DOMAIN outbox
                            /\ outbox[active[a]].state # "processed"
                      /\ runs[a] <= 1 + crashes
    BY DEF IInv, AgendaRunsAreSound, RunningAgendaHasItsEvent, AgendaActsOnce
  <2>1. ASSUME status[a] = "running"
        PROVE  /\ active[a] \in DOMAIN outbox
               /\ outbox[active[a]].state # "processed"
    BY <2>1 DEF IInv, RunningHasATick, TicksHaveAgendas
  <2>2. runs[a] <= 1 + crashes
    <3>1. runs[a] \in Int /\ crashes \in Int
      BY DEF IInv, TypeOK
    <3> QED
      BY <3>1 DEF IInv, TurnsAreAccountedFor
  <2> QED
    BY <2>1, <2>2
<1> QED
  BY <1>1, Invariance, PTL

\* An agenda starts to run only when the turn its last failure was found out
\* in and the one after are past (suppressed_until_turn).
THEOREM BackoffCorrect == Spec => BacksOffAfterFailure
<1>1. ASSUME IInv, [Next]_vars
      PROVE  [\A a \in Agendas:
                 status'[a] = "running" /\ status[a] # "running"
                     => until[a] = 0 \/ turn > until[a]]_vars
  <2>1. ASSUME NEW key \in DOMAIN outbox, RunWorldTick(key),
               NEW a \in Agendas,
               status'[a] = "running", status[a] # "running"
        PROVE  until[a] = 0 \/ turn > until[a]
    <3>1. Refreshed(a) = "open" \/ Refreshed(a) = "running"
      <4>1. PICK best \in SUBSET {b \in Agendas: Schedulable(b)}:
                status' = [b \in Agendas |->
                    IF LostItsEvent(b) THEN "suppressed"
                    ELSE IF b \in best THEN "running"
                    ELSE Refreshed(b)]
        BY <2>1 DEF RunWorldTick
      <4>2. status'[a] = IF LostItsEvent(a) THEN "suppressed"
                         ELSE IF a \in best THEN "running"
                         ELSE Refreshed(a)
        BY <4>1
      <4>3. a \in best => Refreshed(a) = "open"
        BY <4>1 DEF Schedulable
      <4> QED
        BY <2>1, <4>2, <4>3
    <3> QED
      BY <1>1, <2>1, <3>1 DEF IInv, OpenHasWaited, Refreshed
  <2>2. ASSUME NEW key \in DOMAIN outbox, CloseAgenda(key),
               NEW a \in Agendas, status[a] # "running"
        PROVE  status'[a] # "running"
    BY <2>2 DEF CloseAgenda, IInv, TypeOK
  <2>3. ASSUME PlayerTurn
               \/ \E key \in DOMAIN outbox:
                     \/ TakeDirectorTurn(key) \/ SkipNpcTick(key)
                     \/ FailDelivery(key) \/ DieBeforeClose(key)
        PROVE  status' = status
    BY <2>3 DEF PlayerTurn, TakeDirectorTurn, SkipNpcTick, FailDelivery,
                DieBeforeClose, agendaVars
  <2> QED
    BY <1>1, <2>1, <2>2, <2>3 DEF Next, Deliver, Finish
<1> QED
  BY <1>1, Invariance, PTL DEF Spec, BacksOffAfterFailure
=============================================================================

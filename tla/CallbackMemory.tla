---------------------------- MODULE CallbackMemory ----------------------------
(***************************************************************************)
(* What the narrator remembers about the objects of a session              *)
(* (crud_continuity.py).  A turn that creates a link, a sword carried by   *)
(* the player, an ally, yields a fact; a job that every turn leaves in the *)
(* outbox turns the facts of the turn into callback rows, deactivates the  *)
(* rows whose link is gone and rebuilds the memory of every object it      *)
(* touched.  A callback the narrator has used rests for some turns.        *)
(*                                                                         *)
(* The job runs in one transaction that takes no session lock: it reads,   *)
(* computes and flushes at the end (autoflush is off), so turns commit in  *)
(* between.  One poller runs the jobs, in any order, again after a failure *)
(* and again when a turn is patched.  A fact here is named after the link  *)
(* it speaks of; facts whose anchors grow, or that no link grounds, are    *)
(* not modelled, nor are embeddings and bundles.                           *)
(***************************************************************************)
EXTENDS Integers, FiniteSets

CONSTANTS Objects,
          Facts,
          Anchors,     \* the two ends of a fact's link
          Grounds,     \* the links any of which keeps a fact true
          Rivals,      \* the links that close when a fact's link is created
          Derived,     \* the facts that creating their link states
          Lists,       \* the lists of an entity memory and what they are for
          Hidden,      \* the facts the narrator may not see
          MaxBullets,  \* ENTITY_HISTORY_MAX_BULLETS
          Cuts,        \* the ways to choose so many of a set of facts
          Cooldown,    \* CALLBACK_SOFT_COOLDOWN_TURNS
          MaxTurn,     \* bound on the turn index
          MaxRepeats   \* bound on failed jobs and patched turns

ASSUME AnchorsAssumption ==
    Anchors \in [Facts -> (SUBSET Objects) \ {{}}]
ASSUME GroundsAssumption ==
    /\ Grounds \in [Facts -> SUBSET Facts]
    /\ \A f \in Facts: f \in Grounds[f] /\ \A g \in Grounds[f]: Anchors[g] = Anchors[f]
ASSUME RivalsAssumption == Rivals \in [Facts -> SUBSET Facts] /\ Derived \subseteq Facts
ASSUME CooldownAssumption == Cooldown \in Nat \ {0}
ASSUME BoundsAssumption == MaxTurn \in Nat /\ MaxRepeats \in Nat

\* As many facts of a set as a list has room for.
Shortened(set) ==
    {s \in SUBSET set: \/ s = set /\ Cardinality(set) <= MaxBullets
                       \/ Cardinality(s) = MaxBullets /\ Cardinality(set) > MaxBullets}

ASSUME ListsAssumption ==
    /\ Lists \in [DOMAIN Lists -> SUBSET Facts] /\ Hidden \subseteq Facts
    /\ IsFiniteSet(Facts) /\ MaxBullets \in Nat
    /\ \A cut \in Cuts: \A set \in SUBSET Facts: cut[set] \in Shortened(set)

VARIABLES turn,      \* sessions.turn_index
          links,     \* the facts whose link is active
          fresh,     \* history: facts stated, by a turn, and true ever since
          log,       \* what the ai_json of every turn says happened
          queue,     \* turns with a memory job in the outbox
          job,       \* the running job: its turn, what it read, what it writes
          callbacks, \* the callback rows
          memories,  \* the lists of the entity memory of an object
          used,      \* history: the turn a callback was last used in, or 0
          erased,    \* history: callbacks whose last use a job wrote over with
                     \* what it had read before
          repeats    \* failures and patches so far

vars == <<turn, links, fresh, log, queue, job, callbacks, memories, used,
          erased, repeats>>

Turns == 1..MaxTurn
NoJob == [turn |-> 0]
Absent == [active |-> FALSE, source |-> 0, until |-> 0]
Rows == [active: BOOLEAN, source: 0..MaxTurn, until: 0..(MaxTurn + Cooldown)]
Memories == [DOMAIN Lists -> SUBSET Facts]

TypeOK ==
    /\ turn \in 0..MaxTurn
    /\ links \subseteq Facts /\ fresh \subseteq Facts /\ erased \subseteq Facts
    /\ log \in [Turns -> [stated: SUBSET Facts, changed: SUBSET Facts]]
    /\ queue \subseteq 1..turn
    /\ job = NoJob \/ job.turn \in 1..turn
    /\ callbacks \in [Facts -> Rows]
    /\ \A f \in Facts: callbacks[f].active => callbacks[f].source # 0
    /\ memories \in [Objects -> Memories]
    /\ used \in [Facts -> 0..MaxTurn]
    /\ repeats \in 0..MaxRepeats

Init ==
    /\ turn = 0
    /\ links = {} /\ fresh = {} /\ erased = {}
    /\ log = [n \in Turns |-> [stated |-> {}, changed |-> {}]]
    /\ queue = {}
    /\ job = NoJob
    /\ callbacks = [f \in Facts |-> Absent]
    /\ memories = [o \in Objects |-> [l \in DOMAIN Lists |-> {}]]
    /\ used = [f \in Facts |-> 0]
    /\ repeats = 0
-----------------------------------------------------------------------------
(***************************************************************************)
(* Turns, which commit with a job for their memories.                      *)
(***************************************************************************)

\* What the validation of a callback asks of the links.
Grounded(f, active) == Grounds[f] \cap active # {}

Turn(stated, changed, newLinks) ==
    /\ turn < MaxTurn
    /\ turn' = turn + 1
    /\ links' = newLinks
    /\ fresh' = {f \in fresh \cup stated: Grounded(f, newLinks)}
    /\ log' = [log EXCEPT ![turn + 1] =
                   [stated |-> stated, changed |-> changed]]
    /\ queue' = queue \cup {turn + 1}
    /\ UNCHANGED <<job, callbacks, memories, used, erased, repeats>>

\* A link is created; its rivals are closed by the same operation.  That an item
\* is carried becomes a fact only if the player carries it.
CreateLink(f) ==
    /\ f \notin links
    /\ LET closed == Rivals[f] \cap links
       IN  Turn({f} \cap Derived, {f} \cup closed, (links \ closed) \cup {f})

CloseLink(f) ==
    /\ f \in links
    /\ Turn({}, {f}, links \ {f})

\* The turn's memory candidates name a fact; the world does not change.
StateFact(f) == Turn({f}, {}, links)

\* The endpoint closes nothing, and no turn tells of the link.
PostLink(f) ==
    /\ f \notin links
    /\ links' = links \cup {f}
    /\ UNCHANGED <<turn, fresh, log, queue, job, callbacks, memories, used, erased,
                   repeats>>

\* PATCH of a turn: its job is due again, without a dedupe key.
PatchTurn(n) ==
    /\ repeats < MaxRepeats
    /\ n \in (1..turn) \ queue
    /\ queue' = queue \cup {n}
    /\ repeats' = repeats + 1
    /\ UNCHANGED <<turn, links, fresh, log, job, callbacks, memories, used, erased>>
-----------------------------------------------------------------------------
(***************************************************************************)
(* The narrator.                                                           *)
(***************************************************************************)

\* _build_memory_context_blocks
Usable(f) == callbacks[f].active /\ callbacks[f].until <= turn

\* Mutant: the cooldown is taken off the turn.
RestsBefore(n) == n - Cooldown

RestsUntil(n) == n + Cooldown

\* _mark_callback_recalled, in the transaction of the turn that used it.
UseCallback(f) ==
    /\ turn > 0
    /\ Usable(f)
    /\ callbacks' = [callbacks EXCEPT ![f].until = RestsUntil(turn)]
    /\ used' = [used EXCEPT ![f] = turn]
    /\ erased' = erased \ {f}
    /\ UNCHANGED <<turn, links, fresh, log, queue, job, memories, repeats>>
-----------------------------------------------------------------------------
(***************************************************************************)
(* The memory job of a turn, _sync_turn_memory_artifacts.                  *)
(***************************************************************************)

\* Mutant: only the facts a turn states are looked at, not its operations.
TouchedByFacts(n) == UNION {Anchors[f] : f \in log[n].stated}

\* The objects turn n touched: ends of its facts and of its link operations.
Touched(n) == UNION {Anchors[f] : f \in log[n].stated \cup log[n].changed}

\* Mutant: a fact that is stated again starts afresh.
UpsertedAfresh(n) ==
    [f \in Facts |-> IF f \in log[n].stated
                     THEN [active |-> TRUE, source |-> n, until |-> 0]
                     ELSE callbacks[f]]

\* _upsert_callback_memory_rows
Upserted(n) ==
    [f \in Facts |-> IF f \in log[n].stated
                     THEN [callbacks[f] EXCEPT !.active = TRUE, !.source = n]
                     ELSE callbacks[f]]

\* _invalidate_callback_rows, after the upsert.
Validated(n) ==
    [f \in Facts |->
        IF Anchors[f] \cap Touched(n) # {} /\ ~Grounded(f, links)
        THEN [Upserted(n)[f] EXCEPT !.active = FALSE]
        ELSE Upserted(n)[f]]

\* What there is to list about an object.
Visible(rows, o, l) ==
    {f \in Lists[l] \ Hidden : o \in Anchors[f] /\ rows[f].active}

\* Mutant: the memories are rebuilt before the rows are validated.
RebuiltEarly(n, cut) ==
    [o \in Touched(n) |-> [l \in DOMAIN Lists |-> cut[Visible(Upserted(n), o, l)]]]

\* _rebuild_entity_memory_rows, for the objects the turn touched.
Rebuilt(n, cut) ==
    [o \in Touched(n) |-> [l \in DOMAIN Lists |-> cut[Visible(Validated(n), o, l)]]]

BeginSync(n) ==
    /\ job = NoJob
    /\ n \in queue
    /\ queue' = queue \ {n}
    /\ \E cut \in Cuts:
          job' = [turn |-> n, read |-> callbacks,
                  rows |-> Validated(n), memories |-> Rebuilt(n, cut)]
    /\ UNCHANGED <<turn, links, fresh, log, callbacks, memories, used, erased, repeats>>

\* A row is written whole, and only if the job changed it.
Written == {f \in Facts : job.rows[f] # job.read[f]}

CommitSync ==
    /\ job # NoJob
    /\ callbacks' = [f \in Facts |-> IF f \in Written THEN job.rows[f]
                                     ELSE callbacks[f]]
    /\ memories' = [o \in Objects |-> IF o \in DOMAIN job.memories
                                      THEN job.memories[o] ELSE memories[o]]
    /\ erased' = erased \cup {f \in Written : job.read[f].until # callbacks[f].until}
    /\ job' = NoJob
    /\ UNCHANGED <<turn, links, fresh, log, queue, used, repeats>>

\* The transaction rolls back and the event is due again.
FailSync ==
    /\ job # NoJob
    /\ repeats < MaxRepeats
    /\ queue' = queue \cup {job.turn}
    /\ job' = NoJob
    /\ repeats' = repeats + 1
    /\ UNCHANGED <<turn, links, fresh, log, callbacks, memories, used, erased>>
-----------------------------------------------------------------------------
Next ==
    \/ \E f \in Facts: \/ CreateLink(f)
                       \/ CloseLink(f)
                       \/ StateFact(f)
                       \/ PostLink(f)
                       \/ UseCallback(f)
    \/ \E n \in Turns: PatchTurn(n) \/ BeginSync(n)
    \/ CommitSync
    \/ FailSync

Spec == Init /\ [][Next]_vars
-----------------------------------------------------------------------------
(***************************************************************************)
(* Properties.                                                             *)
(***************************************************************************)

Quiet == queue = {} /\ job = NoJob

\* Once the jobs have run, in whatever order, late, twice, with turns
\* committing under them, nothing that ended is brought up as if it had not (the
\* invalidation of crud_continuity.py:1527), and nothing that was stated and
\* has been true since is forgotten.
CallbacksMatchTheWorld ==
    Quiet => \A f \in Facts: /\ callbacks[f].active => Grounded(f, links)
                             /\ f \in fresh => callbacks[f].active

\* ... and the memory of every object, which goes into the prompt as it is,
\* lists what may be brought up about the object, as far as its lists have room.
MemoriesMatchTheWorld ==
    Quiet => \A o \in Objects: \A l \in DOMAIN Lists:
                 memories[o][l] \in Shortened(Visible(callbacks, o, l))

\* What a session remembers beside its graph is what the graph says.
MemoryMatchesTheWorld == CallbacksMatchTheWorld /\ MemoriesMatchTheWorld

Rests(f) == used[f] # 0 /\ used'[f] # used[f] => used'[f] >= used[f] + Cooldown

\* "Callback cooldown and recall bookkeeping ... are still applied after
\* surfaced callback rows are used": a callback is not used again before it
\* has rested.
CallbacksRest == [][\A f \in Facts: Rests(f)]_vars

\* However often its fact is stated, ended and begun again, and its jobs fail
\* and are repeated, a callback rests, unless a job wrote over its last use with
\* the row it had read before: jobs and turns hold no common lock.
OnlyOverlapsDisturb == [][\A f \in Facts: f \in erased \/ Rests(f)]_vars
=============================================================================

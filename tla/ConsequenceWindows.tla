-------------------------- MODULE ConsequenceWindows --------------------------
(***************************************************************************)
(* Delayed consequences (crud_consequences.py): windows of turns in which  *)
(* the narrator may be reminded of something it once intended, each a      *)
(* limited number of times, and the structural signals it gets about the   *)
(* last turn's operations.                                                 *)
(*                                                                         *)
(* The turn pipeline that calls these functions is outside src/: it is     *)
(* taken to select once per turn, to show some of the selected windows,    *)
(* and, when the turn commits, to report the results before it stores new  *)
(* intents.  The order by score is abstracted to any choice within the     *)
(* budget.                                                                 *)
(***************************************************************************)
EXTENDS Integers, FiniteSets

CONSTANTS Keys,     \* intent keys, which models may use again
          Budget,
          Span,     \* MAX_CONSEQUENCE_WINDOW_SPAN
          MaxDepth, \* MAX_CONSEQUENCE_CHAIN_DEPTH
          Shows,    \* values of max_shows
          Objects,  \* ids of objects with a trigger
          Refs,     \* temporary references
          MaxTurn   \* bound

VARIABLES turn,
          windows, \* the rows by key, or None
          picked,  \* the windows selected for this turn
          applied, \* results of this turn are in
          world,   \* the objects there are
          signals, \* of the turn before
          told,    \* history: turns that showed the window
          settled, \* history: those of them that resolved it, too
          opened,  \* history: times an intent made it or opened it again
          granted  \* history: the most shows an intent has asked for

history == <<told, settled, opened, granted>>
vars == <<turn, windows, picked, applied, world, signals, history>>

Turns == 0..MaxTurn
None == [status |-> "none"]
Most(a, b) == IF a > b THEN a ELSE b
Least(a, b) == IF a < b THEN a ELSE b

\* A signal names an object that is there, never a reference of the plan.
TypeOK ==
    /\ turn \in Turns
    /\ \A k \in Keys :
          \/ windows[k] = None
          \/ /\ windows[k].status \in
                   {"open", "shown", "resolved", "expired", "suppressed"}
             /\ windows[k].earliest <= windows[k].latest
             /\ windows[k].shows \in Nat
    /\ picked \subseteq Keys
    /\ Cardinality(picked) <= Budget
    /\ world \subseteq Objects
    /\ \A s \in signals : s.object \in world
    /\ {told, settled, opened} \subseteq [Keys -> Nat]

Init ==
    /\ turn = 0
    /\ windows = [k \in Keys |-> None]
    /\ picked = {}
    /\ applied = FALSE
    /\ world = {}
    /\ signals = {}
    /\ told = [k \in Keys |-> 0] /\ settled = [k \in Keys |-> 0]
    /\ opened = [k \in Keys |-> 0] /\ granted = [k \in Keys |-> 0]

consequenceVars == <<windows, picked, applied, history>>
-----------------------------------------------------------------------------
(***************************************************************************)
(* Windows.                                                                *)
(***************************************************************************)

\* _coerce_consequence_intent: an intent whose turns are in the wrong order
\* is dropped.
Intents ==
    {i \in [earliest : Turns, latest : Turns, max : Shows] :
        i.earliest <= i.latest}

NewWindow(i, depth) ==
    [status |-> "open", earliest |-> i.earliest,
     latest |-> Least(i.latest, i.earliest + Span),
     shows |-> 0, max |-> i.max, depth |-> depth, until |-> -1]

\* Mutant: an intent with a known key starts its window afresh.
MaterializedAfresh(old, new) == new

\* An intent with a known key moves its window and opens it again, but what
\* has been shown stays counted and what rests goes on resting.
Materialized(old, new) ==
    IF old = None THEN new
    ELSE [new EXCEPT !.shows = old.shows,
                     !.until = old.until,
                     !.status = IF old.status \in {"shown", "suppressed"}
                                THEN old.status ELSE "open"]

IsOver(k) == windows[k] = None \/ windows[k].status \in {"resolved", "expired"}

MaterializeConsequenceWindows(k, i, depth) ==
    /\ applied
    /\ windows' = [windows EXCEPT ![k] = Materialized(@, NewWindow(i, depth))]
    /\ granted' = [granted EXCEPT ![k] = Most(@, i.max)]
    /\ opened' = IF IsOver(k) THEN [opened EXCEPT ![k] = @ + 1] ELSE opened
    /\ UNCHANGED <<turn, picked, applied, world, signals, told, settled>>

\* ensure_persisted_consequence_windows: a seed of an old session, with what
\* it has been shown already, becomes a window unless there is one.
EnsurePersisted(k, i, shows) ==
    /\ windows[k] = None
    /\ windows' = [windows EXCEPT ![k] = [NewWindow(i, 0) EXCEPT !.shows = shows]]
    /\ granted' = [granted EXCEPT ![k] = Most(@, i.max)]
    /\ opened' = [opened EXCEPT ![k] = @ + 1]
    /\ told' = [told EXCEPT ![k] = shows]
    /\ UNCHANGED <<turn, picked, applied, world, signals, settled>>

\* The memory review lets a window rest.
Suppress(k) ==
    /\ windows[k] # None /\ windows[k].status \in {"open", "shown"}
    /\ \E until \in turn..MaxTurn :
          windows' = [windows EXCEPT ![k].status = "suppressed",
                                     ![k].until = until]
    /\ UNCHANGED <<turn, picked, applied, world, signals, history>>

Due(k) ==
    LET w == windows[k]
    IN  /\ w # None
        /\ w.depth <= MaxDepth
        /\ \/ w.status \in {"open", "shown"}
           \/ w.status = "suppressed" /\ w.until >= 0 /\ turn > w.until
        /\ turn \in w.earliest..w.latest
        /\ w.shows < w.max

\* _select_due_window_payloads: the due windows, as many as the budget allows.
SelectDue ==
    /\ picked = {} /\ ~applied
    /\ \E best \in SUBSET {k \in Keys : Due(k)} :
          /\ Cardinality(best) = Least(Budget, Cardinality({k \in Keys : Due(k)}))
          /\ picked' = best
    /\ UNCHANGED <<turn, windows, applied, world, signals, history>>

\* One window after a turn that has resolved or shown it, or neither.
AfterTurn(k, resolved, shown) ==
    LET w == windows[k]
    IN  CASE w # None /\ k \in resolved -> [w EXCEPT !.status = "resolved"]
          [] w # None /\ k \notin resolved /\ w.latest < turn ->
                [w EXCEPT !.status = "expired"]
          [] /\ w # None /\ k \in shown \ resolved
             /\ w.latest >= turn /\ w.shows < w.max ->
                [w EXCEPT !.status = "shown", !.shows = @ + 1]
          [] OTHER -> w

Counted(count, keys) == [k \in Keys |-> IF k \in keys THEN count[k] + 1 ELSE count[k]]

\* apply_consequence_results, once when the turn commits.
ApplyConsequenceResults(resolved, shown) ==
    /\ ~applied
    /\ applied' = TRUE
    /\ windows' = [k \in Keys |-> AfterTurn(k, resolved, shown)]
    /\ told' = Counted(told, shown)
    /\ settled' = Counted(settled, shown \cap resolved)
    /\ UNCHANGED <<turn, picked, world, signals, opened, granted>>
-----------------------------------------------------------------------------
(***************************************************************************)
(* Structural signals.  An operation is [op, ref, target]; whether a       *)
(* trigger of the constitution wants it is up to the constitution.         *)
(***************************************************************************)

Operations ==
    [op : {"object.create"}, ref : Refs]
    \cup [op : {"object.update", "link.create", "event.create"}, ref : Refs \cup Objects]

\* resolve_applied_op_refs
ResolveAppliedOpRefs(o, refMap) ==
    IF o.ref \in DOMAIN refMap THEN [o EXCEPT !.ref = refMap[o.ref]] ELSE o

\* _build_candidates_from_op: a creation stands for the object it names, any
\* other operation only for one that is found.
Candidates(o, objects) ==
    IF o.op = "object.create" \/ o.ref \in objects THEN {o} ELSE {}

\* detect_structural_signals: one signal for a trigger and an object, however
\* many operations cause it.
DetectStructuralSignals(ops, triggers, objects) ==
    {[trigger |-> t.name, object |-> c.ref] :
        t \in triggers, c \in UNION {Candidates(o, objects) : o \in ops}}

\* The operations of a turn.
OpSets ==
    {{o} : o \in Operations} \cup {{o, p} : o, p \in Operations}

\* The objects the references of its creations have got, new ones or ones the
\* creation was merged into, and its operations with these for the references.
Created(ops, refMap) ==
    {refMap[o.ref] : o \in {p \in ops : p.op = "object.create" /\ p.ref \in Refs}}

Resolved(ops, refMap) == {ResolveAppliedOpRefs(o, refMap) : o \in ops}

\* A turn applies its operations.
ApplyOps ==
    /\ applied
    /\ \E refMap \in [Refs -> Objects], ops \in OpSets :
          /\ world' = world \cup Created(ops, refMap)
          /\ signals' = DetectStructuralSignals(Resolved(ops, refMap),
                           {[name |-> "trigger"]}, world')
    /\ UNCHANGED <<turn, consequenceVars>>

NextTurn ==
    /\ applied /\ turn < MaxTurn
    /\ turn' = turn + 1
    /\ picked' = {}
    /\ applied' = FALSE
    /\ UNCHANGED <<windows, world, signals, history>>

Next ==
    \/ \E k \in Keys, i \in Intents :
          \/ \E depth \in {0, MaxDepth + 1} :
                MaterializeConsequenceWindows(k, i, depth)
          \/ turn = 0 /\ i.max > 0 /\ EnsurePersisted(k, i, 1)
    \/ \E k \in Keys : Suppress(k)
    \/ SelectDue
    \/ \E resolved \in SUBSET Keys, shown \in SUBSET picked :
          ApplyConsequenceResults(resolved, shown)
    \/ ApplyOps
    \/ NextTurn

Spec == Init /\ [][Next]_vars
-----------------------------------------------------------------------------
\* However often the narrator comes back to an intent, moves it, resolves it
\* and opens it again, it is told of it no more often than it once asked for,
\* except that the turn which resolves a window is not counted
\* (crud_consequences.py:538): once for every time an intent opens it.
RemindersAreLimited ==
    \A k \in Keys : told[k] <= granted[k] + settled[k] /\ settled[k] <= opened[k]
=============================================================================

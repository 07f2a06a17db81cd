----------------------------- MODULE PromptBudget -----------------------------
(***************************************************************************)
(* How a context pack is made to fit the prompt (crud_context.py): its     *)
(* fixed texts are trimmed to the cap, and what is left of the cap is      *)
(* given to turns, memories and links.  There are two ways to give it: by  *)
(* one score over all of them (_apply_unified_context_scoring), or field   *)
(* by field with a budget for each (_apply_elastic_field_budgets).         *)
(*                                                                         *)
(* The first counts every item alone; in the pack an item, and the key of  *)
(* every list, costs extra tokens besides, so that a selection that fits   *)
(* by the count may be too large, and is cut down in the end.  The second  *)
(* counts the whole pack.                                                  *)
(* Weights are in hundredths; ties are broken either way.                  *)
(***************************************************************************)
EXTENDS Integers, Sequences, FiniteSets, FiniteSetsExt, Functions

CONSTANTS Turns,        \* indices of the turns there are, with those of directors
          Directors,
          NewTurn,
          Semantic,     \* turns that are near to the input
          Others,       \* records of memories, links and the like
          Caps, Costs, Extras, Fixes,
          Threshold     \* ELASTIC_MIN_RELEVANCE_THRESHOLD

VARIABLES pack,   \* cap, costs and fixed texts before anything is trimmed
          phase, step,
          fixed,  \* size of each fixed text
          chosen,
          room,      \* what may still be given, or what a field may spend
          rest,      \* the items of a field that have not been looked at
          overflow

vars == <<pack, phase, step, fixed, chosen, room, rest, overflow>>

\* _FIXED_TRIM_ORDER with its floors, and FIXED_TRIM_BUFFER_TOKENS.
TrimOrder == <<"world_prompt", "state_summary", "constitution">>
TrimmedTexts == {TrimOrder[i] : i \in DOMAIN TrimOrder}
Floor == 1
Buffer == 1

\* _UNIFIED_CONTEXT_DIVERSITY_MINIMA, then _UNIFIED_MEMORY_CLASS_MINIMA.
Required == <<"prev_turn", "relevant_memory", "semantic", "episodic">>

\* _FIELD_BUDGETS
Fields == <<[name |-> "recent_turns", base |-> 2, least |-> 1],
            [name |-> "relevant_memories", base |-> 1, least |-> 1],
            [name |-> "relevant_links", base |-> 1, least |-> 0]>>

None == -1
Clamped(weight) == Min({Max({weight, 0}), 100})
-----------------------------------------------------------------------------
(***************************************************************************)
(* The candidates.                                                         *)
(***************************************************************************)

\* _list_semantically_relevant_turn_indices
SemanticTurns(excluded) == {t \in Semantic : t < NewTurn} \ excluded

CategoryOf(t) ==
    CASE t = NewTurn - 1 -> "prev_turn"
      [] t # NewTurn - 1 /\ t \in SemanticTurns({}) -> "semantic_turn"
      [] OTHER -> "recent_turn"

\* _serialize_neighbor_turn_for_context: the turns around it, no director's.
Neighbours(t) == {n \in {t - 1, t + 1} \cap Turns : n >= 1 /\ n \notin Directors}

\* _build_turn_variants_for_context
TurnItems ==
    {[source |-> t, field |-> "recent_turns", category |-> CategoryOf(t),
      variant |-> v, class |-> "none", weight |-> None, similarity |-> 50,
      importance |-> 50,
      anchored |-> FALSE, turn |-> t,
      context |-> v = "full" /\ Neighbours(t) # {}] :
        t \in Turns \ Directors, v \in {"compact", "full"}}

\* _collect_embedding_candidates, _active_context_status_filter
Offered == {x \in Others : x.status \notin {"inactive", "archived", "stale"}}

\* _derive_memory_class_for_context
MemoryClass(x) ==
    CASE x.class # "none" -> x.class
      [] x.category # "relevant_memory" -> "none"
      [] x.priority = "high" \/ x.importance >= 72 \/ x.seen >= 3 -> "semantic"
      [] OTHER -> "episodic"

\* _context_item_importance: as given, or as weighed, or by priority.
Importance(x) ==
    CASE x.importance # None -> x.importance
      [] x.importance = None /\ x.weight # None -> x.weight
      [] OTHER -> CASE x.priority = "high" -> 100
                    [] x.priority = "med" -> 65
                    [] x.priority = "low" -> 35
                    [] OTHER -> 50

Candidates ==
    TurnItems \cup
    {[source |-> x.source, field |-> x.field, category |-> x.category,
      variant |-> "default", class |-> MemoryClass(x), weight |-> x.weight,
      similarity |-> x.similarity, importance |-> Importance(x),
      anchored |-> x.anchored, turn |-> x.turn, context |-> FALSE] :
        x \in Offered}

\* _context_item_recency
Recency(x) == 5000 \div (50 + Max({NewTurn - x.turn, 0}))

\* _context_type_prior
TypePrior(x) ==
    Clamped(CASE x.category = "prev_turn" -> 100
              [] x.category = "recent_turn" -> 82
              [] x.category = "semantic_turn" -> 80
              [] x.category = "relevant_memory" ->
                    86 + IF x.class = "semantic" THEN 8 ELSE 4
              [] OTHER -> 72)

\* _context_struct_bonus
StructBonus(x) ==
    Clamped((IF x.anchored THEN 22 ELSE 0) + IF x.context THEN 8 ELSE 0)

\* _score_context_item_payload
Score(x) ==
    Clamped((35 * x.similarity + 15 * Recency(x) + 20 * x.importance
             + 20 * TypePrior(x) + 10 * StructBonus(x)) \div 100)

Cost(x) == pack.cost[<<x.source, x.variant>>]

\* _context_item_density, compared.
Denser(x, y) == Score(x) * Cost(y) > Score(y) * Cost(x)

Precedes(x, y) ==
    \/ Denser(x, y)
    \/ ~Denser(y, x) /\ Score(x) > Score(y)
    \/ ~Denser(y, x) /\ Score(x) = Score(y) /\ Cost(x) < Cost(y)

SourcesOf(items) == {x.source : x \in items}

Fitting(items) ==
    {x \in items : x.source \notin SourcesOf(chosen) /\ Cost(x) <= room}

\* _choose_best_fitting_item
BestFitting(items) ==
    {x \in Fitting(items) : \A y \in Fitting(items) : ~Precedes(y, x)}
-----------------------------------------------------------------------------
(***************************************************************************)
(* The fixed texts.                                                        *)
(***************************************************************************)

FixedSize(texts) == pack.base + SumFunction(texts)

\* What an item takes in the pack, and what several do.
Size == [x \in Candidates |-> Cost(x) + pack.extra]
SizeOf(items) == SumFunctionOnSet(Size, items)

\* _serialized_tokens of the pack.
PackSize(texts, items) == FixedSize(texts) + SizeOf(items)

\* _trim_fixed_string_to_budget
TrimText(texts, s) ==
    IF FixedSize(texts) <= pack.cap THEN texts
    ELSE [texts EXCEPT ![s] =
             Max({@ - (FixedSize(texts) - pack.cap) - Buffer, 0})]

CutToFloor(texts, s) ==
    IF FixedSize(texts) <= pack.cap \/ texts[s] <= Floor THEN texts
    ELSE [texts EXCEPT ![s] = Floor]

InOrder(Op(_, _), texts) ==
    Op(Op(Op(texts, TrimOrder[1]), TrimOrder[2]), TrimOrder[3])

\* _fit_fixed_overhead_budget
Fitted(texts) == InOrder(TrimText, InOrder(CutToFloor, texts))

Variants == {<<x.source, x.variant>> : x \in Candidates}

Init ==
    /\ pack \in {p \in [mode : {"unified", "elastic", "entropy"}, cap : Caps,
                        base : {1}, extra : Extras, texts : Fixes,
                        cost : [Variants -> Costs]] :
                    \A t \in Turns \ Directors :
                        p.cost[<<t, "compact">>] <= p.cost[<<t, "full">>]}
    /\ phase = "start"
    /\ step = 1
    /\ fixed = pack.texts
    /\ chosen = {}
    /\ room = 0 /\ overflow = 0
    /\ rest = {}

FitFixed ==
    /\ phase = "start"
    /\ fixed' = Fitted(fixed)
    /\ room' = Max({pack.cap - FixedSize(fixed'), 0})
    /\ phase' = CASE pack.mode # "unified" -> "fields"
                  [] pack.mode = "unified" /\ room' = 0 -> "done"
                  [] OTHER -> "required"
    /\ UNCHANGED <<pack, step, chosen, rest, overflow>>
-----------------------------------------------------------------------------
(***************************************************************************)
(* By one score.                                                           *)
(***************************************************************************)

Select(x) ==
    /\ chosen' = chosen \cup {x}
    /\ room' = room - Cost(x)

OfKind(kind) ==
    {x \in Candidates : kind \in {x.category} \cup
                           IF x.category = "relevant_memory" THEN {x.class} ELSE {}}

\* The best of each category and class that must be there.
SelectRequired ==
    /\ phase = "required"
    /\ IF BestFitting(OfKind(Required[step])) = {} THEN UNCHANGED <<chosen, room>>
       ELSE \E x \in BestFitting(OfKind(Required[step])) : Select(x)
    /\ step' = step + 1
    /\ phase' = IF step = Len(Required) THEN "fill" ELSE phase
    /\ UNCHANGED <<pack, fixed, rest, overflow>>

\* The rest of the room by density: what does not fit now never will.
Fill ==
    /\ phase = "fill"
    /\ \/ \E x \in BestFitting(Candidates) : Select(x) /\ UNCHANGED phase
       \/ /\ Fitting(Candidates) = {}
          /\ phase' = "upgrade"
          /\ UNCHANGED <<chosen, room>>
    /\ UNCHANGED <<pack, step, fixed, rest, overflow>>

\* The same turn in full instead of in short.
Fuller(x, y) ==
    /\ x.source = y.source /\ x.variant = "compact" /\ y.variant = "full"
    /\ Score(y) >= Score(x)

\* Mutant: the whole cost of the full turn is compared, the difference spent.
UpgradesAtAnyCost == {pair \in chosen \X Candidates : Fuller(pair[1], pair[2])}

\* A turn told in short is told in full when the difference fits.
Upgrades ==
    {pair \in chosen \X Candidates :
        /\ Fuller(pair[1], pair[2])
        /\ Cost(pair[2]) - Cost(pair[1]) <= room}

Upgrade ==
    /\ phase = "upgrade"
    /\ \/ \E pair \in Upgrades :
             /\ chosen' = (chosen \ {pair[1]}) \cup {pair[2]}
             /\ room' = Max({room - Max({Cost(pair[2]) - Cost(pair[1]), 0}), 0})
             /\ UNCHANGED phase
       \/ /\ Upgrades = {}
          /\ phase' = "guard"
          /\ UNCHANGED <<chosen, room>>
    /\ UNCHANGED <<pack, step, fixed, rest, overflow>>

\* All lists are in the pack by then, the empty ones too.
Keys == IF pack.mode = "unified" THEN pack.extra * Len(Fields) ELSE 0

TooLarge == PackSize(fixed, chosen) + Keys > pack.cap

\* The guardrail: the least dense goes first.
Guard ==
    /\ phase = "guard"
    /\ \/ /\ TooLarge
          /\ \E x \in chosen :
                /\ \A y \in chosen : ~Denser(x, y)
                /\ chosen' = chosen \ {x}
          /\ UNCHANGED phase
       \/ /\ ~TooLarge \/ chosen = {}
          /\ phase' = "done"
          /\ UNCHANGED chosen
    /\ UNCHANGED <<pack, step, fixed, room, rest, overflow>>
-----------------------------------------------------------------------------
(***************************************************************************)
(* Field by field.                                                         *)
(***************************************************************************)

\* _item_relevance_score
Relevance(x) == IF x.weight # None THEN x.weight ELSE x.similarity

\* The items of a field: turns in short.
ItemsOf(field) == {x \in Candidates : x.field = field.name /\ x.variant # "full"}
Kept(field) == chosen \cap ItemsOf(field)

\* The most relevant of those that have not been looked at.
Foremost == {x \in rest : \A y \in rest : Relevance(x) >= Relevance(y)}

\* A field may spend what fields before it have not.
FieldCap(field) ==
    Min({field.base + overflow, Max({pack.cap - PackSize(fixed, chosen), 0})})

OpenField ==
    /\ phase = "fields"
    /\ rest' = ItemsOf(Fields[step])
    /\ room' = FieldCap(Fields[step])
    /\ phase' = "items"
    /\ UNCHANGED <<pack, step, fixed, chosen, overflow>>

Filtered(field, x) ==
    /\ pack.mode = "entropy"
    /\ Relevance(x) < Threshold
    /\ Cardinality(Kept(field)) >= field.least

Fits(field, x) ==
    /\ PackSize(fixed, chosen \cup {x}) <= pack.cap
    /\ \/ SizeOf(Kept(field) \cup {x}) <= room
       \/ Cardinality(Kept(field)) < field.least

FitItem(x) ==
    /\ phase = "items"
    /\ rest' = rest \ {x}
    /\ chosen' = IF ~Filtered(Fields[step], x) /\ Fits(Fields[step], x)
                 THEN chosen \cup {x} ELSE chosen
    /\ UNCHANGED <<pack, phase, step, fixed, room, overflow>>

CloseField ==
    /\ phase = "items" /\ rest = {}
    /\ overflow' = Max({room - SizeOf(Kept(Fields[step])), 0})
    /\ step' = step + 1
    /\ phase' = IF step = Len(Fields) THEN "done" ELSE "fields"
    /\ UNCHANGED <<pack, fixed, chosen, room, rest>>

Next ==
    \/ FitFixed \/ SelectRequired \/ Fill \/ Upgrade \/ Guard
    \/ OpenField \/ (\E x \in Foremost : FitItem(x)) \/ CloseField

Spec == Init /\ [][Next]_vars
-----------------------------------------------------------------------------
TypeOK ==
    /\ phase \in {"start", "required", "fill", "upgrade", "guard",
                 "fields", "items", "done"}
    /\ chosen \subseteq Candidates /\ rest \subseteq Candidates
    /\ room \in Nat /\ overflow \in Nat

Budget == Max({pack.cap - FixedSize(fixed), 0})

\* By one score, with exact counts: no more was given than there was, the room
\* that is left is of no use to anything, and the previous turn is told if
\* there was room for it.
CountedExactly ==
    /\ SizeOf(chosen) + room <= Budget
    /\ Fitting(Candidates) = {} /\ Upgrades = {}
    /\ \A x \in OfKind("prev_turn") :
          Cost(x) <= Budget => x.source \in SourcesOf(chosen)

\* Field by field: one that has less than its due has nothing more that fits.
HasItsDue(field) ==
    Cardinality(Kept(field)) < field.least =>
        \A x \in ItemsOf(field) \ chosen :
            PackSize(fixed, chosen \cup {x}) > pack.cap

\* When the pack is made, whatever the sizes, it fits or nothing that could go
\* is left in it (but for the keys of its lists), no turn is told twice, and no
\* room is wasted.
PromptFits ==
    phase = "done" =>
        /\ TooLarge => chosen = {}
        /\ TooLarge /\ Keys = 0 => \A s \in DOMAIN fixed : fixed[s] = 0
        /\ \A x, y \in chosen : x.source = y.source => x = y
        /\ pack.mode = "unified" /\ pack.extra = 0 => CountedExactly
        /\ pack.mode # "unified" => \A i \in DOMAIN Fields : HasItsDue(Fields[i])
=============================================================================

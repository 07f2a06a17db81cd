---------------------------- MODULE PatchContracts ----------------------------
(***************************************************************************)
(* What crud_planning.py demands of the patch a language model proposes:   *)
(* the coercion of its operations, their order, and the contracts between  *)
(* a patch, the story told with it and the facts it wants remembered.      *)
(*                                                                         *)
(* An operation is [op, ref, refs, tag, name]: its (spelt) name, the       *)
(* reference an object.create introduces, the references it uses, what     *)
(* matters of its type or payload, and a name its payload gives.  A        *)
(* missing reference or name is "".  Names stand for the word forms the    *)
(* code compares; an object is called by its reference.                    *)
(***************************************************************************)
EXTENDS Integers, SequencesExt

CONSTANTS TmpRefs,     \* references matching tmp:...
          AutoRef,     \* tmp:auto_<index>, a sequence of temporary references
          Player,      \* SESSION_PLAYER_REF
          EndedQuests, \* quests of terminal status that nobody tracks
          MaxPatchOps

NoOp == [op |-> "none"]

\* The members of a finite set in a strict order, given as a set of pairs.
InOrder(S, order) ==
    [k \in 1..Cardinality(S) |->
        CHOOSE i \in S : Cardinality({j \in S : <<j, i>> \in order}) = k - 1]

Earlier(S) == {p \in S \X S : p[1] < p[2]}

Uses(o) == {o.refs[i] : i \in DOMAIN o.refs} \ {""}
-----------------------------------------------------------------------------
(***************************************************************************)
(* Coercion.                                                               *)
(***************************************************************************)

JsonPatchToUpdate(item) ==
    IF item.refs = <<>> THEN NoOp
    ELSE [item EXCEPT !.op = "object.update", !.refs = <<item.refs[1]>>]

CoercePatchOp(item, idx) ==
    CASE item.op \in {"add", "replace", "remove"} -> JsonPatchToUpdate(item)
      [] item.op = "object.create" ->
            IF item.name = "" THEN NoOp
            ELSE [item EXCEPT !.ref = IF @ \in TmpRefs THEN @ ELSE AutoRef[idx]]
      [] item.op \in {"object.update", "update", "npc.update"} ->
            IF Uses(item) = {} THEN NoOp
            ELSE [item EXCEPT !.op = "object.update"]
      [] item.op \in {"link.create", "link.close", "link.delete"} ->
            IF Len(item.refs) < 2 THEN NoOp
            ELSE [item EXCEPT !.op = IF @ = "link.create" THEN @
                                     ELSE "link.close"]
      [] item.op = "player.move" ->
            IF item.refs = <<>> THEN NoOp
            ELSE [item EXCEPT !.refs = <<Player, Last(item.refs)>>]
      [] item.op = "event.create" -> item
      [] OTHER -> NoOp

\* What cannot be coerced is left out; the rest keeps its order.
CoerceOps(items) ==
    LET coerced == [i \in DOMAIN items |-> CoercePatchOp(items[i], i)]
        good == {i \in DOMAIN items : coerced[i].op # "none"}
        kept == InOrder(good, Earlier(good))
    IN  [k \in DOMAIN kept |-> coerced[kept[k]]]
-----------------------------------------------------------------------------
(***************************************************************************)
(* References and order.                                                   *)
(***************************************************************************)

CollectRefs(o) == IF o.op = "object.create" THEN {} ELSE Uses(o)

RefKeys(o) == CollectRefs(o) \cup (IF o.op = "object.create" THEN {o.ref} ELSE {})

\* The creations operation i waits for.
Dependencies(ops, i) ==
    {c \in DOMAIN ops : /\ ops[c].op = "object.create"
                        /\ ops[c].ref \in CollectRefs(ops[i]) \cap TmpRefs}

\* _toposort_patch_ops: the queue starts with the operations that wait for
\* nothing, creations among them; taking a creation out of it releases, in
\* their order, the operations that waited for it last.
Released(ops, i) ==
    IF Dependencies(ops, i) = {} THEN 0 ELSE Max(Dependencies(ops, i))

Queued(ops) ==
    {p \in (DOMAIN ops) \X (DOMAIN ops) :
        \/ Released(ops, p[1]) < Released(ops, p[2])
        \/ Released(ops, p[1]) = Released(ops, p[2]) /\ p[1] < p[2]}

ToposortPatchOps(ops) ==
    LET order == InOrder(DOMAIN ops, Queued(ops))
    IN  [k \in DOMAIN order |-> ops[order[k]]]

Forbidden(o) ==
    \/ o.op = "link.create" /\ o.tag = "located_in"
    \/ o.op = "link.close" /\ o.tag \in {"located_in", "tracking_quest"}

Reject == [status |-> "reject", ops |-> <<>>]

ValidatePatchOps(ops) ==
    LET creates == {i \in DOMAIN ops : ops[i].op = "object.create"}
        sorted == ToposortPatchOps(ops)
        createdBy(k) == {sorted[j].ref : j \in {i \in 1..k :
                                          sorted[i].op = "object.create"}}
        unresolved == \E k \in DOMAIN sorted :
                         (CollectRefs(sorted[k]) \cap TmpRefs) \ createdBy(k) # {}
    IN  IF \/ Len(ops) > MaxPatchOps
           \/ \E i \in DOMAIN ops : ops[i].tag = "malformed"
           \/ \E i, j \in creates : i # j /\ ops[i].ref = ops[j].ref
           \/ \E i \in DOMAIN ops : Forbidden(ops[i])
        THEN Reject
        ELSE [status |-> IF unresolved THEN "uncertain" ELSE "ok",
              ops |-> sorted]
-----------------------------------------------------------------------------
(***************************************************************************)
(* Contracts with the world, the facts and the story.                      *)
(***************************************************************************)

Ops(ops, kind) == {o \in ToSet(ops) : o.op = kind}

TrackingTargets(ops) ==
    {o.refs[2] : o \in {l \in Ops(ops, "link.create") :
                          l.tag = "tracking_quest" /\ l.refs[1] = Player}}
        \ TmpRefs

\* _find_quest_reopen_tracking_link_reasons
ReopensUntracked(ops) ==
    \E o \in Ops(ops, "object.update") :
        /\ o.tag = "status_active"
        /\ o.refs[1] \in EndedQuests \ TrackingTargets(ops)

ExpectedOps(kind) ==
    CASE kind = "relationship" -> {"link.create", "link.close"}
      [] kind = "location_fact" ->
            {"player.move", "link.create", "link.close", "object.create"}
      [] kind = "quest_milestone" ->
            {"object.update", "object.create", "link.create", "event.create"}
      [] OTHER -> {"object.create", "object.update", "link.create",
                   "link.close", "player.move", "event.create"}

\* _find_durable_fact_mismatch_reasons: a fact [kind, anchors] to remember
\* must show in the patch.
FactsMismatch(facts, ops) ==
    /\ facts # {}
    /\ \/ ops = <<>>
       \/ \E f \in facts :
             /\ f.anchors # {}
             /\ \A o \in ToSet(ops) : \/ o.op \notin ExpectedOps(f.kind)
                                      \/ RefKeys(o) \cap f.anchors = {}

\* What the story may call a reference: the name its creation gives it; the
\* objects of the context go by their own.
RefTerms(ref, ops) ==
    LET created == {c \in Ops(ops, "object.create") : c.ref = ref}
    IN  (IF created = {} THEN {ref} ELSE {c.name : c \in created}) \ {""}

\* A semantic event is [type, requires, subject, target, hint]; its anchor is
\* named by the reference or by the hint.
AnchorTerms(ref, hint, ops) == RefTerms(ref, ops) \cup ({hint} \ {""})

MoveOpMatches(e, o, ops) ==
    LET named == AnchorTerms(e.target, e.hint, ops)
    IN  /\ e.target # "" => o.refs[2] = e.target
        /\ named # {} => RefTerms(o.refs[2], ops) \cap named # {}

Unmatched(required, ops, matches) ==
    \/ \E e \in required : \A o \in ops : <<e, o>> \notin matches
    \/ \E o \in ops : \A e \in required : <<e, o>> \notin matches

MoveContractBroken(events, ops) ==
    LET required == {e \in events : /\ e.type = "move" /\ e.requires
                                    /\ e.subject = Player}
        moves == Ops(ops, "player.move")
    IN  Unmatched(required, moves,
            {p \in required \X moves : MoveOpMatches(p[1], p[2], ops)})

\* _server_owned_movement_reasons
MovesThePlayer(events, ops) ==
    \/ Ops(ops, "player.move") # {}
    \/ \E e \in events : e.type = "move" /\ e.requires

PersistsDeath(o) ==
    o.op \in {"object.update", "event.create"} /\ o.tag = "death"

\* _death_op_anchor_terms: the name in the payload before the reference.
DeathOpTerms(o, ops) ==
    IF o.op = "event.create" /\ o.name # "" THEN {o.name}
    ELSE UNION {RefTerms(r, ops) : r \in Uses(o)}

DeathOpMatches(e, o, ops) ==
    IF e.subject # "" THEN Uses(o) = {e.subject}
    ELSE DeathOpTerms(o, ops) \cap AnchorTerms("", e.hint, ops) # {}

DeathContractBroken(events, ops) ==
    LET required == {e \in events : e.type = "death" /\ e.requires}
        deaths == {o \in ToSet(ops) : PersistsDeath(o)}
    IN  Unmatched(required, deaths,
            {p \in required \X deaths : DeathOpMatches(p[1], p[2], ops)})

\* _find_narration_semantic_desync_reasons
Desync(longText, events, ops) ==
    \/ MoveContractBroken(events, ops)
    \/ DeathContractBroken(events, ops)
    \/ ops = <<>> /\ longText
=============================================================================

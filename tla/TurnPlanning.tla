----------------------------- MODULE TurnPlanning -----------------------------
(***************************************************************************)
(* How one turn gets its plan (crud_planning.py): which of the planners is *)
(* asked, what it does when a model fails or answers badly, the one repair *)
(* the librarian is given, and what is left of the patch in the end.       *)
(*                                                                         *)
(* An answer of a model is [form, ops, events, facts]; whether its form is *)
(* good is the model's doing, all else is judged by PatchContracts.  The   *)
(* database transaction that reading opens is kept in tx: an LLM call      *)
(* takes seconds and must not find one open.                               *)
(***************************************************************************)
EXTENDS PatchContracts

CONSTANTS Answers,  \* what a model may answer
          Planners  \* the configured planners and request kinds

VARIABLES planner, \* "debug", "travel", "state_first", "split" or "legacy"
          step,    \* what it does next
          draft,   \* the answer under judgement
          longText,\* the narration is over 80 characters
          repairs, \* librarian_used
          tx,      \* "none", "open" or "aborted"
          plan     \* the TurnPlanResult

vars == <<planner, step, draft, longText, repairs, tx, plan>>

NoDraft == [form |-> "none", ops |-> <<>>, events |-> {}, facts |-> {}]
NoPlan == [status |-> "none", ops |-> <<>>, repaired |-> FALSE]

Calls == {"narrate", "patch", "reparse", "repair"}

TypeOK ==
    /\ planner \in {"debug", "travel", "state_first", "split", "legacy"}
    /\ step \in Calls \cup {"judge", "done", "failed"}
    /\ draft.form \in {"good", "bad", "none"}
    /\ longText \in BOOLEAN
    /\ repairs \in 0..2
    /\ tx \in {"none", "open", "aborted"}
    /\ plan.status \in {"none", "ok", "reject", "uncertain"}
    /\ plan.repaired \in BOOLEAN

\* _resolve_turn_plan_from_request: the context is read, and the transaction
\* it was read in is given back before any planner starts.
Init ==
    /\ planner \in Planners
    /\ step = IF planner = "debug" THEN "judge" ELSE "narrate"
    /\ draft = NoDraft
    /\ longText = FALSE
    /\ repairs = 0
    /\ tx = "none"
    /\ plan = NoPlan
-----------------------------------------------------------------------------
Coerced(d) == CoerceOps(d.ops)

Finish(status, ops, repaired) ==
    /\ plan' = [status |-> status, ops |-> ops, repaired |-> repaired]
    /\ step' = "done"

\* A plan without a patch: a model failed or its answer was unusable.
GiveUp(repaired) == Finish("reject", <<>>, repaired)

\* A debug patch is typed already and is refused unless they are allowed; it
\* is handed over as it is, also when it is uncertain.
BuildPlanFromDebugPatch ==
    /\ planner = "debug" /\ step = "judge"
    /\ \/ step' = "failed" /\ UNCHANGED <<draft, plan>>
       \/ \E a \in Answers :
             LET v == ValidatePatchOps(a.ops)
             IN  /\ Coerced(a) = a.ops
                 /\ draft' = a
                 /\ IF a.form = "good" THEN Finish(v.status, v.ops, FALSE)
                    ELSE GiveUp(FALSE)
    /\ UNCHANGED <<planner, longText, repairs, tx>>

-----------------------------------------------------------------------------
(***************************************************************************)
(* The models, each given by what asking it may come to, and the planners' *)
(* first questions.                                                        *)
(***************************************************************************)

\* No key, an open circuit, a timeout, an error of the provider.
Failure == NoDraft

\* _call_narrator, in both contracts: one JSON answer.
CallNarrator == Answers \cup {Failure}

CallLibrarian == Answers \cup {Failure}

CallDeepseekPatchGenerator == Answers \cup {Failure}

\* _call_narrator_text_only: a text, unwrapped if it comes as JSON and never
\* empty; what matters of it is whether it tells much.
CallNarratorTextOnly == {"short", "long", "failure"}

\* The legacy planner gets narration and patch in one answer.
LegacyAsks ==
    /\ planner = "legacy" /\ step = "narrate"
    /\ longText' \in BOOLEAN
    /\ \E a \in CallNarrator :
          IF a = Failure THEN GiveUp(FALSE) /\ UNCHANGED draft
          ELSE /\ draft' = a
               /\ step' = IF a.form = "good" THEN "judge" ELSE "reparse"
               /\ UNCHANGED plan
    /\ UNCHANGED <<planner, repairs, tx>>

\* An answer that does not parse: the librarian may put it right, which
\* counts as the one repair.
LegacyReparses ==
    /\ planner = "legacy" /\ step = "reparse"
    /\ \E a \in CallLibrarian :
          IF a.form # "good"
          THEN GiveUp(FALSE) /\ UNCHANGED <<draft, longText, repairs>>
          ELSE /\ draft' = a
               /\ longText' \in BOOLEAN
               /\ repairs' = 1
               /\ step' = "judge"
               /\ UNCHANGED plan
    /\ UNCHANGED <<planner, tx>>

\* The state-first planner asks for structure only; an answer that does not
\* parse counts as a failed call.
StateFirstAsks ==
    /\ planner = "state_first" /\ step = "narrate"
    /\ \E a \in CallNarrator :
          IF a.form # "good" THEN GiveUp(FALSE) /\ UNCHANGED draft
          ELSE draft' = a /\ step' = "judge" /\ UNCHANGED plan
    /\ UNCHANGED <<planner, longText, repairs, tx>>

\* The split planner starts with the text; without it the turn falls back to
\* the legacy planner.
SplitNarrates ==
    /\ planner = "split" /\ step = "narrate"
    /\ \E text \in CallNarratorTextOnly :
          IF text = "failure"
          THEN planner' = "legacy" /\ UNCHANGED <<step, longText>>
          ELSE /\ step' = "patch"
               /\ longText' = (text = "long")
               /\ UNCHANGED planner
    /\ UNCHANGED <<draft, repairs, tx, plan>>

SplitAsks ==
    /\ planner = "split" /\ step = "patch"
    /\ \E a \in CallDeepseekPatchGenerator :
          IF a = Failure THEN GiveUp(FALSE) /\ UNCHANGED draft
          ELSE /\ draft' = a
               /\ step' = IF a.form = "good" THEN "judge" ELSE "reparse"
               /\ UNCHANGED plan
    /\ UNCHANGED <<planner, longText, repairs, tx>>

\* As LegacyReparses, but the text stays and the repair is not counted.
SplitReparses ==
    /\ planner = "split" /\ step = "reparse"
    /\ \E a \in CallLibrarian :
          IF a.form # "good" THEN GiveUp(TRUE) /\ UNCHANGED draft
          ELSE draft' = a /\ step' = "judge" /\ UNCHANGED plan
    /\ UNCHANGED <<planner, longText, repairs, tx>>

\* A turn that is a journey: its outcome is resolved before, a narrator only
\* tells it, and telling may fail.
ResolveTravelTurnPlan ==
    /\ planner = "travel" /\ step = "narrate"
    /\ \E text \in CallNarratorTextOnly : longText' = (text = "long")
    /\ Finish("ok", <<>>, FALSE)
    /\ UNCHANGED <<planner, draft, repairs, tx>>
-----------------------------------------------------------------------------
(***************************************************************************)
(* Judgement and repair.                                                   *)
(***************************************************************************)

StateFirstDoubts(d, ops) ==
    \/ MovesThePlayer(d.events, ops)
    \/ ReopensUntracked(ops)
    \/ FactsMismatch(d.facts, ops)

LegacyDoubts(d, ops) ==
    \/ MovesThePlayer(d.events, ops)
    \/ Desync(longText, d.events, ops)
    \/ ReopensUntracked(ops)
    \/ FactsMismatch(d.facts, ops)

\* Mutant: the split planner judges the patch and forgets the narration.
SplitDoubtsNoStory(d, ops) == StateFirstDoubts(d, ops)

SplitDoubts(d, ops) == LegacyDoubts(d, ops)

\* Mutant: the transaction of the checks stays open during the repair.
AskForRepairInTx(reads) ==
    /\ step' = "repair"
    /\ tx' = IF reads THEN "open" ELSE tx
    /\ draft' = NoDraft
    /\ UNCHANGED plan

\* The librarian gets the draft and the reasons; its answer replaces them.
AskForRepair(reads) ==
    /\ step' = "repair"
    /\ tx' = "none"
    /\ draft' = NoDraft
    /\ UNCHANGED plan

\* What every planner does with a parsed draft.  Looking up the quests reads
\* the database; an uncertain patch that has been repaired once is dropped.
Judge(doubts) ==
    LET v == ValidatePatchOps(Coerced(draft))
        reads == v.status # "reject" /\ v.ops # <<>>
        status == IF v.status = "ok" /\ doubts THEN "uncertain" ELSE v.status
    IN  /\ reads => tx # "aborted"
        /\ IF status = "uncertain" /\ repairs = 0
           THEN AskForRepair(reads)
           ELSE /\ Finish(status, IF status = "ok" THEN v.ops ELSE <<>>,
                          repairs > 0)
                /\ tx' = IF reads THEN "open" ELSE tx
                /\ UNCHANGED draft

CoercedOps == ValidatePatchOps(Coerced(draft)).ops

LegacyJudge ==
    /\ planner = "legacy" /\ step = "judge"
    /\ Judge(LegacyDoubts(draft, CoercedOps))
    /\ UNCHANGED <<planner, longText, repairs>>

StateFirstJudge ==
    /\ planner = "state_first" /\ step = "judge"
    /\ Judge(StateFirstDoubts(draft, CoercedOps))
    /\ UNCHANGED <<planner, longText, repairs>>

SplitJudge ==
    /\ planner = "split" /\ step = "judge"
    /\ Judge(SplitDoubts(draft, CoercedOps))
    /\ UNCHANGED <<planner, longText, repairs>>

\* The lookup fails: a split planner that crashes is replaced by the legacy
\* one, in the same broken transaction; the others take the request down.
LookupFails ==
    /\ step = "judge" /\ planner # "debug"
    /\ CoercedOps # <<>>
    /\ IF planner = "split"
       THEN planner' = "legacy" /\ step' = "narrate" /\ draft' = NoDraft
       ELSE step' = "failed" /\ UNCHANGED <<planner, draft>>
    /\ repairs' = 0
    /\ tx' = "aborted"
    /\ UNCHANGED <<longText, plan>>

\* Mutant: a repaired patch is taken as it comes.
RepairedUnchecked(a) ==
    [status |-> IF a.form = "good" THEN "ok" ELSE "reject", ops |-> Coerced(a)]

\* The librarian's answer is checked again for its shape, its order and the
\* player's moves - not for the story, the quests and the facts.
Repaired(a) ==
    LET v == ValidatePatchOps(Coerced(a))
    IN  IF /\ a.form = "good"
           /\ v.status = "ok"
           /\ ~MovesThePlayer(a.events, v.ops)
        THEN v
        ELSE Reject

Repair ==
    /\ \E a \in CallLibrarian :
          /\ draft' = a
          /\ Finish(Repaired(a).status, Repaired(a).ops, TRUE)
    /\ repairs' = repairs + 1
    /\ UNCHANGED <<planner, longText, tx>>

LegacyRepair == planner = "legacy" /\ step = "repair" /\ Repair

StateFirstRepair == planner = "state_first" /\ step = "repair" /\ Repair

SplitRepair == planner = "split" /\ step = "repair" /\ Repair

Ended == step \in {"done", "failed"} /\ UNCHANGED vars

Next ==
    \/ BuildPlanFromDebugPatch
    \/ ResolveTravelTurnPlan
    \/ LegacyAsks \/ LegacyReparses \/ LegacyJudge \/ LegacyRepair
    \/ StateFirstAsks \/ StateFirstJudge \/ StateFirstRepair
    \/ SplitNarrates \/ SplitAsks \/ SplitReparses \/ SplitJudge
    \/ SplitRepair
    \/ LookupFails
    \/ Ended

Spec == Init /\ [][Next]_vars
-----------------------------------------------------------------------------
(***************************************************************************)
(* Properties.                                                             *)
(***************************************************************************)

SameTarget(o, p) == o.op # "object.create" /\ p.op # "object.create"
                    /\ Uses(o) = Uses(p)

\* Whatever the models answer and whoever repaired it, a patch that a planner
\* hands over for application is all of the coerced answer, reordered so that
\* temporary references are created before they are used and operations on
\* one target keep their order; it neither moves the player nor touches the
\* links that only the server writes.
PlanIsSound ==
    plan.status # "none" /\ planner # "debug" =>
        /\ plan.status # "ok" => plan.ops = <<>>
        /\ plan.ops # <<>> =>
              \E order \in [DOMAIN plan.ops -> DOMAIN Coerced(draft)] :
                 /\ IsInjective(order)
                 /\ Len(plan.ops) = Len(Coerced(draft))
                 /\ \A k \in DOMAIN order : plan.ops[k] = Coerced(draft)[order[k]]
                 /\ \A j, k \in DOMAIN order :
                       j < k /\ SameTarget(plan.ops[j], plan.ops[k])
                          => order[j] < order[k]
        /\ \A k \in DOMAIN plan.ops :
              /\ plan.ops[k].op # "player.move" /\ ~Forbidden(plan.ops[k])
              /\ \A r \in CollectRefs(plan.ops[k]) \cap TmpRefs :
                    \E j \in 1..(k - 1) : /\ plan.ops[j].op = "object.create"
                                          /\ plan.ops[j].ref = r

\* A patch that is applied without a repair agrees with its own story: each
\* death it claims is in it and each death in it is claimed, remembered facts
\* show, and a quest that comes back to life is tracked again.
StoryMatchesPatch ==
    plan.status = "ok" /\ ~plan.repaired /\ planner \in {"legacy", "split"} =>
        /\ ~DeathContractBroken(draft.events, plan.ops)
        /\ ~FactsMismatch(draft.facts, plan.ops)
        /\ ~ReopensUntracked(plan.ops)
        /\ ~(plan.ops = <<>> /\ longText)

\* No model is waited for inside a live transaction; the one exception is a
\* transaction that is broken already.
CallsHoldNoTransaction == step \in Calls => tx # "open"
=============================================================================

------------------------------- MODULE Retrieval -------------------------------
(***************************************************************************)
(* What is found for a turn and made of it: the search index; the prompt   *)
(* and its budget; the texts that are kept for it; the patches whose       *)
(* objects are looked for in the index.  They share no state here, and     *)
(* together they do what Spec /\ B!Spec /\ T!Spec /\ O!Spec says.          *)
(***************************************************************************)
EXTENDS EmbeddingIndex, Sequences, FiniteSets

CONSTANTS Turns, Directors, NewTurn, Semantic, Others,
          Caps, Costs, Extras, Fixes, Threshold,
          Cadence, Prompts, NoPrompt, Indexers, MaxTurns, MaxMisses, MaxEdits,
          Ids, Population, Patches, Arrivals, MaxPatches, MaxNoise

VARIABLES pack, pass, step, fixed, chosen, room, rest, overflow,
          turn, spine, saved, planner, missed,
          prompt, chunks, indexer, reported, edits,
          objects, vectors, cache, patch, stage, need, attempt, artifacts,
          refMap, asked, patches, noise

B == INSTANCE PromptBudget WITH phase <- pass
T == INSTANCE PromptTexts WITH MaxFailures <- MaxMisses
O == INSTANCE ObjectPatches WITH rows <- objects, tx <- attempt, phase <- stage

\* Each record is offered once, and is no turn.
ASSUME PromptBudgetAssumption ==
    /\ IsFiniteSet(Turns) /\ Turns \subseteq Nat /\ NewTurn \in Nat
    /\ IsFiniteSet(Others)
    /\ \A x \in Others : /\ x.source \notin Turns
                         /\ "prev_turn" \notin {x.category, x.class}
    /\ \A x, y \in Others : x.source = y.source => x = y
    /\ Caps \cup Extras \subseteq Nat /\ Costs \subseteq Nat \ {0}
    /\ \A texts \in Fixes : texts \in [B!TrimmedTexts -> Nat]

ASSUME PromptTextsAssumption ==
    /\ Cadence \in Nat \ {0} /\ NoPrompt \notin Prompts
    /\ {MaxTurns, MaxMisses, MaxEdits} \subseteq Nat

ASSUME ObjectsAssumption ==
    /\ O!Nobody \notin Ids
    /\ Population \subseteq [Ids -> O!Row \cup {O!NoRow}] /\ Arrivals \subseteq O!Row
    /\ \A p \in Patches : p \in Seq(O!Creation \cup O!Update)
    /\ \A p \in Patches : \A i \in DOMAIN p : p[i].op = "create" => p[i].ref \notin Ids
    /\ {MaxPatches, MaxNoise} \subseteq Nat

promptVars == <<pack, pass, step, fixed, chosen, room, rest, overflow>>
textVars == <<turn, spine, saved, planner, missed,
              prompt, chunks, indexer, reported, edits>>
objectVars == <<objects, vectors, cache, patch, stage, need, attempt, artifacts,
                refMap, asked, patches, noise>>

\* See PromptTexts.
TextsAreSound == T!TextsAreSound

\* A prompt is made to fit (PromptBudget), of texts that tell the whole story
\* and are of one world (PromptTexts).
PromptIsSound == B!TypeOK /\ B!PromptFits /\ TextsAreSound

\* See ObjectPatches.
AppliedPatchIsSound == O!AppliedPatchIsSound
================================================================================

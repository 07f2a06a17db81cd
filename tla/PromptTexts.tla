------------------------------ MODULE PromptTexts ------------------------------
(***************************************************************************)
(* Two texts of the prompt that are kept beside the graph                  *)
(* (crud_context.py), each made by a model while no transaction is open.   *)
(*                                                                         *)
(* The narrative spine retells the story.  Once Cadence turns have passed, *)
(* planning a turn hands the spine and the last Cadence turns to a model   *)
(* and stores what comes back, unless the spine has moved on since; a      *)
(* failure leaves the old one.  The session is locked while a turn is      *)
(* planned.                                                                *)
(*                                                                         *)
(* The chunks of the world prompt are indexed by a job and by an endpoint, *)
(* which may meet.  Nothing in src/ changes a prompt, yet the endpoint is  *)
(* there for one that "changes externally".  An indexer checks the prompt  *)
(* again before it writes, but the object that it checks is the one it     *)
(* loaded first: the session keeps it, and its values, over the commit     *)
(* (expire_on_commit=False, db.py:273), so the check finds no change.      *)
(***************************************************************************)
EXTENDS Integers, FiniteSets, FiniteSetsExt

CONSTANTS Cadence,   \* NARRATIVE_SPINE_SOURCE_TURNS
          Prompts, NoPrompt,
          Indexers,  \* the job of a new session and the endpoint
          MaxTurns, MaxFailures, MaxEdits  \* bounds

VARIABLES turn,      \* turns of the session
          spine,     \* the spine's row
          saved,     \* snapshot of both
          planner,   \* the turn that is being planned
          missed,    \* failed updates and turns that are not planned with a pack
          prompt,    \* world_prompt of the session
          chunks,    \* chunk rows, each known by its source_hash and its writer
          indexer, reported, edits

storyVars == <<turn, spine, saved, planner, missed>>
chunkVars == <<prompt, chunks, indexer, reported, edits>>
vars == <<storyVars, chunkVars>>

NoSpine == [at |-> 0, told |-> {}]
Idle == [phase |-> "idle"]

Init ==
    /\ turn = 0
    /\ spine = NoSpine
    /\ saved = [turn |-> 0, spine |-> NoSpine]
    /\ planner = Idle
    /\ missed = 0
    /\ prompt \in Prompts
    /\ chunks = {}
    /\ indexer = [i \in Indexers |-> Idle]
    /\ reported = NoPrompt
    /\ edits = 0
-----------------------------------------------------------------------------
(***************************************************************************)
(* The spine.                                                              *)
(***************************************************************************)

\* Mutant: one turn too late.
DueOneLate == turn - spine.at > Cadence

Due == turn - spine.at >= Cadence

\* The turns that are handed over with the spine.
SourceTurns == Max({1, turn - Cadence + 1}) .. turn

\* What is read before the model is called.
BeginPlan ==
    /\ planner = Idle
    /\ turn < MaxTurns
    /\ planner' = IF Due THEN [phase |-> "telling", at |-> turn,
                               told |-> spine.told \cup SourceTurns]
                  ELSE [phase |-> "planned"]
    /\ UNCHANGED <<turn, spine, saved, missed, chunkVars>>

\* The model answers, and what it says is stored if it is newer.
WriteSpine ==
    /\ planner.phase = "telling"
    /\ spine' = IF spine.at >= planner.at THEN spine
                ELSE [at |-> planner.at, told |-> planner.told]
    /\ planner' = [phase |-> "planned"]
    /\ UNCHANGED <<turn, saved, missed, chunkVars>>

\* It fails, or says nothing.
FailSpine ==
    /\ planner.phase = "telling"
    /\ missed < MaxFailures
    /\ missed' = missed + 1
    /\ planner' = [phase |-> "planned"]
    /\ UNCHANGED <<turn, spine, saved, chunkVars>>

\* The rest of the plan fails.
FailPlan ==
    /\ planner.phase = "planned"
    /\ planner' = Idle
    /\ UNCHANGED <<turn, spine, saved, missed, chunkVars>>

CommitTurn ==
    /\ planner.phase = "planned"
    /\ turn' = turn + 1
    /\ planner' = Idle
    /\ UNCHANGED <<spine, saved, missed, chunkVars>>

\* A director's turn, or one that is given as a patch.
CommitUnplanned ==
    /\ planner = Idle
    /\ turn < MaxTurns
    /\ missed < MaxFailures
    /\ turn' = turn + 1
    /\ missed' = missed + 1
    /\ UNCHANGED <<spine, saved, planner, chunkVars>>

\* The spine is an object like any other to a snapshot.
Capture ==
    /\ planner = Idle
    /\ saved' = [turn |-> turn, spine |-> spine]
    /\ UNCHANGED <<turn, spine, planner, missed, chunkVars>>

Restore ==
    /\ planner = Idle
    /\ turn' = saved.turn
    /\ spine' = saved.spine
    /\ UNCHANGED <<saved, planner, missed, chunkVars>>
-----------------------------------------------------------------------------
(***************************************************************************)
(* The chunks.                                                             *)
(***************************************************************************)

HasIndex(p) == \E c \in chunks : c.of = p

\* Mutant: the rows of another prompt are left.
WriteBesides(i, p) == chunks' = chunks \cup {[of |-> p, by |-> i]}

\* _write_chunks, in one transaction.
WriteChunks(i, p) == chunks' = {[of |-> p, by |-> i]}

\* The first look, with the session's row locked.
BeginIndex(i) ==
    /\ indexer[i] = Idle
    /\ IF HasIndex(prompt)
       THEN reported' = prompt /\ UNCHANGED indexer
       ELSE /\ indexer' = [indexer EXCEPT ![i] = [phase |-> "embedding", of |-> prompt]]
            /\ UNCHANGED reported
    /\ UNCHANGED <<storyVars, prompt, chunks, edits>>

\* The second, which cannot see another prompt.
FinishIndex(i) ==
    /\ indexer[i] # Idle
    /\ LET p == indexer[i].of
       IN  /\ IF HasIndex(p) THEN UNCHANGED chunks ELSE WriteChunks(i, p)
           /\ reported' = p
    /\ indexer' = [indexer EXCEPT ![i] = Idle]
    /\ UNCHANGED <<storyVars, prompt, edits>>

\* The provider fails: the job is tried again, the endpoint reports an error.
FailIndex(i) ==
    /\ indexer[i] # Idle
    /\ indexer' = [indexer EXCEPT ![i] = Idle]
    /\ UNCHANGED <<storyVars, prompt, chunks, reported, edits>>

\* From outside.
ChangePrompt(p) ==
    /\ edits < MaxEdits
    /\ prompt' = p
    /\ edits' = edits + 1
    /\ UNCHANGED <<storyVars, chunks, indexer, reported>>

\* _list_relevant_world_prompt_chunks finds rows by the hash it is given.
RelevantChunks(p) == {c \in chunks : c.of = p}

Next ==
    \/ BeginPlan \/ WriteSpine \/ FailSpine \/ FailPlan \/ CommitTurn
    \/ CommitUnplanned \/ Capture \/ Restore
    \/ \E i \in Indexers : BeginIndex(i) \/ FinishIndex(i) \/ FailIndex(i)
    \/ \E p \in Prompts : ChangePrompt(p)

Spec == Init /\ [][Next]_vars
-----------------------------------------------------------------------------
TypeOK ==
    /\ turn \in 0..MaxTurns
    /\ spine.at \in Nat /\ spine.told \subseteq 1..spine.at
    /\ prompt \in Prompts /\ reported \in Prompts \cup {NoPrompt}

\* The spine tells no turn that has been undone, and whatever becomes of
\* updates and snapshots it passes over no more turns than there were failed
\* updates and turns without a pack: an update reaches back Cadence turns
\* only, so that each of those may cost it one for good.
SpineTellsTheStory ==
    /\ spine.at <= turn
    /\ Cardinality((1..spine.at) \ spine.told) <= missed

\* Chunks are all of the prompt that was reported last: indexers that meet
\* leave one set of rows, and a context that is given the hash finds it.
ChunksAreOfOnePrompt ==
    /\ chunks = RelevantChunks(reported)
    /\ Cardinality(chunks) = IF reported = NoPrompt THEN 0 ELSE 1

TextsAreSound == TypeOK /\ SpineTellsTheStory /\ ChunksAreOfOnePrompt
=============================================================================

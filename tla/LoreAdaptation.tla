---------------------------- MODULE LoreAdaptation ----------------------------
(***************************************************************************)
(* The adaptation of uploaded lore (crud_lore_adaptation.py): a text is    *)
(* analysed by a language model outside any transaction, first by the      *)
(* request that uploaded it and, when that times out, by an outbox job     *)
(* with a bounded number of attempts.  The analysis leaves questions, the  *)
(* gaps, that the player or the model answers; once no blocking gap is     *)
(* open the lore is published as the session's world constitution, and     *)
(* once no gap is open it is final.                                        *)
(*                                                                         *)
(* Every transaction is one step.  What is decided outside a transaction   *)
(* is checked again inside it, against the request id or the text's hash.  *)
(* The internal turn a publication writes belongs to TurnLifecycle; a      *)
(* session restored from a snapshot, lore included, is not modelled.       *)
(***************************************************************************)
EXTENDS Integers, FiniteSets

CONSTANTS Texts,       \* lore texts, one per hash
          NoText,
          Keys,        \* the gaps an analysis can find
          Blocking,    \* those that gap_turn_block_candidates selects
          MaxAttempts, \* _LORE_MAX_OUTBOX_ATTEMPTS
          MaxRequests, \* bound on accepted uploads
          MaxFills,    \* bound on fills asked of the model
          MaxLosses    \* bound on requests and jobs that die

ASSUME TextsAssumption == NoText \notin Texts
ASSUME BlockingAssumption == Blocking \subseteq Keys
ASSUME BoundsAssumption ==
    /\ MaxAttempts \in Nat \ {0}
    /\ {MaxRequests, MaxFills, MaxLosses} \subseteq Nat

VARIABLES lore,         \* state_json.lore_adaptation
          request,      \* its processing_request_id, or 0
          stable,       \* its stable_state, while it is processing
          constitution, \* uploaded_lore_hash of the world constitution
          job,          \* what became of each upload request
          newest,       \* history: the text of the last upload let in
          fills,        \* the model's answers in flight
          asked,        \* how many were asked for
          losses

vars == <<lore, request, stable, constitution, job, newest, fills, asked,
          losses>>

Requests == 1..MaxRequests

\* gaps are open, answered by the player, or answered by the model.
Lore(status, text, open, player, ai) ==
    [status |-> status, text |-> text,
     open |-> open, player |-> player, ai |-> ai]
Idle == Lore("idle", NoText, {}, {}, {})
Processing(t) == Lore("processing", t, {}, {}, {})
Finalized(t) == Lore("finalized", t, {}, {}, {})

LoreStates ==
    [status: {"idle", "processing", "awaiting_answers", "finalized"},
     text: Texts \cup {NoText},
     open: SUBSET Keys, player: SUBSET Keys, ai: SUBSET Keys]

Jobs == [phase: {"none", "uploading", "queued", "over"},
         text: Texts \cup {NoText}, attempts: 0..MaxAttempts]

\* A state that is not being processed knows nothing of requests.
TypeOK ==
    /\ lore \in LoreStates
    /\ request \in 0..MaxRequests
    /\ lore.status = "processing" <=> request # 0
    /\ stable \in {s \in LoreStates: s.status # "processing"}
    /\ constitution \in Texts \cup {NoText}
    /\ job \in [Requests -> Jobs]
    /\ newest \in Texts \cup {NoText}
    /\ fills \subseteq [text: Texts, keys: SUBSET Keys]
    /\ asked \in 0..MaxFills
    /\ losses \in 0..MaxLosses

Init ==
    /\ lore = Idle
    /\ request = 0
    /\ stable = Idle
    /\ constitution = NoText
    /\ job = [r \in Requests |->
                  [phase |-> "none", text |-> NoText, attempts |-> 0]]
    /\ newest = NoText
    /\ fills = {}
    /\ asked = 0
    /\ losses = 0
-----------------------------------------------------------------------------
(***************************************************************************)
(* What the transactions write.                                            *)
(***************************************************************************)

\* Mutant: only final lore is published.
PublishedWhenFinal(t, open) == IF open = {} THEN t ELSE constitution

\* The constitution after lore t with these open gaps has been persisted.
Published(t, open) == IF open \cap Blocking = {} THEN t ELSE constitution

\* _persist_completed_lore_state
Persist(t, open, player, ai) ==
    /\ constitution' = Published(t, open)
    /\ lore' = IF open = {} THEN Finalized(t)
               ELSE Lore("awaiting_answers", t, open, player, ai)
    /\ request' = 0
    /\ stable' = Idle

\* _extract_stable_lore_state: the state to go back to should this upload
\* fail; the state of an upload that is itself being processed is not one.
Stable == IF lore.status = "processing" THEN stable ELSE lore

\* Mutant: whoever has a result may write it.
CurrentIfProcessing(r) == lore.status = "processing"

\* _is_current_processing_job
Current(r) == lore.status = "processing" /\ request = r

\* Mutant: a job that gives up leaves things as they are.
NotRestored(r) == UNCHANGED <<lore, request, stable>>

\* _restore_stable_lore_state_if_current
Restore(r) ==
    IF Current(r)
    THEN lore' = stable /\ request' = 0 /\ stable' = Idle
    ELSE UNCHANGED <<lore, request, stable>>
-----------------------------------------------------------------------------
(***************************************************************************)
(* Uploads and their jobs.                                                 *)
(***************************************************************************)

\* The first transaction of upload_lore.  A text that is already being
\* processed, awaits answers or is final changes nothing; one that the
\* constitution was made from is final at once.
Upload(t) ==
    /\ lore.text # t
    /\ \/ /\ constitution = t
          /\ lore' = Finalized(t)
          /\ request' = 0
          /\ stable' = Idle
          /\ UNCHANGED job
       \/ /\ constitution # t
          /\ \E r \in Requests:
                /\ job[r].phase = "none"
                /\ \A s \in Requests: s < r => job[s].phase # "none"
                /\ request' = r
                /\ job' = [job EXCEPT ![r].phase = "uploading", ![r].text = t]
          /\ lore' = Processing(t)
          /\ stable' = Stable
    /\ newest' = t
    /\ UNCHANGED <<constitution, fills, asked, losses>>

Over(r) == job' = [job EXCEPT ![r].phase = "over"]

\* The analysis succeeds: _apply_processed_lore_state_if_current, called by
\* the upload request or by the job.  Which gaps there are, and which of them
\* auto_fill has answered, is the model's choice.
Finish(r) ==
    /\ job[r].phase \in {"uploading", "queued"}
    /\ IF Current(r)
       THEN \E open, ai \in SUBSET Keys:
               /\ open \cap ai = {}
               /\ Persist(job[r].text, open, {}, ai)
       ELSE UNCHANGED <<lore, request, stable, constitution>>
    /\ Over(r)
    /\ UNCHANGED <<newest, fills, asked, losses>>

\* The analysis takes too long: _enqueue_lore_processing_event_if_current.
Queue(r) ==
    /\ job[r].phase = "uploading"
    /\ IF Current(r) THEN job' = [job EXCEPT ![r].phase = "queued"]
       ELSE Over(r)
    /\ UNCHANGED <<lore, request, stable, constitution, newest, fills,
                   asked, losses>>

\* The analysis fails while the uploader waits.
FailUpload(r) ==
    /\ job[r].phase = "uploading"
    /\ Restore(r)
    /\ Over(r)
    /\ UNCHANGED <<constitution, newest, fills, asked, losses>>

\* An attempt of the job fails; the last one restores.
FailJob(r) ==
    /\ job[r].phase = "queued"
    /\ IF job[r].attempts + 1 < MaxAttempts
       THEN /\ job' = [job EXCEPT ![r].attempts = @ + 1]
            /\ UNCHANGED <<lore, request, stable>>
       ELSE Restore(r) /\ Over(r)
    /\ UNCHANGED <<constitution, newest, fills, asked, losses>>

\* The upload request dies, or the transaction that should have persisted,
\* queued or restored is refused; so does the last attempt of the job.
Vanish(r) ==
    /\ losses < MaxLosses
    /\ losses' = losses + 1
    /\ \/ job[r].phase = "uploading"
       \/ job[r].phase = "queued" /\ job[r].attempts + 1 = MaxAttempts
    /\ Over(r)
    /\ UNCHANGED <<lore, request, stable, constitution, newest, fills, asked>>
-----------------------------------------------------------------------------
(***************************************************************************)
(* Answers.                                                                *)
(***************************************************************************)

Gaps == lore.open \cup lore.player \cup lore.ai

\* answer_lore_gap with an answer; an answered gap can be answered again.
AnswerByPlayer(k) ==
    /\ k \in Gaps
    /\ Persist(lore.text, lore.open \ {k}, lore.player \cup {k},
               lore.ai \ {k})
    /\ UNCHANGED <<job, newest, fills, asked, losses>>

\* The first transaction of let_ai_decide and of auto_resolve_lore_gaps.
AskModel(keys) ==
    /\ Gaps # {}
    /\ \/ \E k \in Gaps: keys = {k}
       \/ keys = lore.open
    /\ keys # {}
    /\ asked < MaxFills
    /\ asked' = asked + 1
    /\ fills' = fills \cup {[text |-> lore.text, keys |-> keys]}
    /\ UNCHANGED <<lore, request, stable, constitution, job, newest, losses>>

\* Mutant: the model answers what it was asked, whatever happened since.
FillableUnasked(f) == f.keys \cap Gaps

\* What is still to be answered of a fill.
Fillable(f) == f.keys \cap lore.open

\* The second one: a text that was replaced makes the answers stale.
ApplyFill(f) ==
    /\ fills' = fills \ {f}
    /\ \/ /\ lore.text = f.text
          /\ \E answered \in SUBSET Fillable(f):
                /\ answered # {}
                /\ Persist(lore.text, lore.open \ answered,
                           lore.player \ answered, lore.ai \cup answered)
       \/ UNCHANGED <<lore, request, stable, constitution>>
    /\ UNCHANGED <<job, newest, asked, losses>>
-----------------------------------------------------------------------------
Run(r) == Finish(r) \/ Queue(r) \/ FailUpload(r) \/ FailJob(r)

Next ==
    \/ \E t \in Texts: Upload(t)
    \/ \E r \in Requests: Run(r) \/ Vanish(r)
    \/ \E k \in Keys: AnswerByPlayer(k)
    \/ \E keys \in SUBSET Keys: AskModel(keys)
    \/ \E f \in fills: ApplyFill(f)

Spec == Init /\ [][Next]_vars

\* The provider calls carry timeouts, and the outbox worker polls for ever.
FairSpec == Spec /\ \A r \in Requests: WF_vars(Run(r))
-----------------------------------------------------------------------------
(***************************************************************************)
(* Properties.                                                             *)
(***************************************************************************)

\* get_lore_turn_blocker
TurnsBlocked ==
    lore.status = "processing" \/ lore.open \cap Blocking # {}

\* Turns that are let through run on the constitution of the lore the player
\* sees, whichever uploads failed or were superseded on the way.
TurnsRunOnPublishedLore ==
    TurnsBlocked \/ lore.status = "idle" \/ constitution = lore.text

\* The lore of a session is replaced by that of the last upload only, or goes
\* back to what it was: an analysis that was superseded writes nothing.
NewestUploadWins ==
    [][lore'.text # lore.text => lore'.text = newest' \/ lore' = stable]_vars

\* A gap the player has answered is never handed to the model by a fill that
\* was asked for before.
PlayerAnswersStay ==
    [][lore'.status = "awaiting_answers" /\ lore'.text = lore.text
          => lore.player \subseteq lore'.player]_vars

\* While lore is processing somebody processes it: the uploader still waits
\* or its event is in the outbox.
ProcessingIsProcessed ==
    lore.status = "processing" =>
        job[request].phase \in {"uploading", "queued"}

\* As long as no step of an upload was lost, it gets an answer or is taken
\* back, by its uploader or by one of the attempts of its job.
ProcessingEnds ==
    \A r \in Requests: request = r ~> request # r \/ losses > 0
=============================================================================

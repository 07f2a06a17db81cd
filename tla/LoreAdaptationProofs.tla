------------------------- MODULE LoreAdaptationProofs -------------------------
(***************************************************************************)
(* Whichever uploads fail, die or are superseded, turns run on the         *)
(* constitution of the lore the player sees, lore is replaced by the       *)
(* newest upload only, and the player's answers stay.                      *)
(***************************************************************************)
EXTENDS LoreAdaptation, TLAPS

USE TextsAssumption, BlockingAssumption, BoundsAssumption

-----------------------------------------------------------------------------
(* The inductive invariant. *)

\* Only lore that awaits answers has gaps, each of them in one state.
GapsOK(s) ==
    /\ s.open \cap s.player = {} /\ s.open \cap s.ai = {}
    /\ s.player \cap s.ai = {}
    /\ s.status # "awaiting_answers" =>
          s.open = {} /\ s.player = {} /\ s.ai = {}
    /\ s.status = "awaiting_answers" => s.text \in Texts

\* Turns may run on this state: get_lore_turn_blocker lets them through only
\* on the constitution that was made from its text.
Backed(s, text) ==
    s.status = "idle" \/ s.open \cap Blocking # {} \/ text = s.text

\* While an upload is processed, what it may go back to is still backed.
LoreIsBacked ==
    IF lore.status = "processing" THEN Backed(stable, constitution)
    ELSE Backed(lore, constitution)

JobsHaveTexts ==
    \A r \in Requests: job[r].phase # "none" => job[r].text \in Texts

\* The request that is processed has the text the player sees.
RequestHasItsText ==
    request # 0 =>
        job[request].phase # "none" /\ job[request].text = lore.text

IInv ==
    /\ TypeOK /\ GapsOK(lore) /\ GapsOK(stable)
    /\ LoreIsBacked /\ JobsHaveTexts /\ RequestHasItsText
-----------------------------------------------------------------------------
(* States of lore. *)

\* The fields of a state are those it was built from.
LEMMA LoreFields ==
    ASSUME NEW status, NEW text, NEW open, NEW player, NEW ai
    PROVE  LET s == Lore(status, text, open, player, ai)
           IN  /\ s.status = status /\ s.text = text
               /\ s.open = open /\ s.player = player /\ s.ai = ai
BY DEF Lore

LEMMA LoreTyped ==
    ASSUME NEW status \in {"idle", "processing", "awaiting_answers",
                           "finalized"},
           NEW text \in Texts \cup {NoText},
           NEW open \in SUBSET Keys, NEW player \in SUBSET Keys,
           NEW ai \in SUBSET Keys
    PROVE  Lore(status, text, open, player, ai) \in LoreStates
BY DEF Lore, LoreStates

LEMMA IdleOK == Idle \in LoreStates /\ Idle.status = "idle" /\ GapsOK(Idle)
<1>1. Idle \in LoreStates
  BY LoreTyped DEF Idle
<1> QED
  BY <1>1, LoreFields DEF Idle, GapsOK

LEMMA ProcessingOK ==
    ASSUME NEW t \in Texts
    PROVE  /\ Processing(t) \in LoreStates /\ GapsOK(Processing(t))
           /\ Processing(t).status = "processing" /\ Processing(t).text = t
<1>1. Processing(t) \in LoreStates
  BY LoreTyped DEF Processing
<1> QED
  BY <1>1, LoreFields DEF Processing, GapsOK

LEMMA FinalizedOK ==
    ASSUME NEW t \in Texts
    PROVE  /\ Finalized(t) \in LoreStates /\ GapsOK(Finalized(t))
           /\ Finalized(t).status = "finalized" /\ Finalized(t).text = t
<1>1. Finalized(t) \in LoreStates
  BY LoreTyped DEF Finalized
<1> QED
  BY <1>1, LoreFields DEF Finalized, GapsOK

\* Persisting a result publishes it as soon as no blocking gap is open, so
\* what is left to see is backed (_persist_completed_lore_state).
LEMMA PersistOK ==
    ASSUME IInv, NEW t \in Texts, NEW open \in SUBSET Keys,
           NEW player \in SUBSET Keys, NEW ai \in SUBSET Keys,
           open \cap player = {}, open \cap ai = {}, player \cap ai = {},
           Persist(t, open, player, ai)
    PROVE  /\ lore' \in LoreStates /\ lore'.status # "processing"
           /\ lore'.text = t /\ GapsOK(lore')
           /\ lore'.status = "awaiting_answers" => lore'.player = player
           /\ request' = 0 /\ stable' = Idle
           /\ constitution' \in Texts \cup {NoText}
           /\ Backed(lore', constitution')
<1>1. /\ constitution' = Published(t, open)
      /\ lore' = IF open = {} THEN Finalized(t)
                 ELSE Lore("awaiting_answers", t, open, player, ai)
      /\ request' = 0 /\ stable' = Idle
  BY DEF Persist
<1>2. constitution' \in Texts \cup {NoText}
  BY <1>1 DEF IInv, TypeOK, Published
<1>3. CASE open = {}
  <2>1. lore' = Finalized(t) /\ constitution' = t
    BY <1>1, <1>3 DEF Published
  <2> QED
    BY <1>1, <1>2, <2>1, FinalizedOK DEF Backed
<1>4. CASE open # {}
  <2>1. lore' = Lore("awaiting_answers", t, open, player, ai)
    BY <1>1, <1>4
  <2>2. /\ lore'.status = "awaiting_answers" /\ lore'.text = t
        /\ lore'.open = open /\ lore'.player = player /\ lore'.ai = ai
    BY <2>1, LoreFields
  <2>3. lore' \in LoreStates
    BY <2>1, LoreTyped
  <2>4. GapsOK(lore')
    BY <2>2 DEF GapsOK
  <2>5. Backed(lore', constitution')
    BY <1>1, <2>2 DEF Backed, Published
  <2> QED
    BY <1>1, <1>2, <2>2, <2>3, <2>4, <2>5
<1> QED
  BY <1>3, <1>4

\* Whatever is persisted, it is about the text it was asked for.
LEMMA PersistText ==
    ASSUME NEW t, NEW open, NEW player, NEW ai, Persist(t, open, player, ai)
    PROVE  lore'.text = t
BY LoreFields DEF Persist, Finalized

\* What a transaction that ends the processing, or that answers a gap, owes.
LEMMA Settled ==
    ASSUME IInv,
           lore' \in LoreStates, lore'.status # "processing", GapsOK(lore'),
           request' = 0, stable' = Idle,
           constitution' \in Texts \cup {NoText},
           Backed(lore', constitution'),
           job' \in [Requests -> Jobs], JobsHaveTexts',
           newest' \in Texts \cup {NoText},
           fills' \subseteq [text: Texts, keys: SUBSET Keys],
           asked' \in 0..MaxFills, losses' \in 0..MaxLosses
    PROVE  IInv'
<1>1. stable' \in {s \in LoreStates: s.status # "processing"}
  BY IdleOK
<1>2. request' \in 0..MaxRequests
  BY DEF IInv
<1>3. TypeOK'
  BY <1>1, <1>2 DEF TypeOK
<1>4. GapsOK(stable')
  BY IdleOK
<1> QED
  BY <1>3, <1>4 DEF IInv, LoreIsBacked, RequestHasItsText

\* What a transaction that leaves the state of the lore alone owes.
LEMMA Untouched ==
    ASSUME IInv, UNCHANGED <<lore, request, stable, constitution>>,
           job' \in [Requests -> Jobs], JobsHaveTexts',
           \A r \in Requests:
               job[r].phase # "none" =>
                   job'[r].phase # "none" /\ job'[r].text = job[r].text,
           newest' \in Texts \cup {NoText},
           fills' \subseteq [text: Texts, keys: SUBSET Keys],
           asked' \in 0..MaxFills, losses' \in 0..MaxLosses
    PROVE  IInv'
<1>1. TypeOK'
  BY DEF IInv, TypeOK
<1>2. GapsOK(lore') /\ GapsOK(stable') /\ LoreIsBacked'
  BY DEF IInv, LoreIsBacked
<1>3. RequestHasItsText'
  <2>1. request # 0 => request \in Requests
    BY DEF IInv, TypeOK, Requests
  <2> QED
    BY <2>1 DEF IInv, RequestHasItsText
<1> QED
  BY <1>1, <1>2, <1>3 DEF IInv

\* The state an upload goes back to is backed and free of requests
\* (_restore_stable_lore_state_if_current).
LEMMA RestoredState ==
    ASSUME IInv, NEW r \in Requests, Restore(r), Current(r),
           UNCHANGED constitution
    PROVE  /\ lore' = stable
           /\ lore' \in LoreStates /\ lore'.status # "processing"
           /\ GapsOK(lore') /\ request' = 0 /\ stable' = Idle
           /\ Backed(lore', constitution')
<1>1. lore' = stable /\ request' = 0 /\ stable' = Idle
  BY DEF Restore
<1>2. stable \in LoreStates /\ stable.status # "processing"
  BY DEF IInv, TypeOK
<1>3. GapsOK(stable) /\ Backed(stable, constitution)
  BY DEF IInv, LoreIsBacked, Current
<1> QED
  BY <1>1, <1>2, <1>3

\* The phases of a job keep its text.
LEMMA JobStep ==
    ASSUME IInv, NEW r \in Requests, job[r].phase # "none",
           \/ Over(r)
           \/ job' = [job EXCEPT ![r].phase = "queued"]
           \/ /\ job[r].attempts + 1 < MaxAttempts
              /\ job' = [job EXCEPT ![r].attempts = @ + 1]
    PROVE  /\ job' \in [Requests -> Jobs] /\ JobsHaveTexts'
           /\ \A s \in Requests:
                 job[s].phase # "none" =>
                     job'[s].phase # "none" /\ job'[s].text = job[s].text
<1> DEFINE now == job'[r]
<1>1. job \in [Requests -> Jobs] /\ job[r] \in Jobs
  BY DEF IInv, TypeOK
<1>2. /\ now \in Jobs /\ now.phase # "none" /\ now.text = job[r].text
      /\ job' = [job EXCEPT ![r] = now]
  <2>1. CASE Over(r)
    BY <1>1, <2>1 DEF Over, Jobs
  <2>2. CASE job' = [job EXCEPT ![r].phase = "queued"]
    BY <1>1, <2>2 DEF Jobs
  <2>3. CASE /\ job[r].attempts + 1 < MaxAttempts
             /\ job' = [job EXCEPT ![r].attempts = @ + 1]
    BY <1>1, <2>3 DEF Jobs
  <2> QED
    BY <2>1, <2>2, <2>3
<1> HIDE DEF now
<1>3. job' \in [Requests -> Jobs]
  BY <1>1, <1>2
<1>4. \A s \in Requests: job'[s] = IF s = r THEN now ELSE job[s]
  BY <1>1, <1>2
<1>5. JobsHaveTexts'
  BY <1>2, <1>4 DEF IInv, JobsHaveTexts
<1> QED
  BY <1>2, <1>3, <1>4, <1>5
-----------------------------------------------------------------------------
(* Each action preserves the invariant. *)

LEMMA InitInv == Init => IInv
<1> SUFFICES ASSUME Init PROVE IInv
  OBVIOUS
<1>1. job \in [Requests -> Jobs] /\ JobsHaveTexts
  BY DEF Init, Jobs, JobsHaveTexts
<1>2. TypeOK
  BY <1>1, IdleOK DEF Init, TypeOK
<1> QED
  BY <1>1, <1>2, IdleOK
  DEF Init, IInv, LoreIsBacked, Backed, RequestHasItsText

\* An upload of known lore finalizes it; any other one starts a request and
\* remembers what to go back to.
LEMMA UploadInv ==
    ASSUME IInv, NEW t \in Texts, Upload(t)
    PROVE  IInv'
<1>1. /\ newest' = t
      /\ UNCHANGED <<constitution, fills, asked, losses>>
  BY DEF Upload
<1>2. /\ constitution \in Texts \cup {NoText}
      /\ fills \subseteq [text: Texts, keys: SUBSET Keys]
      /\ asked \in 0..MaxFills /\ losses \in 0..MaxLosses
      /\ job \in [Requests -> Jobs]
  BY DEF IInv, TypeOK
<1>3. CASE /\ constitution = t /\ lore' = Finalized(t)
           /\ request' = 0 /\ stable' = Idle /\ UNCHANGED job
  <2>1. /\ lore' \in LoreStates /\ GapsOK(lore')
        /\ lore'.status # "processing" /\ lore'.text = t
    BY <1>3, FinalizedOK
  <2>2. Backed(lore', constitution')
    BY <1>1, <1>3, <2>1 DEF Backed
  <2>3. JobsHaveTexts'
    BY <1>3 DEF IInv, JobsHaveTexts
  <2> QED
    BY <1>1, <1>2, <1>3, <2>1, <2>2, <2>3, Settled
<1>4. ASSUME NEW r \in Requests, job[r].phase = "none",
             request' = r, lore' = Processing(t), stable' = Stable,
             job' = [job EXCEPT ![r].phase = "uploading", ![r].text = t]
      PROVE  IInv'
  <2>1. /\ lore' \in LoreStates /\ GapsOK(lore')
        /\ lore'.status = "processing" /\ lore'.text = t
    BY <1>4, ProcessingOK
  <2>2. /\ stable' \in LoreStates /\ stable'.status # "processing"
        /\ GapsOK(stable') /\ Backed(stable', constitution)
    BY <1>4 DEF Stable, IInv, TypeOK, LoreIsBacked
  <2>3. LoreIsBacked'
    BY <1>1, <2>1, <2>2 DEF LoreIsBacked
  <2>4. job'[r] \in Jobs /\ job'[r].phase # "none" /\ job'[r].text = t
    BY <1>2, <1>4 DEF Jobs
  <2>5. /\ job' \in [Requests -> Jobs]
        /\ \A s \in Requests \ {r}: job'[s] = job[s]
    BY <1>2, <1>4, <2>4
  <2>6. JobsHaveTexts'
    BY <2>4, <2>5 DEF IInv, JobsHaveTexts
  <2>7. RequestHasItsText'
    BY <1>4, <2>1, <2>4 DEF RequestHasItsText
  <2>8. request' \in 0..MaxRequests /\ request' # 0
    BY <1>4 DEF Requests
  <2>9. TypeOK'
    BY <1>1, <1>2, <2>1, <2>2, <2>5, <2>8 DEF TypeOK
  <2> QED
    BY <2>1, <2>2, <2>3, <2>6, <2>7, <2>9 DEF IInv
<1> QED
  BY <1>3, <1>4 DEF Upload

\* A result is written only by the request that is still current, and to the
\* text it was asked for (_apply_processed_lore_state_if_current).
LEMMA FinishInv ==
    ASSUME IInv, NEW r \in Requests, Finish(r)
    PROVE  IInv'
<1>1. job[r].phase # "none" /\ Over(r) /\ UNCHANGED <<newest, fills, asked, losses>>
  BY DEF Finish
<1>2. /\ job' \in [Requests -> Jobs] /\ JobsHaveTexts'
      /\ \A s \in Requests:
            job[s].phase # "none" =>
                job'[s].phase # "none" /\ job'[s].text = job[s].text
  BY <1>1, JobStep
<1>3. /\ newest' \in Texts \cup {NoText}
      /\ fills' \subseteq [text: Texts, keys: SUBSET Keys]
      /\ asked' \in 0..MaxFills /\ losses' \in 0..MaxLosses
  BY <1>1 DEF IInv, TypeOK
<1>4. CASE Current(r)
  <2>1. PICK open \in SUBSET Keys, ai \in SUBSET Keys:
            open \cap ai = {} /\ Persist(job[r].text, open, {}, ai)
    BY <1>4 DEF Finish
  <2>2. job[r].text \in Texts
    BY <1>1 DEF IInv, JobsHaveTexts
  <2>3. /\ lore' \in LoreStates /\ lore'.status # "processing"
        /\ GapsOK(lore') /\ request' = 0 /\ stable' = Idle
        /\ constitution' \in Texts \cup {NoText}
        /\ Backed(lore', constitution')
    BY <2>1, <2>2, PersistOK
  <2> QED
    BY <1>2, <1>3, <2>3, Settled
<1>5. CASE ~Current(r)
  <2>1. UNCHANGED <<lore, request, stable, constitution>>
    BY <1>5 DEF Finish
  <2> QED
    BY <1>2, <1>3, <2>1, Untouched
<1> QED
  BY <1>4, <1>5

\* A slow upload leaves its work to an event, a superseded one to nobody.
LEMMA QueueInv ==
    ASSUME IInv, NEW r \in Requests, Queue(r)
    PROVE  IInv'
<1>1. /\ job[r].phase # "none"
      /\ Over(r) \/ job' = [job EXCEPT ![r].phase = "queued"]
      /\ UNCHANGED <<lore, request, stable, constitution, newest, fills,
                     asked, losses>>
  BY DEF Queue
<1>2. /\ job' \in [Requests -> Jobs] /\ JobsHaveTexts'
      /\ \A s \in Requests:
            job[s].phase # "none" =>
                job'[s].phase # "none" /\ job'[s].text = job[s].text
  BY <1>1, JobStep
<1>3. /\ newest' \in Texts \cup {NoText}
      /\ fills' \subseteq [text: Texts, keys: SUBSET Keys]
      /\ asked' \in 0..MaxFills /\ losses' \in 0..MaxLosses
  BY <1>1 DEF IInv, TypeOK
<1> QED
  BY <1>1, <1>2, <1>3, Untouched

\* A failed upload, and the last failed attempt of a job, takes the lore back.
LEMMA FailInv ==
    ASSUME IInv, NEW r \in Requests, FailUpload(r) \/ FailJob(r)
    PROVE  IInv'
<1>1. /\ job[r].phase # "none"
      /\ UNCHANGED <<constitution, newest, fills, asked, losses>>
  BY DEF FailUpload, FailJob
<1>2. \/ Restore(r) /\ Over(r)
      \/ /\ job[r].attempts + 1 < MaxAttempts
         /\ job' = [job EXCEPT ![r].attempts = @ + 1]
         /\ UNCHANGED <<lore, request, stable>>
  BY DEF FailUpload, FailJob
<1>3. /\ job' \in [Requests -> Jobs] /\ JobsHaveTexts'
      /\ \A s \in Requests:
            job[s].phase # "none" =>
                job'[s].phase # "none" /\ job'[s].text = job[s].text
  BY <1>1, <1>2, JobStep
<1>4. /\ newest' \in Texts \cup {NoText}
      /\ constitution' \in Texts \cup {NoText}
      /\ fills' \subseteq [text: Texts, keys: SUBSET Keys]
      /\ asked' \in 0..MaxFills /\ losses' \in 0..MaxLosses
  BY <1>1 DEF IInv, TypeOK
<1>5. CASE Restore(r) /\ Current(r)
  BY <1>1, <1>3, <1>4, <1>5, RestoredState, Settled
<1>6. CASE ~(Restore(r) /\ Current(r))
  <2>1. UNCHANGED <<lore, request, stable, constitution>>
    BY <1>1, <1>2, <1>6 DEF Restore
  <2> QED
    BY <1>3, <1>4, <2>1, Untouched
<1> QED
  BY <1>5, <1>6

\* An upload that vanishes leaves the lore as it is.
LEMMA VanishInv ==
    ASSUME IInv, NEW r \in Requests, Vanish(r)
    PROVE  IInv'
<1>1. /\ job[r].phase # "none" /\ Over(r)
      /\ losses < MaxLosses /\ losses' = losses + 1
      /\ UNCHANGED <<lore, request, stable, constitution, newest, fills, asked>>
  BY DEF Vanish
<1>2. /\ job' \in [Requests -> Jobs] /\ JobsHaveTexts'
      /\ \A s \in Requests:
            job[s].phase # "none" =>
                job'[s].phase # "none" /\ job'[s].text = job[s].text
  BY <1>1, JobStep
<1>3. /\ newest' \in Texts \cup {NoText}
      /\ fills' \subseteq [text: Texts, keys: SUBSET Keys]
      /\ asked' \in 0..MaxFills
  BY <1>1 DEF IInv, TypeOK
<1>4. losses' \in 0..MaxLosses
  BY <1>1 DEF IInv, TypeOK
<1> QED
  BY <1>1, <1>2, <1>3, <1>4, Untouched

\* An answer, the player's or the model's, is written to lore with gaps.
LEMMA AnswerInv ==
    ASSUME IInv, NEW open \in SUBSET Keys, NEW player \in SUBSET Keys,
           NEW ai \in SUBSET Keys,
           open \cap player = {}, open \cap ai = {}, player \cap ai = {},
           lore.status = "awaiting_answers",
           Persist(lore.text, open, player, ai),
           fills' \subseteq fills, UNCHANGED <<job, newest, asked, losses>>
    PROVE  IInv'
<1>1. lore.text \in Texts
  BY DEF IInv, GapsOK
<1>2. /\ lore' \in LoreStates /\ lore'.status # "processing"
      /\ GapsOK(lore') /\ request' = 0 /\ stable' = Idle
      /\ constitution' \in Texts \cup {NoText}
      /\ Backed(lore', constitution')
  BY <1>1, PersistOK
<1>3. /\ job' \in [Requests -> Jobs]
      /\ newest' \in Texts \cup {NoText}
      /\ fills' \subseteq [text: Texts, keys: SUBSET Keys]
      /\ asked' \in 0..MaxFills /\ losses' \in 0..MaxLosses
  BY DEF IInv, TypeOK
<1>4. JobsHaveTexts'
  BY DEF IInv, JobsHaveTexts
<1> QED
  BY <1>2, <1>3, <1>4, Settled

\* The gaps of lore are keys, in three states that exclude each other.
LEMMA GapFacts ==
    ASSUME IInv
    PROVE  /\ lore.open \in SUBSET Keys /\ lore.player \in SUBSET Keys
           /\ lore.ai \in SUBSET Keys
           /\ lore.open \cap lore.player = {} /\ lore.open \cap lore.ai = {}
           /\ lore.player \cap lore.ai = {}
           /\ Gaps # {} => lore.status = "awaiting_answers"
                           /\ lore.text \in Texts
BY DEF IInv, TypeOK, LoreStates, GapsOK, Gaps

LEMMA AnswerByPlayerInv ==
    ASSUME IInv, NEW k \in Keys, AnswerByPlayer(k)
    PROVE  IInv'
<1>1. /\ lore.status = "awaiting_answers"
      /\ Persist(lore.text, lore.open \ {k}, lore.player \cup {k},
                 lore.ai \ {k})
      /\ UNCHANGED <<job, newest, fills, asked, losses>>
  BY GapFacts DEF AnswerByPlayer
<1>2. /\ lore.open \ {k} \in SUBSET Keys
      /\ lore.player \cup {k} \in SUBSET Keys
      /\ lore.ai \ {k} \in SUBSET Keys
      /\ (lore.open \ {k}) \cap (lore.player \cup {k}) = {}
      /\ (lore.open \ {k}) \cap (lore.ai \ {k}) = {}
      /\ (lore.player \cup {k}) \cap (lore.ai \ {k}) = {}
  BY GapFacts
<1> QED
  BY <1>1, <1>2, AnswerInv

LEMMA AskModelInv ==
    ASSUME IInv, NEW keys \in SUBSET Keys, AskModel(keys)
    PROVE  IInv'
<1>1. /\ lore.text \in Texts
      /\ fills' = fills \cup {[text |-> lore.text, keys |-> keys]}
      /\ asked < MaxFills /\ asked' = asked + 1
      /\ UNCHANGED <<lore, request, stable, constitution, job, newest, losses>>
  BY GapFacts DEF AskModel
<1>2. fills' \subseteq [text: Texts, keys: SUBSET Keys]
  BY <1>1 DEF IInv, TypeOK
<1>3. asked' \in 0..MaxFills
  BY <1>1 DEF IInv, TypeOK
<1>4. /\ job' \in [Requests -> Jobs] /\ JobsHaveTexts'
      /\ newest' \in Texts \cup {NoText} /\ losses' \in 0..MaxLosses
  BY <1>1 DEF IInv, TypeOK, JobsHaveTexts
<1> QED
  BY <1>1, <1>2, <1>3, <1>4, Untouched

\* What the model answers was open when its answer is written.
LEMMA ApplyFillInv ==
    ASSUME IInv, NEW f \in fills, ApplyFill(f)
    PROVE  IInv'
<1>1. fills' \subseteq fills /\ UNCHANGED <<job, newest, asked, losses>>
  BY DEF ApplyFill
<1>2. ASSUME NEW answered \in SUBSET Fillable(f), answered # {},
             Persist(lore.text, lore.open \ answered,
                     lore.player \ answered, lore.ai \cup answered)
      PROVE  IInv'
  <2>1. answered \subseteq lore.open /\ lore.status = "awaiting_answers"
    BY <1>2, GapFacts DEF Fillable, Gaps
  <2>2. /\ lore.open \ answered \in SUBSET Keys
        /\ lore.player \ answered \in SUBSET Keys
        /\ lore.ai \cup answered \in SUBSET Keys
        /\ (lore.open \ answered) \cap (lore.player \ answered) = {}
        /\ (lore.open \ answered) \cap (lore.ai \cup answered) = {}
        /\ (lore.player \ answered) \cap (lore.ai \cup answered) = {}
    BY <2>1, GapFacts
  <2> QED
    BY <1>1, <1>2, <2>1, <2>2, AnswerInv
<1>3. CASE UNCHANGED <<lore, request, stable, constitution>>
  <2>1. /\ job' \in [Requests -> Jobs] /\ JobsHaveTexts'
        /\ newest' \in Texts \cup {NoText}
        /\ fills' \subseteq [text: Texts, keys: SUBSET Keys]
        /\ asked' \in 0..MaxFills /\ losses' \in 0..MaxLosses
    BY <1>1 DEF IInv, TypeOK, JobsHaveTexts
  <2> QED
    BY <1>1, <1>3, <2>1, Untouched
<1> QED
  BY <1>2, <1>3 DEF ApplyFill

LEMMA NextInv ==
    ASSUME IInv, [Next]_vars
    PROVE  IInv'
<1>1. ASSUME NEW r \in Requests, Run(r)
      PROVE  IInv'
  BY <1>1, FinishInv, QueueInv, FailInv DEF Run
<1>2. CASE UNCHANGED vars
  <2>1. UNCHANGED <<lore, request, stable, constitution, job, newest, fills,
                    asked, losses>>
    BY <1>2 DEF vars
  <2>2. /\ job' \in [Requests -> Jobs] /\ JobsHaveTexts'
        /\ newest' \in Texts \cup {NoText}
        /\ fills' \subseteq [text: Texts, keys: SUBSET Keys]
        /\ asked' \in 0..MaxFills /\ losses' \in 0..MaxLosses
    BY <2>1 DEF IInv, TypeOK, JobsHaveTexts
  <2> QED
    BY <2>1, <2>2, Untouched
<1> QED
  BY <1>1, <1>2, UploadInv, VanishInv, AnswerByPlayerInv, AskModelInv,
     ApplyFillInv DEF Next

LEMMA Invariance == Spec => []IInv
BY InitInv, NextInv, PTL DEF Spec
-----------------------------------------------------------------------------
(* The theorems. *)

\* Turns that get_lore_turn_blocker lets through run on the constitution of
\* the lore the player sees, whichever uploads failed or were superseded.
THEOREM PublishedCorrect == Spec => []TurnsRunOnPublishedLore
<1>1. IInv => TurnsRunOnPublishedLore
  BY DEF IInv, LoreIsBacked, Backed, TurnsRunOnPublishedLore, TurnsBlocked
<1> QED
  BY <1>1, Invariance, PTL

\* What replaces the lore of a session is the newest upload or the state
\* before it: a superseded analysis writes nothing
\* (_apply_processed_lore_state_if_current).
THEOREM NewestCorrect == Spec => NewestUploadWins
<1>1. ASSUME IInv, [Next]_vars
      PROVE  [lore'.text # lore.text
                  => lore'.text = newest' \/ lore' = stable]_vars
  <2>1. ASSUME NEW t \in Texts, Upload(t)
        PROVE  lore'.text = newest'
    BY <2>1, FinalizedOK, ProcessingOK DEF Upload
  <2>2. ASSUME NEW r \in Requests, Finish(r)
        PROVE  lore'.text = lore.text
    <3>1. CASE Current(r)
      <4>1. PICK open \in SUBSET Keys, ai \in SUBSET Keys:
                open \cap ai = {} /\ Persist(job[r].text, open, {}, ai)
        BY <2>2, <3>1 DEF Finish
      <4>2. job[r].text \in Texts
        BY <1>1, <2>2 DEF Finish, IInv, JobsHaveTexts
      <4>3. lore'.text = job[r].text
        BY <1>1, <4>1, <4>2, PersistOK
      <4>4. request = r /\ r # 0
        BY <3>1 DEF Current, Requests
      <4> QED
        BY <1>1, <4>3, <4>4 DEF IInv, RequestHasItsText
    <3> QED
      BY <2>2, <3>1 DEF Finish
  <2>3. ASSUME NEW r \in Requests, Queue(r) \/ FailUpload(r) \/ FailJob(r)
        PROVE  lore' = lore \/ lore' = stable
    BY <2>3 DEF Queue, FailUpload, FailJob, Restore
  <2>4. ASSUME NEW k \in Keys, AnswerByPlayer(k)
        PROVE  lore'.text = lore.text
    BY <2>4, PersistText DEF AnswerByPlayer
  <2>5. ASSUME NEW f \in fills, ApplyFill(f)
        PROVE  lore'.text = lore.text
    <3>1. ASSUME NEW answered,
                 Persist(lore.text, lore.open \ answered,
                         lore.player \ answered, lore.ai \cup answered)
          PROVE  lore'.text = lore.text
      BY <3>1, PersistText
    <3> QED
      BY <2>5, <3>1 DEF ApplyFill
  <2>6. ASSUME \/ \E r \in Requests: Vanish(r)
               \/ \E keys \in SUBSET Keys: AskModel(keys)
        PROVE  lore' = lore
    BY <2>6 DEF Vanish, AskModel
  <2> QED
    BY <1>1, <2>1, <2>2, <2>3, <2>4, <2>5, <2>6 DEF Next, Run
<1> QED
  BY <1>1, Invariance, PTL DEF Spec, NewestUploadWins

\* While the lore of a text awaits answers, a gap the player answered stays
\* the player's (answer_lore_gap, let_ai_decide, auto_resolve_lore_gaps).
THEOREM AnswersCorrect == Spec => PlayerAnswersStay
<1>1. ASSUME IInv, [Next]_vars
      PROVE  [lore'.status = "awaiting_answers" /\ lore'.text = lore.text
                  => lore.player \subseteq lore'.player]_vars
  <2>1. ASSUME NEW t \in Texts, Upload(t)
        PROVE  lore'.status # "awaiting_answers"
    BY <2>1, FinalizedOK, ProcessingOK DEF Upload
  <2>2. ASSUME NEW r \in Requests, Run(r)
        PROVE  lore' = lore \/ lore.player = {}
    <3>1. CASE Current(r)
      BY <1>1, <3>1 DEF Current, IInv, GapsOK
    <3>2. CASE ~Current(r)
      BY <2>2, <3>2 DEF Run, Finish, Queue, FailUpload, FailJob, Restore
    <3> QED
      BY <3>1, <3>2
  <2>3. ASSUME NEW k \in Keys, AnswerByPlayer(k),
               lore'.status = "awaiting_answers"
        PROVE  lore.player \subseteq lore'.player
    <3>1. lore'.player = lore.player \cup {k}
      BY <2>3, LoreFields DEF AnswerByPlayer, Persist, Finalized
    <3> QED
      BY <3>1
  <2>4. ASSUME NEW f \in fills, ApplyFill(f),
               lore'.status = "awaiting_answers"
        PROVE  lore.player \subseteq lore'.player
    <3>1. ASSUME NEW answered \in SUBSET Fillable(f),
                 Persist(lore.text, lore.open \ answered,
                         lore.player \ answered, lore.ai \cup answered)
          PROVE  lore.player \subseteq lore'.player
      <4>1. lore'.player = lore.player \ answered
        BY <2>4, <3>1, LoreFields DEF Persist, Finalized
      <4>2. answered \cap lore.player = {}
        BY <1>1, <3>1, GapFacts DEF Fillable
      <4> QED
        BY <4>1, <4>2
    <3> QED
      BY <2>4, <3>1 DEF ApplyFill
  <2>5. ASSUME \/ \E r \in Requests: Vanish(r)
               \/ \E keys \in SUBSET Keys: AskModel(keys)
        PROVE  lore' = lore
    BY <2>5 DEF Vanish, AskModel
  <2> QED
    BY <1>1, <2>1, <2>2, <2>3, <2>4, <2>5 DEF Next
<1> QED
  BY <1>1, Invariance, PTL DEF Spec, PlayerAnswersStay
=============================================================================

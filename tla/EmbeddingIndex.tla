---------------------------- MODULE EmbeddingIndex ----------------------------
(***************************************************************************)
(* The search index of one object and of one turn: the vectors semantic    *)
(* retrieval reads.  profile is the text of the object, context those of   *)
(* the active links that leave it, chronicle the text of the turn.         *)
(*                                                                         *)
(* A profile says words and facts.  The words are what the refresh rule of *)
(* the object's type watches (crud_profiles.py): its name, what describes  *)
(* it, and of an NPC or the player the scalars of its data.  The facts are *)
(* what the text tells besides: the scalars of zones, items, factions and  *)
(* quests, and of all of them ctx_weight and ctx_last_touched_turn.  A     *)
(* turn is told by the snippet its planner wrote, which no PATCH may       *)
(* change, or by its prose.                                                *)
(*                                                                         *)
(* A turn's batch of patch operations writes the vectors of the object in  *)
(* the transaction that changes its words.  Everything else that changes a *)
(* text leaves an outbox event, without a dedupe key, in its transaction;  *)
(* a worker then reads the text, computes the vector outside any           *)
(* transaction and writes it in another one, which first reads the text    *)
(* again.  Transactions are READ COMMITTED (db.py sets nothing else), so   *)
(* between that second read and the commit others may commit.  Nor do they *)
(* flush by themselves (db.py:272): a SELECT of a batch sees what was      *)
(* flushed.                                                                *)
(***************************************************************************)
EXTENDS Integers, FiniteSets

CONSTANTS Texts, NoText,
          Links,      \* content links the object may have
          Workers,    \* outbox workers
          MaxChanges, \* bound on changes of texts and links
          MaxBatches, \* bound on batches of patch operations
          MaxFailures \* bound on failed attempts of workers

ASSUME TextsAssumption == NoText \notin Texts
ASSUME BoundsAssumption == {MaxChanges, MaxBatches, MaxFailures} \subseteq Nat

Kinds == {"profile", "context", "chronicle"}

VARIABLES source,  \* committed texts
          index,   \* committed vectors, each given by the text it embeds
          events,  \* refresh events of each kind in the outbox
          job,     \* what each worker is doing
          batch,   \* the batch of a turn, not committed yet
          overtaken, \* history: kinds whose vector was written last by a job
                     \* that others had overtaken in the meantime
          changes, batches, failures

vars == <<source, index, events, job, batch, overtaken, changes, batches, failures>>

MaybeText == Texts \cup {NoText}
Profiles == [words: Texts, facts: Texts]
Unwritten == [words |-> NoText, facts |-> NoText]

\* The links are those whose texts are joined.
Sources == [profile: Profiles, context: SUBSET Links,
            chronicle: [snippet: MaybeText, prose: MaybeText]]
Indexed == [profile: Profiles \cup {Unwritten}, context: SUBSET Links,
            chronicle: MaybeText]

\* _sync_turn_chronicle_embeddings: what a turn is told by, if by anything.
ChronicleText(turn) == IF turn.snippet # NoText THEN turn.snippet ELSE turn.prose

\* What there is to embed.
TextOf(k) == IF k = "chronicle" THEN ChronicleText(source.chronicle) ELSE source[k]

\* late (history): another has changed what this job tells since it looked.
Idle == [phase |-> "idle"]
Job(phase, k, text) == [phase |-> phase, kind |-> k, text |-> text, late |-> FALSE]

\* text, vector: the profile as the batch has it, and the vector written, if
\* any; touched: the object is among touched_object_ids; seen: the active links
\* a SELECT finds; added, closed: links changed and not flushed; context: the
\* links of the last vector written, if any was.
Batches ==
    [open: {TRUE}, text: Profiles, vector: Profiles \cup {Unwritten},
     touched: BOOLEAN, seen: SUBSET Links, added: SUBSET Links, closed: SUBSET Links,
     refreshed: BOOLEAN, context: SUBSET Links]
NoBatch == [open |-> FALSE]

TypeOK ==
    /\ source \in Sources
    /\ index \in Indexed
    /\ events \in [Kinds -> Nat]
    /\ \A w \in Workers:
          \/ job[w] = Idle
          \/ /\ job[w].phase \in {"reading", "embedding", "writing"}
             /\ job[w].kind \in Kinds
             /\ job[w].late \in BOOLEAN
             /\ job[w].text \in CASE job[w].phase = "reading" -> {NoText}
                                 [] job[w].kind = "context" -> SUBSET Links
                                 [] job[w].kind = "profile" -> Profiles
                                 [] OTHER -> MaybeText
    /\ batch = NoBatch \/ batch \in Batches
    /\ overtaken \subseteq {"profile", "chronicle"}
    /\ changes \in 0..MaxChanges
    /\ batches \in 0..MaxBatches
    /\ failures \in 0..MaxFailures

\* The object and the turn have just been written, each with its event.
Init ==
    /\ source \in {s \in Sources: s.context = {}}
    /\ index = [profile |-> Unwritten, context |-> {}, chronicle |-> NoText]
    /\ events = [k \in Kinds |-> IF k = "context" THEN 0 ELSE 1]
    /\ job = [w \in Workers |-> Idle]
    /\ batch = NoBatch
    /\ overtaken = {}
    /\ changes = 0
    /\ batches = 0
    /\ failures = 0

Change == changes < MaxChanges /\ changes' = changes + 1
-----------------------------------------------------------------------------
(***************************************************************************)
(* Changes that leave an event.  Those of the object hold the session's    *)
(* transaction lock, as a batch does.                                      *)
(***************************************************************************)

\* The outbox once a change of this kind has been committed.
Announced(k) == [events EXCEPT ![k] = @ + 1]

\* The jobs once the object has other words: one that is about to write is late.
Outdated(words) ==
    [w \in Workers |->
        IF /\ job[w].phase = "writing" /\ job[w].kind = "profile"
           /\ words # source.profile.words
        THEN [job[w] EXCEPT !.late = TRUE] ELSE job[w]]

\* A change outside patch operations: an NPC that expires.
ChangeObject(t) ==
    /\ ~batch.open
    /\ Change
    /\ source' = [source EXCEPT !.profile = t]
    /\ events' = Announced("profile")
    /\ overtaken' = overtaken \ {"profile"}
    /\ job' = Outdated(t.words)
    /\ UNCHANGED <<index, batch, batches, failures>>

\* create_link
AddLink(l) ==
    /\ ~batch.open
    /\ l \notin source.context
    /\ Change
    /\ source' = [source EXCEPT !.context = @ \cup {l}]
    /\ events' = Announced("context")
    /\ UNCHANGED <<index, job, batch, overtaken, batches, failures>>

\* patch_turn: of what a turn is told by, ai_text only.
PatchTurn(t) ==
    /\ ~batch.open
    /\ Change
    /\ source' = [source EXCEPT !.chronicle.prose = t]
    /\ events' = Announced("chronicle")
    /\ overtaken' = overtaken \ {"chronicle"}
    /\ UNCHANGED <<index, job, batch, batches, failures>>
-----------------------------------------------------------------------------
(***************************************************************************)
(* A batch of patch operations.                                            *)
(***************************************************************************)

BeginBatch ==
    /\ ~batch.open
    /\ batches < MaxBatches
    /\ batches' = batches + 1
    /\ batch' = [open |-> TRUE, text |-> source.profile, vector |-> Unwritten,
                 touched |-> FALSE, seen |-> source.context,
                 added |-> {}, closed |-> {},
                 refreshed |-> FALSE, context |-> {}]
    /\ UNCHANGED <<source, index, events, job, overtaken, changes, failures>>

\* Mutant: the rule compares nothing.
RefreshesAnyway(old, new) == BOOLEAN

\* _should_refresh_*_profile_embedding: other words need a vector; the same
\* words may be given one, and facts are not watched.
Refreshes(old, new) == IF new.words # old.words THEN {TRUE} ELSE BOOLEAN

\* object.update and, if it refreshes, _upsert_*_profile_embedding.
PatchedBatch(b, t, refresh) ==
    [b EXCEPT !.text = t, !.touched = TRUE, !.vector = IF refresh THEN t ELSE @]

PatchObject(t) ==
    /\ batch.open
    /\ Change
    /\ \E refresh \in Refreshes(batch.text, t): batch' = PatchedBatch(batch, t, refresh)
    /\ UNCHANGED <<source, index, events, job, overtaken, batches, failures>>

\* _refresh_link_context_embeddings_for_sources after these operations.
Refreshed(b) ==
    [b EXCEPT !.refreshed = TRUE, !.context = b.seen, !.touched = TRUE]

\* link.create; an edge that a SELECT finds is not created again.
PatchLink(l) ==
    /\ batch.open
    /\ l \notin batch.seen \cup batch.added
    /\ Change
    /\ batch' = Refreshed([batch EXCEPT !.added = @ \cup {l}])
    /\ UNCHANGED <<source, index, events, job, overtaken, batches, failures>>

\* link.close
PatchUnlink(l) ==
    /\ batch.open
    /\ l \in batch.seen \ batch.closed
    /\ Change
    /\ batch' = Refreshed([batch EXCEPT !.closed = @ \cup {l}])
    /\ UNCHANGED <<source, index, events, job, overtaken, batches, failures>>

LinksOf(b) == (b.seen \cup b.added) \ b.closed

\* object.create flushes.
Flush ==
    /\ batch.open
    /\ batch' = [batch EXCEPT !.seen = LinksOf(batch),
                              !.added = {}, !.closed = {}]
    /\ UNCHANGED <<source, index, events, job, overtaken, changes, batches, failures>>

\* The vectors once a batch is committed.
IndexedBy(b) ==
    [index EXCEPT !.profile = IF b.vector = Unwritten THEN @ ELSE b.vector,
                  !.context = IF b.refreshed THEN b.context ELSE @]

\* _apply_ctx_touches_for_object_ids marks what was touched, at the very end.
MarkedFacts(b) == IF b.touched THEN Texts ELSE {b.text.facts}

\* The texts once a batch is committed.
SourceOf(b, facts) ==
    [source EXCEPT !.profile = [words |-> b.text.words, facts |-> facts],
                   !.context = LinksOf(b)]

CommitBatch ==
    /\ batch.open
    /\ \E facts \in MarkedFacts(batch): source' = SourceOf(batch, facts)
    /\ index' = IndexedBy(batch)
    /\ overtaken' = IF batch.vector = Unwritten THEN overtaken
                    ELSE overtaken \ {"profile"}
    /\ job' = Outdated(batch.text.words)
    /\ batch' = NoBatch
    /\ UNCHANGED <<events, changes, batches, failures>>

\* An operation fails, or needs a vector that has not been computed yet: the
\* caller computes it and starts again (TurnApplyExternalPreparationRequired).
RollbackBatch ==
    /\ batch.open
    /\ batch' = NoBatch
    /\ UNCHANGED <<source, index, events, job, overtaken, changes, batches, failures>>
-----------------------------------------------------------------------------
(***************************************************************************)
(* The workers.                                                            *)
(***************************************************************************)

Take(w, k) ==
    /\ job[w].phase = "idle"
    /\ events[k] > 0
    /\ events' = [events EXCEPT ![k] = @ - 1]
    /\ job' = [job EXCEPT ![w] = Job("reading", k, NoText)]
    /\ UNCHANGED <<source, index, batch, overtaken, changes, batches, failures>>

\* _read_object_refresh_snapshot, _read_link_context_refresh_text and the
\* beginning of _sync_turn_chronicle_embeddings.
Read(w) ==
    /\ job[w].phase = "reading"
    /\ job' = [job EXCEPT ![w] = Job("embedding", @.kind, TextOf(@.kind))]
    /\ UNCHANGED <<source, index, events, batch, overtaken, changes, batches, failures>>

\* Mutant: the vector is written without reading the text again.
RecheckNothing(w) ==
    /\ job[w].phase = "embedding"
    /\ job' = [job EXCEPT ![w].phase = "writing"]
    /\ UNCHANGED <<source, index, events, batch, overtaken, changes, batches, failures>>

\* The jobs once this one is done; others that tell the turn are late.
Finished(w) ==
    [v \in Workers |->
        CASE v = w -> Idle
          [] /\ v # w /\ job[v].phase \in {"embedding", "writing"}
             /\ job[v].kind = "chronicle" /\ job[w].kind = "chronicle"
                -> [job[v] EXCEPT !.late = TRUE]
          [] OTHER -> job[v]]

\* The vector has been computed, if there is a text, and the writing transaction
\* reads again: the text of an object or its links, which must be the same, but
\* of a turn only the chunk, which must not be up to date.
Recheck(w) ==
    /\ job[w].phase = "embedding"
    /\ LET k == job[w].kind
           next == IF k = "chronicle" \/ source[k] = job[w].text
                   THEN [job[w] EXCEPT !.phase = "writing"]
                   ELSE Job("reading", k, NoText)
       IN  job' = IF k = "chronicle" /\ index[k] = job[w].text THEN Finished(w)
                  ELSE [job EXCEPT ![w] = next]
    /\ UNCHANGED <<source, index, events, batch, overtaken, changes, batches, failures>>

\* Is a vector of this text another one than there should be?
Differs(k, text) ==
    CASE k = "profile" -> text.words # source.profile.words
      [] k = "chronicle" -> text # ChronicleText(source.chronicle)
      [] OTHER -> FALSE

\* The upsert, or the deletion of a chunk without a text, and its commit.
Write(w) ==
    /\ job[w].phase = "writing"
    /\ LET k == job[w].kind
       IN  /\ index' = [index EXCEPT ![k] = job[w].text]
           /\ overtaken' = IF job[w].late /\ Differs(k, job[w].text)
                           THEN overtaken \cup {k} ELSE overtaken \ {k}
    /\ job' = Finished(w)
    /\ UNCHANGED <<source, events, batch, changes, batches, failures>>

\* The provider fails: the exception leaves the event to another attempt.
FailJob(w) ==
    /\ job[w].phase = "embedding" /\ job[w].text # NoText
    /\ failures < MaxFailures
    /\ failures' = failures + 1
    /\ events' = [events EXCEPT ![job[w].kind] = @ + 1]
    /\ job' = [job EXCEPT ![w] = Idle]
    /\ UNCHANGED <<source, index, batch, overtaken, changes, batches>>
-----------------------------------------------------------------------------
Next ==
    \/ \E t \in Profiles: ChangeObject(t) \/ PatchObject(t)
    \/ \E t \in MaybeText: PatchTurn(t)
    \/ \E l \in Links: AddLink(l) \/ PatchLink(l) \/ PatchUnlink(l)
    \/ BeginBatch \/ Flush \/ CommitBatch \/ RollbackBatch
    \/ \E w \in Workers:
          \/ \E k \in Kinds: Take(w, k)
          \/ Read(w) \/ Recheck(w) \/ Write(w) \/ FailJob(w)

Spec == Init /\ [][Next]_vars
-----------------------------------------------------------------------------
(***************************************************************************)
(* Properties.                                                             *)
(***************************************************************************)

\* Nothing is left to be done about the index.
Quiet ==
    /\ ~batch.open
    /\ \A k \in Kinds: events[k] = 0
    /\ \A w \in Workers: job[w] = Idle

\* Once nothing is left to be done, semantic retrieval finds the object by the
\* words it has, and the turn by what it is told by: unless the job that wrote
\* the vector was overtaken, by a change of the words after it had looked at them
\* for the last time, or by another job for the same turn that ended before it.
IndexIsCurrent ==
    Quiet =>
        /\ "profile" \notin overtaken => index.profile.words = source.profile.words
        /\ "chronicle" \notin overtaken => index.chronicle = ChronicleText(source.chronicle)

\* Nor does it find links that are closed, or miss some that are active.
ContextIsCurrent == Quiet => index.context = source.context

\* The words of an object, and what a turn is told by, never change without the
\* vector being written with them or asked for, whatever the order in which a
\* batch changed them and the rest of the text.
ChangesAreFollowed ==
    [][/\ source'.profile.words # source.profile.words =>
              \/ events'["profile"] > events["profile"]
              \/ index'.profile.words = source'.profile.words
       /\ ChronicleText(source'.chronicle) # ChronicleText(source.chronicle) =>
              events'["chronicle"] > events["chronicle"]]_vars
=============================================================================

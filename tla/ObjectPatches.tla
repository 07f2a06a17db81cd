----------------------------- MODULE ObjectPatches -----------------------------
(***************************************************************************)
(* How a patch creates and changes objects (apply_patch_ops) when what it  *)
(* says must be told, embedded and compared: the profile texts a model     *)
(* writes, the vectors of the texts, and the arbiter that says whether a   *)
(* new object is an old one.                                               *)
(*                                                                         *)
(* None of the three is asked inside the transaction.  Where one is        *)
(* missing, the attempt is rolled back, the answer is fetched and kept     *)
(* with those of earlier attempts, and the patch is applied again, to the  *)
(* world as it is by then: the endpoint that creates objects and the jobs  *)
(* that refresh vectors take no runtime lock.  While an attempt holds the  *)
(* turn lock nobody else changes objects; what a job may do to a vector    *)
(* meanwhile is in EmbeddingIndex.                                         *)
(*                                                                         *)
(* A row is [sort, brief, here, desc, fact, status]: brief is "ephemeral", *)
(* here "in the player's zone", desc the text keys and fact the scalar     *)
(* keys of data.  A text says desc and fact, and by whom it was written;   *)
(* a vector is the text it embeds.  Links, claims and the statuses' effect *)
(* on them are in WorldGraph and ClaimKnowledge.                           *)
(***************************************************************************)
EXTENDS Integers, Sequences, SequencesExt, FiniteSets

CONSTANTS Ids, Population, \* the ids, and the rows there may be at first
          Patches, Arrivals, \* patches, and rows the endpoint creates
          MaxPatches, MaxNoise \* bounds

VARIABLES rows, vectors, \* committed objects and profile vectors
          cache,     \* _profile_synth_cache
          patch, phase, need,
          tx,        \* the attempt under way
          artifacts, \* TurnApplyExternalArtifacts of this patch
          refMap,      \* ref_map of the patch applied last
          asked,     \* history: what has been asked for this patch
          patches, noise

vars == <<rows, vectors, cache, patch, phase, need, tx, artifacts, refMap,
          asked, patches, noise>>

NoRow == [sort |-> "none"]
Untold == [sort |-> "none"]
NoNeed == [kind |-> "none"]
Refusal == [kind |-> "refused"]
NoTx == [at |-> 0]
Nobody == "nobody"
Keep == "keep"
Nothing == "nothing"  \* the key is not in data; in a patch, null deletes it
Empty == [x \in {} |-> x]
NoArtifacts == [texts |-> Empty, vectors |-> {}, verdicts |-> Empty]

Sorts == {"npc", "player", "item", "zone", "faction", "quest"}
\* What a key may hold: strings, and among them those of this module.
Words == STRING \cup {"active", Keep, Nothing}
Row == [sort : Sorts, brief : BOOLEAN, here : BOOLEAN,
        desc : Words, fact : Words, status : Words]

\* The operations: what is created, and what becomes of the keys of one.
Creation == [op : {"create"}, ref : STRING, sort : Sorts, brief : BOOLEAN,
             unique : BOOLEAN, desc : Words, fact : Words]
Values == [desc : Words, fact : Words, status : Words]
Update == [op : {"update"}, target : STRING, values : Values]

With(f, key, value) == [x \in DOMAIN f \cup {key} |-> IF x = key THEN value ELSE f[x]]

Present == {o \in Ids : rows[o] # NoRow}

TypeOK ==
    /\ \A o \in Ids : vectors[o] # Untold => rows[o] # NoRow
    /\ phase \in {"idle", "apply", "prepare"}
    /\ need.kind \in {"none", "text", "vectors", "verdict"}
    /\ phase = "prepare" <=> need # NoNeed
    /\ phase = "apply" <=> tx # NoTx
    /\ patches \in 0..MaxPatches /\ noise \in 0..MaxNoise
-----------------------------------------------------------------------------
(***************************************************************************)
(* Texts.                                                                  *)
(***************************************************************************)

\* The builders of crud_profiles.py: statuses and the like are left out.
Profile(row, by) ==
    [sort |-> row.sort, desc |-> row.desc, fact |-> row.fact, by |-> by]

\* Mutant: a key of what the text begins with.
KeyOfDescription(row) == [sort |-> row.sort, desc |-> row.desc]

\* _profile_synth_cache_key: all of the data, not what is told of it.
CacheKey(row) ==
    [sort |-> row.sort, brief |-> row.brief, desc |-> row.desc,
     fact |-> row.fact, status |-> row.status]

\* _maybe_synthesize_profile_text while a patch is applied: it asks nobody.
TextOf(row) ==
    CASE CacheKey(row) \in DOMAIN cache -> cache[CacheKey(row)]
      [] CacheKey(row) \notin DOMAIN cache
         /\ CacheKey(row) \in DOMAIN artifacts.texts -> artifacts.texts[CacheKey(row)]
      [] OTHER -> Untold

Changes(value, old) == value # Keep /\ value # old

\* Mutant: only a scalar that is set.
TellsWhatIsSet(p, old) == p.fact \notin {Keep, Nothing}

\* A scalar is told wherever it is set, and where one is deleted.
Tells(p, old) == p.fact # Keep /\ ~(p.fact = Nothing /\ old.fact = Nothing)

RefreshNpc(p, old) == p.desc # Keep \/ Tells(p, old)
RefreshPlayer(p, old) == Changes(p.desc, old.desc) \/ Tells(p, old)
\* Zones, items, factions and quests: the text keys only.
RefreshByText(p, old) == Changes(p.desc, old.desc)

ShouldRefresh(p, old) ==
    CASE old.sort = "npc" -> RefreshNpc(p, old)
      [] old.sort = "player" -> RefreshPlayer(p, old)
      [] OTHER -> RefreshByText(p, old)
-----------------------------------------------------------------------------
(***************************************************************************)
(* One attempt.  Its state st has the rows and vectors as the patch sees   *)
(* them, and in st.db as a SELECT sees them: as they were flushed.         *)
(***************************************************************************)

Begin == [at |-> 1, rows |-> rows, vectors |-> vectors,
          db |-> [rows |-> rows, vectors |-> vectors],
          refs |-> Empty, need |-> NoNeed]

\* TurnApplyExternalPreparationRequired
Needs(st, request) == [st EXCEPT !.need = request]
TextRequest(row) == [kind |-> "text", row |-> row]
VectorRequest(texts) == [kind |-> "vectors", texts |-> texts]
Refused(st) == Needs(st, Refusal)

\* _maybe_embed_texts with artifacts
Missing(texts) == texts \ artifacts.vectors

\* _upsert_npc_profile_embedding and its like
UpsertProfileEmbedding(st, o) ==
    LET text == TextOf(st.rows[o])
    IN  CASE text = Untold -> Needs(st, TextRequest(st.rows[o]))
          [] text # Untold /\ Missing({text}) # {} -> Needs(st, VectorRequest({text}))
          [] OTHER -> [st EXCEPT !.vectors[o] = text]

\* _apply_object_patch_to_row
ApplyObjectPatch(st, o, p) ==
    LET old == st.rows[o]
        new == [f \in DOMAIN old |->
                    IF f \in DOMAIN p /\ p[f] # Keep THEN p[f] ELSE old[f]]
        patched == [st EXCEPT !.rows[o] = new]
    IN  IF ShouldRefresh(p, old) THEN UpsertProfileEmbedding(patched, o) ELSE patched

Created(op) ==
    [sort |-> op.sort, brief |-> op.brief, here |-> FALSE,
     desc |-> op.desc, fact |-> op.fact, status |-> "active"]

IsCreate(i) == patch[i].op = "create"
\* The creations from i on, up to the next operation of another kind.
Chunk(i) == {j \in i..Len(patch) : \A k \in i..j : IsCreate(k)}
FirstOfChunk(i) == i = 1 \/ ~IsCreate(i - 1)

\* _prepare_object_create_chunk: the texts one by one, then the vectors of
\* each sort at once.
PrepareChunk(st, i) ==
    LET untold == {j \in Chunk(i) : TextOf(Created(patch[j])) = Untold}
        texts == {TextOf(Created(patch[j])) : j \in Chunk(i)}
        unseen == {j \in Chunk(i) : Missing({TextOf(Created(patch[j]))}) # {}}
        First(js) == CHOOSE j \in js : \A k \in js : j <= k
    IN  CASE untold # {} -> Needs(st, TextRequest(Created(patch[First(untold)])))
          [] untold = {} /\ unseen # {} ->
                Needs(st, VectorRequest({t \in Missing(texts) :
                                            t.sort = patch[First(unseen)].sort}))
          [] OTHER -> st

\* Cosine similarity: above the threshold, in the gray zone, below it.
Similarity(a, b) ==
    CASE a.desc = b.desc /\ a.fact = b.fact -> 2
      [] a.desc = b.desc /\ a.fact # b.fact -> 1
      [] OTHER -> 0

\* _find_ephemeral_npc_dedup_candidate looks among the ephemeral NPCs that
\* are in the player's zone, or were when they went offstage.
InReach(row) == row.brief /\ row.here

\* Mutant: the dead are candidates too.
CandidatesDeadOrAlive(st, op) ==
    {o \in Ids : /\ st.db.vectors[o] # Untold
                 /\ st.db.rows[o].sort = op.sort
                 /\ op.brief => InReach(st.db.rows[o])
                 /\ ~op.unique /\ op.sort # "player"}

\* The queries of all _find_..._dedup_candidate, before the nearest is taken.
Candidates(st, op) ==
    {o \in Ids : /\ st.db.vectors[o] # Untold
                 /\ st.db.rows[o].sort = op.sort
                 /\ st.db.rows[o].status # "inactive"
                 /\ op.brief => InReach(st.db.rows[o])
                 /\ ~op.unique /\ op.sort # "player"}

\* The rows a query for the nearest may return: equally near ones come in
\* any order.
Nearest(st, op) ==
    LET text == TextOf(Created(op))
        all == Candidates(st, op)
    IN  IF text = Untold \/ all = {} THEN {Nobody}
        ELSE {o \in all : \A x \in all : Similarity(text, st.db.vectors[o])
                                            >= Similarity(text, st.db.vectors[x])}

\* The payload of the arbiter: both texts, and how similar the vectors are.
Question(text, other, vector) ==
    [incoming |-> text, candidate |-> other, vector |-> vector]

\* What a creation means to the object it turns out to be: no name, and no
\* key it does not have; _prepare_reused_ephemeral_npc_patch_data.
ReusePatch(op, old) ==
    LET back == op.brief /\ old.status = "offstage"
    IN  [desc |-> op.desc,
         fact |-> IF op.fact = Nothing THEN Keep ELSE op.fact,
         status |-> IF back THEN "active" ELSE Keep]

Reuse(st, op, o) ==
    ApplyObjectPatch([st EXCEPT !.refs = With(@, op.ref, o)], o,
                     ReusePatch(op, st.rows[o]))

\* The new row is flushed, with all that was pending; its vector is not.
AddObject(st, op, text) ==
    LET id == CHOOSE o \in Ids : st.rows[o] = NoRow
        all == [st.rows EXCEPT ![id] = Created(op)]
    IN  [st EXCEPT !.rows = all, !.vectors[id] = text,
                   !.db = [rows |-> all, vectors |-> st.vectors],
                   !.refs = With(@, op.ref, id)]

\* _should_reuse_by_similarity_or_arbiter of the nearest candidate o, and
\* what follows from it
ObjectCreate(st, op, o) ==
    LET text == TextOf(Created(op))
        like == IF o = Nobody THEN 0 ELSE Similarity(text, st.db.vectors[o])
        other == TextOf(st.db.rows[o])
        question == Question(text, other, st.db.vectors[o])
        verdicts == artifacts.verdicts
    IN  CASE op.ref \in DOMAIN st.refs -> Refused(st)
          [] op.ref \notin DOMAIN st.refs /\ like = 2 -> Reuse(st, op, o)
          [] op.ref \notin DOMAIN st.refs /\ like = 0 -> AddObject(st, op, text)
          [] OTHER ->
                CASE other = Untold -> Needs(st, TextRequest(st.db.rows[o]))
                  [] other # Untold /\ question \notin DOMAIN verdicts ->
                        Needs(st, [kind |-> "verdict", question |-> question])
                  [] other # Untold /\ question \in DOMAIN verdicts ->
                        IF verdicts[question] THEN Reuse(st, op, o)
                        ELSE AddObject(st, op, text)

\* _resolve_object_ref, _require_object
Resolved(refs, target) == IF target \in DOMAIN refs THEN refs[target] ELSE target

ObjectUpdate(st, op) ==
    LET o == Resolved(st.refs, op.target)
    IN  IF o \notin Ids \/ st.rows[o] = NoRow THEN Refused(st)
        ELSE ApplyObjectPatch(st, o, op.values)

\* One turn of the loop of apply_patch_ops.
ApplyOperation(st, o) ==
    LET i == st.at
        ready == IF IsCreate(i) /\ FirstOfChunk(i) THEN PrepareChunk(st, i) ELSE st
    IN  CASE ready.need # NoNeed -> ready
          [] ready.need = NoNeed /\ IsCreate(i) -> ObjectCreate(ready, patch[i], o)
          [] OTHER -> ObjectUpdate(ready, patch[i])
-----------------------------------------------------------------------------
\* Objects of earlier turns, each with the vector of its text, or without one.
Init ==
    /\ rows \in Population
    /\ vectors = [o \in Ids |-> IF rows[o] = NoRow THEN Untold ELSE Profile(rows[o], "model")]
    /\ cache = Empty /\ artifacts = NoArtifacts
    /\ patch = <<>> /\ phase = "idle" /\ need = NoNeed /\ tx = NoTx /\ refMap = Empty
    /\ asked = {} /\ patches = 0 /\ noise = 0

world == <<rows, vectors, cache>>

\* apply_pending_graph_ops: artifacts are of one patch.
BeginPatch ==
    /\ phase = "idle" /\ patches < MaxPatches
    /\ patches' = patches + 1
    /\ patch' \in Patches
    /\ phase' = "apply" /\ tx' = Begin
    /\ artifacts' = NoArtifacts /\ refMap' = Empty /\ asked' = {}
    /\ UNCHANGED <<world, need, noise>>

Applied ==
    {ApplyOperation(tx, o) :
        o \in IF IsCreate(tx.at) THEN Nearest(tx, patch[tx.at]) ELSE {Nobody}}
MoreToApply == phase = "apply" /\ tx.at <= Len(patch)

\* Bound: an instance has an id for every row there will be.
IdsAreLeft(table) == \E o \in Ids : table[o] = NoRow

ApplyNext ==
    /\ MoreToApply
    /\ IdsAreLeft(tx.rows)
    /\ \E st \in Applied :
          /\ st.need = NoNeed
          /\ tx' = [st EXCEPT !.at = @ + 1]
    /\ UNCHANGED <<world, patch, phase, need, artifacts, refMap, asked, patches, noise>>

Asks(request) ==
    CASE request.kind = "text" -> {CacheKey(request.row)}
      [] request.kind = "vectors" -> request.texts
      [] OTHER -> {request.question}

\* The transaction is rolled back and the request carried out of it.
RollbackForPreparation ==
    /\ MoreToApply
    /\ \E st \in Applied : need' = st.need
    /\ need' \notin {NoNeed, Refusal}
    /\ phase' = "prepare" /\ tx' = NoTx
    /\ asked' = asked \cup Asks(need')
    /\ UNCHANGED <<world, patch, artifacts, refMap, patches, noise>>

\* Any other exception leaves the loop.
RefusePatch ==
    /\ MoreToApply
    /\ \E st \in Applied : st.need = Refusal
    /\ phase' = "idle" /\ tx' = NoTx
    /\ UNCHANGED <<world, patch, need, artifacts, refMap, asked, patches, noise>>

CommitPatch ==
    /\ phase = "apply" /\ ~MoreToApply
    /\ rows' = tx.rows /\ vectors' = tx.vectors /\ refMap' = tx.refs
    /\ phase' = "idle" /\ tx' = NoTx
    /\ UNCHANGED <<cache, patch, need, artifacts, asked, patches, noise>>

Retry(learnt) ==
    /\ artifacts' = learnt
    /\ phase' = "apply" /\ need' = NoNeed /\ tx' = Begin
    /\ UNCHANGED <<rows, vectors, patch, refMap, asked, patches, noise>>

\* _maybe_synthesize_profile_text outside the transaction: another thread's
\* text, the model's, or, when the model fails, one put together from the
\* data, which is not cached.
Synthesized(row, by) ==
    IF CacheKey(row) \in DOMAIN cache THEN cache[CacheKey(row)] ELSE Profile(row, by)

\* Mutant: what is not cached is not kept.
LearnCached(key, text) ==
    IF text.by = "model" THEN [artifacts EXCEPT !.texts = With(@, key, text)] ELSE artifacts

\* store_turn_apply_profile_text
LearnText(key, text) == [artifacts EXCEPT !.texts = With(@, key, text)]

PrepareText ==
    /\ phase = "prepare" /\ need.kind = "text"
    /\ \E by \in {"model", "plain"} :
          LET key == CacheKey(need.row)
              text == Synthesized(need.row, by)
          IN  /\ Retry(LearnText(key, text))
              /\ cache' = IF text.by = "model" THEN With(cache, key, text) ELSE cache

\* _maybe_embed_texts outside the transaction
PrepareVectors ==
    /\ phase = "prepare" /\ need.kind = "vectors"
    /\ Retry([artifacts EXCEPT !.vectors = @ \cup need.texts])
    /\ UNCHANGED cache

\* _call_dedup_arbiter: a failure says no.
PrepareVerdict ==
    /\ phase = "prepare" /\ need.kind = "verdict"
    /\ \E same \in BOOLEAN :
          Retry([artifacts EXCEPT !.verdicts = With(@, need.question, same)])
    /\ UNCHANGED cache

\* The embedding service fails, and with it the patch.
EmbeddingFails ==
    /\ phase = "prepare" /\ need.kind = "vectors"
    /\ phase' = "idle" /\ need' = NoNeed
    /\ UNCHANGED <<world, patch, tx, artifacts, refMap, asked, patches, noise>>
-----------------------------------------------------------------------------
(***************************************************************************)
(* What others do meanwhile.                                               *)
(***************************************************************************)

Meanwhile == tx = NoTx /\ noise < MaxNoise /\ noise' = noise + 1

loop == <<patch, phase, need, tx, artifacts, refMap, asked, patches>>

\* create_object: the vector is left to a job.
CreateObjectByEndpoint ==
    /\ Meanwhile
    /\ IdsAreLeft(rows)
    /\ \E row \in Arrivals :
          LET id == CHOOSE o \in Ids : rows[o] = NoRow
          IN  rows' = [rows EXCEPT ![id] = row]
    /\ UNCHANGED <<vectors, cache, loop>>

\* The refresh job of an object (its own races are in EmbeddingIndex).
RefreshProfile ==
    /\ tx = NoTx
    /\ \E o \in Present, by \in {"model", "plain"} :
          LET key == CacheKey(rows[o])
              text == Synthesized(rows[o], by)
          IN  /\ vectors[o] = Untold
              /\ vectors' = [vectors EXCEPT ![o] = text]
              /\ cache' = IF text.by = "model" THEN With(cache, key, text) ELSE cache
    /\ UNCHANGED <<rows, loop, noise>>

\* An entry expires, or is the least recently used one.
EvictText ==
    /\ Meanwhile
    /\ \E key \in DOMAIN cache : cache' = [k \in DOMAIN cache \ {key} |-> cache[k]]
    /\ UNCHANGED <<rows, vectors, loop>>
-----------------------------------------------------------------------------
Next ==
    \/ BeginPatch
    \/ ApplyNext \/ RollbackForPreparation \/ RefusePatch \/ CommitPatch
    \/ PrepareText \/ PrepareVectors \/ PrepareVerdict \/ EmbeddingFails
    \/ CreateObjectByEndpoint \/ RefreshProfile \/ EvictText

Spec == Init /\ [][Next]_vars
-----------------------------------------------------------------------------
(***************************************************************************)
(* Properties.                                                             *)
(***************************************************************************)

\* The vector of an object is that of the object as it is: of its
\* description, and for characters of every fact in their data.
VectorsTellTheObjects ==
    \A o \in Ids :
        vectors[o] # Untold =>
            /\ vectors[o].desc = rows[o].desc
            /\ rows[o].sort \in {"npc", "player"} => vectors[o].fact = rows[o].fact

Creations == {i \in DOMAIN patch : IsCreate(i)}

\* The object that an operation of the patch is about, by the names given.
Subject(refs, i) == Resolved(refs, IF IsCreate(i) THEN patch[i].ref ELSE patch[i].target)

\* No operation before this one is about that object.
LeftAlone(refs, o, i) == \A j \in 1..(i - 1) : Subject(refs, j) # o

\* The objects a patch could have found a creation to be, as it was.
Twins(op) ==
    {o \in Present : /\ vectors[o] # Untold
                     /\ <<vectors[o].sort, vectors[o].desc, vectors[o].fact>>
                            = <<op.sort, op.desc, op.fact>>
                     /\ rows[o].status # "inactive"
                     /\ op.brief => InReach(rows[o])}

\* The arbiter was shown these two and said that they are the same.
Affirmed(op, o) ==
    \E q \in DOMAIN artifacts.verdicts :
        /\ artifacts.verdicts[q]
        /\ <<q.incoming.desc, q.incoming.fact>> = <<op.desc, op.fact>>
        /\ <<q.candidate.desc, q.candidate.fact>> = <<rows[o].desc, rows[o].fact>>

\* Once a patch is applied, a creation is an object of its sort, and not one
\* that is gone, unless the patch made it so.  It is an object of its own only
\* if the patch had dealt with each of its twins before; it is an old one that
\* the patch had not dealt with before only if that was its twin, or the
\* arbiter said so of these two.
CreationsAreResolved ==
    \A i \in Creations :
        LET op == patch[i]
            o == Subject(refMap', i)
        IN  /\ rows'[o].sort = op.sort
            /\ rows'[o].status = "inactive" =>
                  \E u \in DOMAIN patch \ Creations :
                      Subject(refMap', u) = o /\ patch[u].values.status = "inactive"
            /\ LeftAlone(refMap', o, i) =>
                  IF rows[o] = NoRow
                  THEN \/ op.unique \/ op.sort = "player"
                       \/ \A x \in Twins(op) : ~LeftAlone(refMap', x, i)
                  ELSE o \in Twins(op) \/ Affirmed(op, o)

\* Whatever others do meanwhile, nothing is asked twice for one patch, so
\* that the attempts come to an end.
NothingIsAskedTwice ==
    [][RollbackForPreparation => asked \cap Asks(need') = {}]_vars

AppliedPatchIsSound ==
    /\ [](TypeOK /\ VectorsTellTheObjects)
    /\ [][CommitPatch => CreationsAreResolved]_vars
    /\ NothingIsAskedTwice
=============================================================================

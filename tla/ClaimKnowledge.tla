---------------------------- MODULE ClaimKnowledge ----------------------------
(***************************************************************************)
(* Claims and who knows of them (crud_claims.py, the claim rules of        *)
(* crud_patch_apply.py and the lists crud_context.py shows the narrator).  *)
(* What an NPC knows is never stored with the NPC: it follows from the     *)
(* "heard" and "asserted" links to a claim, whose text therefore must not  *)
(* change once there is an audience.  Patches check who may hear; a client *)
(* may also write such a link itself (create_link), which checks nothing.  *)
(*                                                                         *)
(* A patch applies its operations in one transaction and its SELECTs see   *)
(* only what has been flushed, by the creation of an object or at the end; *)
(* the claim itself is one row of the session's identity map and is seen   *)
(* at once.                                                                *)
(***************************************************************************)
EXTENDS Integers, FiniteSets

CONSTANTS Claims, Actors, Zones, Texts,
          Sinces,  \* turns in which a client lets a link begin
          Limit,   \* entries of a list
          MaxTurn, \* bound
          MaxOps   \* bound on the operations of a patch

VARIABLES turn,  \* the turn that is being applied
          claim, \* by claim: text and location, once it is made
          place, \* by actor: where it is, was last, and since when it counts
          links, \* flushed rows from an actor to a claim; history: made, by
          tx,    \* operations so far and what they have not flushed
          told,  \* history: the words in which an actor last learnt a claim
          amended \* history: who learnt what in words the same batch changed

vars == <<turn, claim, place, links, tx, told, amended>>

Turns == 1..MaxTurn
None == "none"
Keep == "keep"
Unmade == [made |-> FALSE, text |-> None, location |-> None]
Audience == {"asserted", "heard"}

NoTx == [ops |-> 0, fresh |-> {}, closing |-> {},
         goes |-> [a \in Actors |-> Keep]]

TypeOK ==
    /\ turn \in 1..MaxTurn + 1
    /\ claim \in [Claims -> [made : BOOLEAN, text : Texts \cup {None},
                             location : Zones \cup {None}]]
    /\ place \in [Actors -> [zone : Zones \cup {None}, last : Zones,
                             floor : 0..MaxTurn]]
    /\ \A l \in links : l.type \in Audience /\ claim[l.claim].made
    /\ tx.ops \in 0..MaxOps

\* The data of an NPC may name a spawn turn that is still to come.
Init ==
    /\ turn = 1
    /\ claim = [c \in Claims |-> Unmade]
    /\ place \in [Actors -> {p \in [zone : Zones, last : Zones, floor : {0, MaxTurn}] :
                                p.zone = p.last}]
    /\ links = {}
    /\ tx = NoTx
    /\ told = [a \in Actors |-> [c \in Claims |-> None]]
    /\ amended = {}

Active == {l \in links : l.active}

\* _get_claim_asserted_speaker_ids: the first of them.
Speakers(c) == {l \in Active : l.claim = c /\ l.type = "asserted"}

\* _infer_actor_zone_id: where the actor is, or was last.
InferActorZone(a) ==
    IF place[a].zone # None THEN place[a].zone ELSE place[a].last

\* What a claim without a location gets for one.
ZonesOfSpeakers(c) ==
    IF Speakers(c) = {} THEN {None}
    ELSE {InferActorZone(l.actor) :
            l \in {m \in Speakers(c) : \A other \in Speakers(c) : m.from <= other.from}}

\* _claim_has_audience_links: active or not.
HasAudience(c) == \E l \in links : l.claim = c

\* _get_claim_first_turn: the turns of all its links, the least of which it is.
AudienceTurns(c) == {l.from : l \in {m \in links : m.claim = c}}

FirstTurn(c) ==
    IF AudienceTurns(c) = {} THEN turn
    ELSE CHOOSE t \in AudienceTurns(c) : \A other \in AudienceTurns(c) : t <= other

\* _resolve_claim_zone_id_for_link_validation
ClaimZones(c) ==
    IF claim[c].location # None THEN {claim[c].location} ELSE ZonesOfSpeakers(c)

\* _validate_claim_audience_link_create: an actor hears a claim in the turn in
\* which it is first uttered, where it is uttered, and if it is there already.
MayHear(a, c) ==
    /\ turn = FirstTurn(c)
    /\ place[a].zone \in ClaimZones(c) \ {None}
    /\ place[a].floor <= FirstTurn(c)
-----------------------------------------------------------------------------
\* The row of a link that begins in the turn that writes it.
NewLink(a, c, type) ==
    [claim |-> c, type |-> type, actor |-> a, from |-> turn, active |-> TRUE,
     made |-> turn, by |-> "turn"]

Learns(a, c, text) ==
    /\ told' = [told EXCEPT ![a][c] = text]
    /\ amended' = amended \ {<<a, c>>}

\* db.flush(): the rows of the links that are added or closed are written.
Flushed ==
    (links \ tx.closing) \cup {[l EXCEPT !.active = FALSE] : l \in tx.closing}
        \cup {NewLink(f.actor, f.claim, f.type) : f \in tx.fresh}

PlaceFlushed ==
    [a \in Actors |->
        CASE tx.goes[a] = Keep -> place[a]
          [] tx.goes[a] = None -> [place[a] EXCEPT !.zone = None]
          [] tx.goes[a] \in Zones ->
                [place[a] EXCEPT !.zone = tx.goes[a], !.last = tx.goes[a]]]

Flush(ops) ==
    /\ links' = Flushed
    /\ place' = PlaceFlushed
    /\ tx' = [NoTx EXCEPT !.ops = ops]

MoreOps == turn <= MaxTurn /\ tx.ops < MaxOps
Patches(step) == tx' = [step EXCEPT !.ops = @ + 1]

\* object.create of a claim, as the model worded and placed it.
CreateClaimObject(c, text, zone) ==
    /\ MoreOps /\ ~claim[c].made
    /\ claim' = [claim EXCEPT ![c] = [made |-> TRUE, text |-> text, location |-> zone]]
    /\ Flush(tx.ops + 1)
    /\ UNCHANGED <<turn, told, amended>>

\* Mutant: the text is patched like any other field.
PatchedAlways(c, text) == IF text = Keep THEN claim[c].text ELSE text

\* A new text, or none (null), is dropped when there is an audience.
PatchedText(c, text) ==
    IF text = Keep \/ HasAudience(c) THEN claim[c].text ELSE text

\* _apply_object_patch_to_row of a claim; a location that is missing, or taken
\* away, is filled in again from the speaker.
UpdateClaimObject(c, text, zone) ==
    /\ MoreOps /\ claim[c].made
    /\ LET patched == IF zone = Keep THEN claim[c].location ELSE zone
       IN  \E found \in IF patched = None THEN ZonesOfSpeakers(c) ELSE {patched} :
              claim' = [claim EXCEPT ![c] = [@ EXCEPT !.text = PatchedText(c, text),
                                                !.location = found]]
    /\ amended' = IF claim'[c].text = claim[c].text THEN amended
                  ELSE amended \cup {<<f.actor, c>> : f \in {g \in tx.fresh : g.claim = c}}
    /\ Patches(tx)
    /\ UNCHANGED <<turn, place, links, told>>

\* link.create of an audience link; one that is active already is skipped, and
\* asserting backfills the location (_backfill_claim_location_from_speaker).
CreateAudienceLink(a, c, type) ==
    /\ MoreOps /\ claim[c].made
    /\ [claim |-> c, type |-> type, actor |-> a] \notin tx.fresh
    /\ ~\E l \in Active : l.claim = c /\ l.type = type /\ l.actor = a
    /\ type = "heard" => MayHear(a, c)
    /\ claim' = IF type = "asserted" /\ claim[c].location = None
                THEN [claim EXCEPT ![c].location = InferActorZone(a)] ELSE claim
    /\ Learns(a, c, claim[c].text)
    /\ Patches([tx EXCEPT !.fresh = @ \cup {[claim |-> c, type |-> type, actor |-> a]}])
    /\ UNCHANGED <<turn, place, links>>

\* link.close, and what follows the deactivation of an actor.
CloseAudienceLink(l) ==
    /\ MoreOps /\ l \in Active \ tx.closing
    /\ Patches([tx EXCEPT !.closing = @ \cup {l}])
    /\ UNCHANGED <<turn, claim, place, links, told, amended>>

\* An actor leaves, or leaves for another zone.
MoveActor(a, zone) ==
    /\ MoreOps /\ place[a].zone \notin {zone, None} /\ tx.goes[a] = Keep
    /\ Patches([tx EXCEPT !.goes[a] = zone])
    /\ UNCHANGED <<turn, claim, place, links, told, amended>>

\* _prepare_reused_ephemeral_npc_patch_data: an offstage NPC is back, and was
\* not there before this turn.
BringBack(a, zone) ==
    /\ MoreOps /\ place[a].zone = None /\ tx.goes[a] = Keep
    /\ place' = [place EXCEPT ![a].floor = turn]
    /\ Patches([tx EXCEPT !.goes[a] = zone])
    /\ UNCHANGED <<turn, claim, links, told, amended>>

\* The last flush and the commit.
CommitTurn ==
    /\ tx.ops > 0
    /\ Flush(0)
    /\ turn' = turn + 1
    /\ UNCHANGED <<claim, told, amended>>

\* create_claim: the endpoint's turn of its own, with any listeners.
CreateClaim(c, text, speaker, listeners, zone) ==
    /\ turn <= MaxTurn /\ tx.ops = 0 /\ ~claim[c].made /\ listeners # {}
    /\ claim' = [claim EXCEPT ![c] = [made |-> TRUE, text |-> text, location |->
          IF zone = None THEN InferActorZone(speaker) ELSE zone]]
    /\ links' = links \cup {NewLink(speaker, c, "asserted")}
                     \cup {NewLink(a, c, "heard") : a \in listeners}
    /\ told' = [a \in Actors |->
          IF a \in listeners \cup {speaker} THEN [told[a] EXCEPT ![c] = text]
          ELSE told[a]]
    /\ turn' = turn + 1
    /\ UNCHANGED <<place, tx, amended>>

\* create_link of an audience link, in a turn of its own: whoever, wherever and
\* from whichever turn on, only not twice at a time.
PostHearing(a, c, type, from, active) ==
    /\ turn <= MaxTurn /\ tx.ops = 0 /\ claim[c].made
    /\ active => ~\E l \in Active : l.claim = c /\ l.type = type /\ l.actor = a
    /\ links' = links \cup
          {[claim |-> c, type |-> type, actor |-> a, from |-> from,
            active |-> active, made |-> turn, by |-> "client"]}
    /\ Learns(a, c, claim[c].text)
    /\ turn' = turn + 1
    /\ UNCHANGED <<claim, place, tx>>

Next ==
    \/ \E c \in Claims, text \in Texts, zone \in Zones \cup {None} :
          \/ CreateClaimObject(c, text, zone)
          \/ \E speaker \in Actors, listeners \in SUBSET Actors :
                CreateClaim(c, text, speaker, listeners, zone)
    \/ \E c \in Claims, text \in Texts \cup {Keep, None},
          zone \in Zones \cup {Keep, None} : UpdateClaimObject(c, text, zone)
    \/ \E a \in Actors, c \in Claims, type \in Audience : CreateAudienceLink(a, c, type)
    \/ \E a \in Actors, c \in Claims, type \in Audience, from \in Sinces,
          active \in BOOLEAN : PostHearing(a, c, type, from, active)
    \/ \E l \in links : CloseAudienceLink(l)
    \/ \E a \in Actors, zone \in Zones : MoveActor(a, zone) \/ BringBack(a, zone)
    \/ \E a \in Actors : MoveActor(a, None)
    \/ CommitTurn

Spec == Init /\ [][Next]_vars
-----------------------------------------------------------------------------
(***************************************************************************)
(* What the narrator is shown between two turns.                           *)
(***************************************************************************)

\* _list_active_npc_claim_links_for_knowledge
KnowledgeLinks(a) == {l \in Active : l.actor = a /\ l.type \in Audience}

\* _build_zone_npc_knowledge: a claim without a text is left out.
KnownTo(a) == {c \in {l.claim : l \in KnowledgeLinks(a)} : claim[c].text # None}

\* _build_claim_audience_map
AudienceOf(c) == {l.actor : l \in {m \in Active : m.claim = c}}

\* _list_active_zone_actor_ids
ActiveZoneActors(zone) == {a \in Actors : place[a].zone = zone}

Made == {c \in Claims : claim[c].made}
InZone(zone) == {c \in Made : claim[c].location = zone}
Unplaced == {c \in Made : claim[c].location = None}
Heeded(zone) ==
    {c \in Unplaced : AudienceOf(c) \cap ActiveZoneActors(zone) # {}}

Least(a, b) == IF a < b THEN a ELSE b

\* _list_relevant_claims_for_input and _list_zone_recent_claims: those of the
\* zone, the best by weight when there are too many, and if there is room some
\* without a place that someone present has said or heard.
ZoneClaims(zone, shown) ==
    /\ shown \subseteq InZone(zone) \cup Heeded(zone)
    /\ Cardinality(shown) <= Limit
    /\ Cardinality(shown \cap InZone(zone)) = Least(Limit, Cardinality(InZone(zone)))

\* Between two turns, whatever was said, heard, closed, moved and reworded:
\* an actor knows a claim in the words it learnt it in, unless the batch that
\* let it know changed them before it wrote the link; nobody has heard it from a
\* patch later than the links written by then say it was first uttered; and a
\* claim without a place is only shown where someone is present who knows of it.
KnowledgeIsHeard ==
    tx = NoTx =>
        /\ \A a \in Actors, c \in Made :
              c \in KnownTo(a) => told[a][c] = claim[c].text \/ <<a, c>> \in amended
        /\ \A l, m \in links :
              l.claim = m.claim /\ l.type = "heard" /\ l.by = "turn" =>
                  l.from <= m.from \/ m.made > l.made
        /\ \A zone \in Zones, shown \in SUBSET Claims :
              ZoneClaims(zone, shown) => \A c \in shown \ InZone(zone) :
                  claim[c].text # None =>
                      \E a \in ActiveZoneActors(zone) : c \in KnownTo(a)
=============================================================================

----------------------------- MODULE WorldGraph -----------------------------
(***************************************************************************)
(* The relationship graph of one session: the links table, the patch       *)
(* operations that change it (crud_patch_apply.py), the player's movement  *)
(* (crud_movement.py), the clean-up of NPCs whose time is over, and the    *)
(* list of applied operations every turn keeps in ai_json.applied_ops.     *)
(*                                                                         *)
(* The handlers hold the session runtime lock, so one transaction runs at  *)
(* a time; inside it the operations of a batch are applied one by one.     *)
(* SQLAlchemy sessions are opened with autoflush=False (db.py): a SELECT   *)
(* sees neither the links a batch has added nor the ones it has closed     *)
(* until something flushes.  tx.fresh and tx.dirty are those links.        *)
(***************************************************************************)
EXTENDS Integers, FiniteSets

CONSTANTS Player, Npcs, Items, Quests, Zones,
          Windows,  \* bound on the valid turns a client asks for
          MaxTurn,  \* bound on the turn index
          MaxOps    \* bound on the operations of a batch

ASSUME BoundsAssumption ==
    /\ MaxTurn \in Nat /\ MaxOps \in Nat \ {0}
    /\ Windows \subseteq [since: 0..MaxTurn, until: 0..MaxTurn \cup {-1}]

\* The objects by type, no two of which share an id.
ASSUME ObjectsAssumption ==
    /\ Zones # {}
    /\ LET kinds == <<{Player}, Npcs, Items, Quests, Zones>>
       IN  \A i, j \in 1..5: i # j => kinds[i] \cap kinds[j] = {}

VARIABLES turn,    \* sessions.turn_index
          pending, \* a turn is allocated and its plan not yet applied
          links,   \* the links table as a SELECT of the transaction sees it
          quest,   \* data.status of the quests, by kind
          npc,     \* data.status of the NPCs
          ledger,  \* the active edges a replay of all applied_ops arrives at
          ended,   \* history: the turn a quest last came to its end
          saved,   \* what a rollback restores
          tx       \* the open transaction

world == <<links, quest, npc, ledger, ended>>
vars == <<turn, pending, world, saved, tx>>

Turns == 0..MaxTurn
Open == -1

\* One type for each way a type is treated.
Support == {"friends_with", "family"}  \* REACTION_SUPPORT_LINK_TYPES
Conflict == {"hostile_to"}             \* REACTION_CONFLICT_LINK_TYPES
Preserved == {"family"}                \* NPC_DEATH_PRESERVED_LINK_TYPES

Edges(type, from, to) == [type: type, from: from, to: to]
SocialEdges == {e \in Edges(Support \cup Conflict, Npcs, Npcs): e.from # e.to}
OwnerEdges == Edges({"carried_by"}, Items, Npcs \cup {Player})
TrackingEdges == Edges({"tracking_quest"}, {Player}, Quests)
LocationEdges == Edges({"located_in"}, Npcs \cup {Player}, Zones)
AllEdges == SocialEdges \cup OwnerEdges \cup TrackingEdges \cup LocationEdges

\* made and by are history: the turn that wrote a link, and whether it was one
\* of the story or the synthetic one of a client's request.
Rows == [edge: AllEdges, since: Turns, until: Turns \cup {Open},
         made: Turns, by: {"turn", "client"}]
Row(e, since, until) ==
    [edge |-> e, since |-> since, until |-> until, made |-> since, by |-> "turn"]

Active(table) == {r \in table: r.until = Open}
EdgesOf(table) == {r.edge: r \in table}

\* A transaction that has just begun.
Begun(kind) == [kind |-> kind, ops |-> 0, dirty |-> {}, fresh |-> {},
                doomed |-> FALSE, owed |-> {}, proposed |-> {}]
NoTx == Begun("none")

Transactions(table) ==
    [kind: {"none", "turn", "synthetic"}, ops: 0..MaxOps,
     dirty: SUBSET Active(table), fresh: SUBSET AllEdges, doomed: BOOLEAN,
     owed: SUBSET Quests, proposed: SUBSET Quests]

\* No link ends before it begins: ck_links_valid_turn_window would abort the
\* turn that closes it, and every retry of it.
TypeOK ==
    /\ turn \in Turns
    /\ pending \in BOOLEAN
    /\ links \subseteq Rows
    /\ \A r \in links: r.until = Open \/ r.since <= r.until
    /\ quest \in [Quests -> {"open", "terminal"}]
    /\ npc \in [Npcs -> {"active", "inactive", "offstage"}]
    /\ ledger \subseteq AllEdges
    /\ ended \in [Quests -> Turns]
    /\ tx \in Transactions(links)

LocatedIn(z) == [type |-> "located_in", from |-> Player, to |-> z]

\* create_session_with_defaults, and the objects a first plan has created.
Init ==
    /\ turn = 0
    /\ pending = FALSE
    /\ \E z \in Zones:
          /\ links = {Row(LocatedIn(z), 0, Open)}
          /\ ledger = {LocatedIn(z)}
    /\ quest = [q \in Quests |-> "open"]
    /\ npc = [n \in Npcs |-> "active"]
    /\ ended = [q \in Quests |-> 0]
    /\ saved = [links |-> links, quest |-> quest, npc |-> npc,
                ledger |-> ledger, ended |-> ended]
    /\ tx = NoTx
-----------------------------------------------------------------------------
(***************************************************************************)
(* Closing and opening links.                                              *)
(***************************************************************************)

\* The turn the open transaction writes.
At == IF tx.kind = "synthetic" THEN turn + 1 ELSE turn

\* Mutant: a link that begins later is closed before it begins.
ClosedUnclamped(r, at) == [r EXCEPT !.until = at]

\* A link is never closed before it begins.
Closed(r, at) == [r EXCEPT !.until = IF at < r.since THEN r.since ELSE at]

\* The active links a SELECT returns for the edges it looks for.
Found(edges) == {r \in Active(links): r.edge \in edges}
LocationsOf(x) == Found({e \in LocationEdges: e.from = x})

\* A table in which rows are closed and edges opened.
ClosedAll(rows, at) == {Closed(r, at): r \in rows}
Opened(edges, at) == {Row(e, at, Open): e \in edges}
Rewritten(table, rows, edges, at) ==
    (table \ rows) \cup ClosedAll(rows, at) \cup Opened(edges, at)

\* The links table once the transaction's changes are flushed.
Flushed == Rewritten(links, tx.dirty, tx.fresh, At)

\* A patch operation closes the rows and adds the edges, and logs both.  Two
\* new links of one edge, or two new locations of one object, break a unique
\* index when they are flushed.
Patch(rows, edges) ==
    /\ tx' = [tx EXCEPT
          !.ops = @ + 1,
          !.dirty = @ \cup rows,
          !.fresh = @ \cup edges,
          !.doomed = @ \/ \E e \in edges: \E f \in tx.fresh:
                              \/ e = f
                              \/ /\ e.type = "located_in"
                                 /\ f.type = "located_in"
                                 /\ e.from = f.from]
    /\ ledger' = (ledger \ EdgesOf(rows)) \cup edges
    /\ UNCHANGED <<turn, pending, links, saved>>

InTx == tx.kind # "none" /\ tx.ops < MaxOps
-----------------------------------------------------------------------------
(***************************************************************************)
(* Transactions.                                                           *)
(***************************************************************************)

\* _cleanup_ephemeral_npcs: which NPCs are over their TTL is data.  It closes
\* their locations without clamping; a location of the future would break
\* ck_links_valid_turn_window and with it the transaction.
CleanUp(gone) ==
    /\ \A n \in gone: \A r \in LocationsOf(n): r.since <= turn + 1
    /\ npc' = [n \in Npcs |-> IF n \in gone THEN "offstage" ELSE npc[n]]

Cleaned(gone) ==
    Rewritten(links, UNION {LocationsOf(n): n \in gone}, {}, turn + 1)

Expirable == {n \in Npcs: npc[n] = "active"}

\* Mutant: links that are closed outside a plan are not logged.
OpenedLogged(old, new) == ledger \cup EdgesOf(Active(new \ old))

\* The ledger of a table whose rows have all been logged.
Logged(old, new) ==
    (ledger \ (EdgesOf(Active(old) \ new))) \cup EdgesOf(Active(new \ old))

Save ==
    saved' = [links |-> links', quest |-> quest', npc |-> npc',
              ledger |-> ledger', ended |-> ended']

\* _allocate_turn.
AllocateTurn ==
    /\ tx.kind = "none"
    /\ ~pending
    /\ turn < MaxTurn
    /\ turn' = turn + 1
    /\ pending' = TRUE
    /\ \E gone \in SUBSET Expirable:
          /\ CleanUp(gone)
          /\ links' = Cleaned(gone)
    /\ ledger' = Logged(links, links')
    /\ UNCHANGED <<quest, ended, tx>>
    /\ Save

\* The plan of the pending turn is applied.
BeginPlan ==
    /\ tx.kind = "none"
    /\ pending
    /\ tx' = Begun("turn")
    /\ UNCHANGED <<turn, pending, world, saved>>

\* _apply_pending_graph_ops_locked: a synthetic turn.
BeginGraphHealth ==
    /\ tx.kind = "none"
    /\ ~pending
    /\ turn < MaxTurn
    /\ tx' = Begun("synthetic")
    /\ UNCHANGED <<turn, pending, world, saved>>

\* The end of apply_patch_ops, and the commit.
Commit ==
    /\ tx.kind # "none"
    /\ ~tx.doomed
    /\ tx.owed \subseteq tx.proposed
    /\ turn' = At
    /\ pending' = FALSE
    /\ links' = Flushed
    /\ UNCHANGED <<quest, npc, ledger, ended>>
    /\ Save
    /\ tx' = NoTx

\* Anything raises.  A turn that fails keeps its index, a synthetic one not.
Rollback ==
    /\ tx.kind # "none"
    /\ pending' = FALSE
    /\ links' = saved.links
    /\ quest' = saved.quest
    /\ npc' = saved.npc
    /\ ledger' = saved.ledger
    /\ ended' = saved.ended
    /\ tx' = NoTx
    /\ UNCHANGED <<turn, saved>>
-----------------------------------------------------------------------------
(***************************************************************************)
(* The operations of apply_patch_ops.                                      *)
(***************************************************************************)

\* object.create flushes what the batch has done so far.
CreateObject ==
    /\ InTx
    /\ ~tx.doomed
    /\ links' = Flushed
    /\ tx' = [tx EXCEPT !.ops = @ + 1, !.dirty = {}, !.fresh = {}]
    /\ UNCHANGED <<turn, pending, quest, npc, ledger, ended, saved>>

Reverse(e) == [e EXCEPT !.from = e.to, !.to = e.from]
Both(e, bidirectional) == IF bidirectional THEN {e, Reverse(e)} ELSE {e}

\* Mutant: an item goes to a new owner and stays with the old one.
KeepOwners(e) == {}

\* _close_other_active_carried_by_links
OtherOwners(e) ==
    Found({f \in OwnerEdges: /\ e.type = "carried_by"
                             /\ f.from = e.from /\ f.to # e.to})

Opposed(s, t) ==
    \/ s \in Support /\ t \in Conflict
    \/ s \in Conflict /\ t \in Support

\* Mutant: a feeling that becomes mutual forgets what the other one felt.
OppositesOneWay(e, bidirectional) ==
    Found({f \in SocialEdges: /\ [f EXCEPT !.type = e.type] = e
                              /\ Opposed(e.type, f.type)})

\* _close_opposite_social_links
Opposites(e, bidirectional) ==
    Found({f \in SocialEdges:
               /\ [f EXCEPT !.type = e.type] \in Both(e, bidirectional)
               /\ Opposed(e.type, f.type)})

\* link.create: an edge that a SELECT finds active is not added again.
CreateLink(e, bidirectional) ==
    /\ InTx
    /\ Patch(OtherOwners(e) \cup Opposites(e, bidirectional),
             Both(e, bidirectional) \ EdgesOf(Active(links)))
    /\ UNCHANGED <<quest, npc, ended>>

\* tracking_quest starts at the player, is never mutual, and is what the
\* reopen contract looks for.
TrackQuest(e) ==
    /\ InTx
    /\ LET new == {e} \ EdgesOf(Active(links))
       IN  /\ tx' = [tx EXCEPT !.ops = @ + 1,
                               !.fresh = @ \cup new,
                               !.doomed = @ \/ new \cap tx.fresh # {},
                               !.proposed = @ \cup {e.to}]
           /\ ledger' = ledger \cup new
    /\ UNCHANGED <<turn, pending, links, saved, quest, npc, ended>>

\* link.close: located_in and tracking_quest are refused.
CloseLink(e, bidirectional) ==
    /\ InTx
    /\ Patch(Found(Both(e, bidirectional)), {})
    /\ UNCHANGED <<quest, npc, ended>>

\* _close_active_tracking_quest_links
TrackingOf(q) == Found({e \in TrackingEdges: e.to = q})

\* object.update of a quest's status to a terminal one.
EndQuest(q) ==
    /\ InTx
    /\ quest[q] = "open"
    /\ Patch(TrackingOf(q), {})
    /\ quest' = [quest EXCEPT ![q] = "terminal"]
    /\ ended' = [ended EXCEPT ![q] = At]
    /\ UNCHANGED npc

\* ... and back.  _assert_quest_reopen_tracking_contract has looked at the
\* whole batch: a quest that was terminal before it must be tracked, or be
\* tracked by some operation of the batch.
ReopenQuest(q) ==
    /\ InTx
    /\ quest[q] = "terminal"
    /\ quest' = [quest EXCEPT ![q] = "open"]
    /\ tx' = [tx EXCEPT
          !.ops = @ + 1,
          !.owed = IF /\ saved.quest[q] = "terminal"
                      /\ \A r \in Active(saved.links): r.edge.to # q
                   THEN @ \cup {q} ELSE @]
    /\ UNCHANGED <<turn, pending, links, saved, npc, ledger, ended>>

\* Mutant: only the links that start at the NPC are closed.
OutgoingTies(n) ==
    Found({e \in AllEdges: e.from = n /\ e.type \notin Preserved})

\* _close_active_links_for_npc_deactivation
TiesOf(n) ==
    Found({e \in AllEdges: n \in {e.from, e.to} /\ e.type \notin Preserved})

\* object.update of an NPC's status.
DeactivateNpc(n) ==
    /\ InTx
    /\ npc[n] # "inactive"
    /\ Patch(TiesOf(n), {})
    /\ npc' = [npc EXCEPT ![n] = "inactive"]
    /\ UNCHANGED <<quest, ended>>

ReviveNpc(n) ==
    /\ InTx
    /\ npc[n] # "active"
    /\ Patch({}, {})
    /\ npc' = [npc EXCEPT ![n] = "active"]
    /\ UNCHANGED <<quest, ended>>

\* player.move
PlayerMove(z) ==
    /\ InTx
    /\ Patch(LocationsOf(Player), {LocatedIn(z)})
    /\ UNCHANGED <<quest, npc, ended>>
-----------------------------------------------------------------------------
(***************************************************************************)
(* Movement and links outside a plan.                                      *)
(***************************************************************************)

\* Mutant: _close_player_active_located_in_links without what must follow it.
MovedNowhere(table, z, at) ==
    Rewritten(table, LocationsOf(Player) \cap table, {}, at)

\* A table in which the player has moved.
Moved(table, z, at) ==
    Rewritten(table, LocationsOf(Player) \cap table, {LocatedIn(z)}, at)

\* apply_travel_resolution, before the plan of its turn: it flushes.
Travel(z) ==
    /\ tx.kind = "turn"
    /\ tx.ops = 0
    /\ \A r \in LocationsOf(Player): r.edge.to # z
    /\ links' = Moved(links, z, At)
    /\ ledger' = Logged(links, links')
    /\ tx' = [tx EXCEPT !.ops = @ + 1]
    /\ UNCHANGED <<turn, pending, quest, npc, ended, saved>>

\* move_player: a turn of its own.
MovePlayer(z) ==
    /\ tx.kind = "none"
    /\ ~pending
    /\ turn < MaxTurn
    /\ \A r \in LocationsOf(Player): r.edge.to # z
    /\ turn' = turn + 1
    /\ \E gone \in SUBSET Expirable:
          /\ CleanUp(gone)
          /\ links' = Moved(Cleaned(gone), z, turn + 1)
    /\ ledger' = Logged(links, links')
    /\ UNCHANGED <<pending, quest, ended, tx>>
    /\ Save

\* Only a window that ends before it begins (422), a second active link of the
\* edge and a second active location (409) are refused.
MayPost(e, window) ==
    IF window.until = Open
    THEN Found({e}) = {} /\ (e.type = "located_in" => LocationsOf(e.from) = {})
    ELSE window.since <= window.until

\* create_link: a synthetic turn, for a link of any type and any valid window,
\* over or yet to come.  No owner, no opposite feeling is closed, and a quest
\* that has ended is tracked like any other.
PostLink(e, window) ==
    /\ tx.kind = "none"
    /\ ~pending
    /\ turn < MaxTurn
    /\ MayPost(e, window)
    /\ turn' = turn + 1
    /\ links' = links \cup {[edge |-> e, since |-> window.since, until |-> window.until,
                             made |-> turn + 1, by |-> "client"]}
    /\ ledger' = Logged(links, links')
    /\ UNCHANGED <<pending, quest, npc, ended, tx>>
    /\ Save
-----------------------------------------------------------------------------
Transaction ==
    \/ AllocateTurn \/ BeginPlan \/ BeginGraphHealth
    \/ Commit \/ Rollback

Operation ==
    \/ CreateObject
    \/ \E e \in SocialEdges, both \in BOOLEAN: CreateLink(e, both)
    \/ \E e \in OwnerEdges: CreateLink(e, FALSE)
    \/ \E e \in TrackingEdges: TrackQuest(e)
    \/ \E e \in SocialEdges, both \in BOOLEAN: CloseLink(e, both)
    \/ \E e \in OwnerEdges: CloseLink(e, FALSE)
    \/ \E q \in Quests: EndQuest(q)
    \/ \E q \in Quests: ReopenQuest(q)
    \/ \E n \in Npcs: DeactivateNpc(n)
    \/ \E n \in Npcs: ReviveNpc(n)
    \/ \E z \in Zones: PlayerMove(z)

Movement ==
    \/ \E z \in Zones: Travel(z)
    \/ \E z \in Zones: MovePlayer(z)
    \/ \E e \in AllEdges, window \in Windows: PostLink(e, window)

Next == Transaction \/ Operation \/ Movement

Spec == Init /\ [][Next]_vars
-----------------------------------------------------------------------------
(***************************************************************************)
(* Properties.  They speak of committed states, and every pair of links    *)
(* that should exclude each other may coexist when one batch wrote both.   *)
(***************************************************************************)

Idle == tx.kind = "none"

\* Two links that exclude each other were written by one turn, or the later of
\* them by a client: a turn of the story closes what a client has written.
MayCoexist(r, s) ==
    /\ r.made < s.made => s.by = "client"
    /\ s.made < r.made => r.by = "client"

\* Between transactions the player is in exactly one zone.
PlayerIsSomewhere ==
    Idle => \E z \in Zones: EdgesOf(LocationsOf(Player)) = {LocatedIn(z)}

\* No owner keeps an item that a later turn of the story handed over, and no
\* tracking link survives the end of its quest, whoever wrote them.
NothingIsLeftOver ==
    Idle =>
        /\ \A r, s \in Active(links):
              (/\ r.edge.type = "carried_by"
               /\ s.edge.type = "carried_by"
               /\ r.edge.from = s.edge.from) => MayCoexist(r, s)
        /\ \A r \in Active(links), q \in Quests:
              quest[q] = "terminal" /\ r.edge.to = q => r.made >= ended[q]

\* No friendship survives a hostility that a later turn of the story wrote, nor
\* the reverse, whoever wrote the earlier one.
FlipIsClean ==
    Idle => \A r, s \in Active(links):
        (/\ r.edge.type \in Support
         /\ s.edge.type \in Conflict
         /\ r.edge.from = s.edge.from
         /\ r.edge.to = s.edge.to) => MayCoexist(r, s)

\* A turn that ends an NPC ends all its ties of before the turn, except those
\* that outlast death: whoever meets the others later finds nobody waiting.
GoneNpcIsAlone ==
    [][\A n \in Npcs:
          saved.npc[n] # "inactive" /\ saved'.npc[n] = "inactive" =>
              \A r \in Active(saved.links) \cap saved'.links:
                  n \in {r.edge.from, r.edge.to} => r.edge.type \in Preserved]_vars

\* Replaying the applied_ops of all turns arrives at the active links.
LogReplays == Idle => ledger = EdgesOf(Active(links))

\* "quest terminal transitions close it automatically": in memory too, no
\* tracking link is left after the operation that ends a quest.
EndingClosesTracking ==
    [][\A q \in Quests:
          quest[q] = "open" /\ quest'[q] = "terminal" =>
              \A e \in EdgesOf(Active(links') \ tx'.dirty) \cup tx'.fresh:
                  e.to # q]_vars
=============================================================================

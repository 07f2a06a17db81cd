---------------------------- MODULE NarratorView ----------------------------
(***************************************************************************)
(* What the context pack of a turn tells the narrator of the relationship  *)
(* graph: the lists that crud_context.py reads from the committed links    *)
(* between the allocation of a turn and the application of its plan.       *)
(* Their order and their scores depend on embeddings and weights, which    *)
(* are data here: a list with a limit shows any rows that fit it.          *)
(***************************************************************************)
EXTENDS WorldGraph, FiniteSetsExt

CONSTANTS ListLimit,      \* rows of a list of what the input is about
          InventoryLimit, \* ... of the inventory
          HistoryLimit,   \* ... of the places the player has left
          OrphanedLimit,  \* ... of the items that have lost their owner
          LookbackTurns   \* ORPHANED_ITEMS_LOOKBACK_TURNS

ASSUME LookbackAssumption == LookbackTurns \in Nat

\* The rows a list with a limit may show.
Shown(rows, limit) ==
    {list \in SUBSET rows: \/ Cardinality(list) = limit
                           \/ list = rows /\ Cardinality(rows) < limit}

\* ... when what ended last comes first; of a tie any.
Latest(rows, limit, End(_)) ==
    {list \in Shown(rows, limit):
        \A r \in list, s \in rows \ list: End(s) <= End(r)}

\* _list_relevant_objects_for_input, and its callers for items and factions.
RelevantObjects(objects) ==
    Shown({x \in objects: x \notin Npcs \/ npc[x] # "inactive"}, ListLimit)

NpcsOf(zone) ==
    {n \in Npcs: /\ npc[n] # "inactive"
                 /\ \E r \in LocationsOf(n): r.edge.to = zone}

\* _list_relevant_npcs_for_input, with and without a zone.
RelevantNpcs(zone) == Shown(NpcsOf(zone), ListLimit)

\* _list_zone_npcs_with_relationships
Relationships(n) == {e \in SocialEdges: e.from = n /\ Found({e}) # {}}

ZoneNpcs(zone) ==
    {[n \in list |-> Relationships(n)]: list \in Shown(NpcsOf(zone), ListLimit)}

\* _get_player_inventory
Inventory ==
    Shown({i \in Items: \E r \in Found(OwnerEdges): r.edge.from = i /\ r.edge.to = Player},
          InventoryLimit)

Owners(i) == {r.edge.to: r \in {s \in Found(OwnerEdges): s.edge.from = i}}

\* Mutant: the window of the turns before the last one only.
RecentlyClosedBefore(i, newTurn) ==
    {r \in links \ Active(links):
        /\ r.edge.type = "carried_by" /\ r.edge.from = i
        /\ newTurn - LookbackTurns <= r.until /\ r.until < newTurn - 1}

\* The owners an item has lost in the turns a context looks back at.
RecentlyClosed(i, newTurn) ==
    {r \in links \ Active(links):
        /\ r.edge.type = "carried_by" /\ r.edge.from = i
        /\ newTurn - LookbackTurns <= r.until /\ r.until <= newTurn - 1}

\* The last of them; of two in one turn, the row that was created later.
LostTurn(i, newTurn) == Max({r.until: r \in RecentlyClosed(i, newTurn)})

LastOwners(i, newTurn) ==
    {r.edge.to: r \in {s \in RecentlyClosed(i, newTurn): s.until = LostTurn(i, newTurn)}}

\* _list_orphaned_items_for_context
Orphans(newTurn) == {i \in Items: Owners(i) = {} /\ RecentlyClosed(i, newTurn) # {}}

OrphanedItems(newTurn) ==
    IF newTurn <= 1 THEN {{}}
    ELSE LET Lost(i) == LostTurn(i, newTurn)
         IN  Latest(Orphans(newTurn), OrphanedLimit, Lost)

\* _get_player_location_history
PlacesLeft ==
    {r \in links \ Active(links): r.edge.type = "located_in" /\ r.edge.from = Player}

LocationHistory == LET Left(r) == r.until IN Latest(PlacesLeft, HistoryLimit, Left)

\* _list_relevant_quests_for_input
RelevantQuests == {q \in Quests: quest[q] = "open" /\ TrackingOf(q) # {}}

\* _list_archived_quest_recall_for_input: those near enough to the input.
ArchivedQuests == {q \in Quests: quest[q] = "terminal" /\ TrackingOf(q) = {}}

\* _list_relevant_links_for_input: what is known of an object's active links.
RelevantLinks(x) ==
    IF x \in Npcs /\ npc[x] = "inactive" THEN {}
    ELSE {r.edge: r \in Found({e \in AllEdges: e.from = x})}

\* _list_one_hop_link_candidates_for_context, around the objects shown so far.
OneHopLinks(anchors) ==
    {r.edge: r \in Found({e \in AllEdges: {e.from, e.to} \cap anchors # {}})}

\* Everything a pack can tell of the graph when the player is in the zone.
Told(zone) ==
    LET present == (UNION {DOMAIN list: list \in ZoneNpcs(zone)}) \cup (UNION RelevantNpcs(zone))
        anchors == {Player} \cup present \cup (UNION Inventory) \cup RelevantQuests
    IN  OneHopLinks(anchors)
          \cup (UNION {RelevantLinks(x):
                        x \in UNION RelevantObjects(Npcs \cup Items \cup {Player})})
          \cup (UNION {UNION {list[n]: n \in DOMAIN list}: list \in ZoneNpcs(zone)})
-----------------------------------------------------------------------------
\* What a pack tells is one story, whatever batches, movements, clean-ups and
\* failed turns came before it, and whatever clients have written: the history
\* of the player's places has no gap as far as it goes back and ends where the
\* player is, nobody who is said to be here is also told to be elsewhere, and an
\* item of the inventory is told to have another owner only by what one turn
\* wrote or a client added since.
StoryIsCoherent ==
    \A z \in Zones: EdgesOf(LocationsOf(Player)) = {LocatedIn(z)} =>
        /\ \A list \in LocationHistory: \A r \in list:
              r.by = "turn" =>
                  \E s \in list \cup LocationsOf(Player):
                      s.since = r.until /\ (s.until = Open \/ s.until > r.until)
        /\ \A n \in UNION RelevantNpcs(z): \A e \in Told(z):
              e.type = "located_in" /\ e.from = n => e.to = z
        /\ \A e \in Told(z): e.type = "carried_by" /\ e.from \in UNION Inventory =>
              \A r, s \in Active(links): r.edge = e /\ s.edge = [e EXCEPT !.to = Player] =>
                  MayCoexist(r, s)

\* An item that a turn leaves without an owner, whichever way, is among the
\* orphaned items as long as a context looks back at the turn, unless the list
\* is full of items lost in that turn or later; and with an owner it had in the
\* turn it was lost, unless a client claims that another one had it later.
LostItemsAreShown ==
    \A i \in Items:
        (/\ \E r \in Active(saved.links):
               r.edge.type = "carried_by" /\ r.edge.from = i /\ r.since <= turn'
         /\ Owners(i)' = {}
         /\ saved' # saved) =>
            \A t \in turn' + 1..turn' + LookbackTurns:
                /\ \A list \in OrphanedItems(t)':
                      \/ i \in list
                      \/ /\ Cardinality(list) = OrphanedLimit
                         /\ \A j \in list: LostTurn(j, t)' >= turn'
                /\ \/ LastOwners(i, t)' \cap {r.edge.to: r \in Active(saved.links)} # {}
                   \/ \E r \in RecentlyClosed(i, t)': r.by = "client" /\ r.until > turn'

NarratorSeesTheWorld ==
    /\ [](Idle /\ pending => StoryIsCoherent)
    /\ [][Idle' => LostItemsAreShown]_vars
=============================================================================

--------------------------- MODULE SessionProofs ---------------------------
(***************************************************************************)
(* What keeps one session's story straight, for any number of claims,      *)
(* turns and snapshots: who knows of a claim, what the narrator is told of *)
(* the graph, and the commands that go back.  Each has an inductive        *)
(* invariant of its own.                                                   *)
(***************************************************************************)
EXTENDS GraphAndClaims, GraphAndCommands, Sequences,
        SumTheorems, SequenceTheorems, TLAPS

-----------------------------------------------------------------------------
(***************************************************************************)
(* The relationship graph is consistent whenever no transaction is open:   *)
(* the player is in one zone, no link outlives what ended it, and the log  *)
(* of operations replays to the active links.                              *)
(***************************************************************************)
USE BoundsAssumption

Statuses == {"active", "inactive", "offstage"}

\* Of all places a turn writes those of the player only.
PlayersPlace(e) == e.type = "located_in" /\ e.from = Player
Narrated(e) == e.type = "located_in" => e.from = Player

\* Two edges of which the later one closes the earlier one.
Rivals(e, f) ==
    \/ /\ e.type = "carried_by" /\ f.type = "carried_by"
       /\ e.from = f.from /\ e.to # f.to
    \/ Opposed(e.type, f.type) /\ e.from = f.from /\ e.to = f.to

\* A new edge that cannot stand beside an active one.
Displaces(e, f) ==
    e = f \/ Rivals(e, f) \/ (PlayersPlace(e) /\ PlayersPlace(f))

(* What holds of every table of links. *)

RowsOK(table) ==
    table \subseteq Rows /\ \A r \in table: r.until = Open \/ r.since <= r.until

OneRowPerEdge(table) == \A r, s \in Active(table): r.edge = s.edge => r = s

OneLocation(table) ==
    \A r, s \in Active(table):
        /\ r.edge.type = "located_in" /\ s.edge.type = "located_in"
        /\ r.edge.from = s.edge.from
        => r = s

PlayerIsPlaced(table) == \E r \in Active(table): PlayersPlace(r.edge)

\* A turn of the story has closed the earlier rivals of what it wrote.
RivalsAreLater(table) ==
    \A r, s \in Active(table):
        Rivals(r.edge, s.edge) /\ r.by = "turn" => r.made <= s.made

\* ... and dates its links at itself.
MadeBy(table, at) ==
    \A r \in Active(table): r.made <= at /\ (r.by = "turn" => r.since = r.made)

TableOK(table, at) ==
    /\ RowsOK(table)
    /\ OneRowPerEdge(table) /\ OneLocation(table) /\ PlayerIsPlaced(table)
    /\ RivalsAreLater(table) /\ MadeBy(table, at)

\* No row of the set leads to a quest that has ended since it was made.
QuestsAreOver(rows, status, end) ==
    \A r \in rows, q \in Quests:
        status[q] = "terminal" /\ r.edge.to = q => r.made >= end[q]
-----------------------------------------------------------------------------
(* The inductive invariant. *)

World == [links |-> links, quest |-> quest, npc |-> npc,
          ledger |-> ledger, ended |-> ended]

\* The transactions that may be open, and what they have not done yet.
TxInv ==
    /\ tx.kind = "none" => tx = NoTx /\ saved = World
    /\ tx.kind = "turn" => pending
    /\ tx.kind = "synthetic" => ~pending /\ turn < MaxTurn
    /\ tx.kind = "turn" /\ tx.ops = 0 => tx = Begun("turn")

\* A rollback restores a consistent world, older than the pending turn.
SavedInv ==
    /\ saved \in [links: SUBSET Rows, quest: [Quests -> {"open", "terminal"}],
                 npc: [Npcs -> Statuses], ledger: SUBSET AllEdges,
                 ended: [Quests -> 0..turn]]
    /\ TableOK(saved.links, turn)
    /\ QuestsAreOver(Active(saved.links), saved.quest, saved.ended)
    /\ saved.ledger = EdgesOf(Active(saved.links))
    /\ pending => MadeBy(saved.links, turn - 1)

\* The active links that the transaction has not closed.
Kept == Active(links) \ tx.dirty

QuestInv ==
    /\ \A q \in Quests: ended[q] <= At
    /\ QuestsAreOver(Kept, quest, ended)

\* What a batch adds has closed whatever it cannot stand beside.
FreshInv ==
    /\ \A f \in tx.fresh: Narrated(f)
    /\ \A f \in tx.fresh, r \in Active(links):
          Displaces(f, r.edge) => r \in tx.dirty
    /\ \A f \in tx.fresh, r \in Active(links): f = r.edge => PlayersPlace(f)
    /\ \A r \in tx.dirty:
          PlayersPlace(r.edge) => \E f \in tx.fresh: PlayersPlace(f)

\* A batch that can still be flushed has logged what it will write.
LedgerInv ==
    ~tx.doomed =>
        /\ ledger = EdgesOf(Kept) \cup tx.fresh
        /\ \A f, g \in tx.fresh: PlayersPlace(f) /\ PlayersPlace(g) => f = g

BatchInv == TableOK(links, At) /\ QuestInv /\ FreshInv /\ LedgerInv

\* The ties that an NPC had before the transaction that ended it.
GoneInv ==
    \A n \in Npcs:
        npc[n] = "inactive" /\ saved.npc[n] # "inactive" =>
            \A r \in Active(saved.links) \cap links:
                n \in {r.edge.from, r.edge.to} =>
                    r.edge.type \in Preserved \/ r \in tx.dirty

IInv == TypeOK /\ TxInv /\ SavedInv /\ BatchInv /\ GoneInv
-----------------------------------------------------------------------------
(* Edges and rows. *)

LEMMA ObjectsDiffer ==
    /\ Player \notin Npcs /\ Player \notin Items /\ Player \notin Quests
    /\ Player \notin Zones
    /\ Npcs \cap Items = {} /\ Npcs \cap Quests = {} /\ Npcs \cap Zones = {}
    /\ Items \cap Quests = {} /\ Items \cap Zones = {}
    /\ Quests \cap Zones = {}
<1> DEFINE kinds == <<{Player}, Npcs, Items, Quests, Zones>>
<1>1. \A i, j \in 1..5: i # j => kinds[i] \cap kinds[j] = {}
  BY ObjectsAssumption
<1>2. /\ kinds[1] = {Player} /\ kinds[2] = Npcs /\ kinds[3] = Items
      /\ kinds[4] = Quests /\ kinds[5] = Zones
  OBVIOUS
<1> HIDE DEF kinds
<1>3. /\ kinds[1] \cap kinds[2] = {} /\ kinds[1] \cap kinds[3] = {}
      /\ kinds[1] \cap kinds[4] = {} /\ kinds[1] \cap kinds[5] = {}
      /\ kinds[2] \cap kinds[3] = {} /\ kinds[2] \cap kinds[4] = {}
      /\ kinds[2] \cap kinds[5] = {} /\ kinds[3] \cap kinds[4] = {}
      /\ kinds[3] \cap kinds[5] = {} /\ kinds[4] \cap kinds[5] = {}
  BY <1>1
<1>4. QED
  BY <1>2, <1>3

\* What an edge of each type connects.
LEMMA EdgeEnds ==
    ASSUME NEW e \in AllEdges
    PROVE  /\ \/ e.type \in Support \cup Conflict
              \/ e.type \in {"carried_by", "tracking_quest", "located_in"}
           /\ e.type \in Support \cup Conflict => e.from \in Npcs /\ e.to \in Npcs
           /\ e.type = "carried_by" => e.from \in Items /\ e.to \in Npcs \cup {Player}
           /\ e.type = "tracking_quest" => e.from = Player /\ e.to \in Quests
           /\ e.type = "located_in" =>
                 e.from \in Npcs \cup {Player} /\ e.to \in Zones
  BY DEF AllEdges, SocialEdges, OwnerEdges, TrackingEdges, LocationEdges,
         Edges, Support, Conflict

\* Only a tracking edge leads to a quest.
LEMMA EdgesToQuests ==
    ASSUME NEW e \in AllEdges, e.to \in Quests
    PROVE  e \in TrackingEdges
<1>1. e.type = "tracking_quest"
  BY EdgeEnds, ObjectsDiffer
<1>2. QED
  BY <1>1 DEF AllEdges, SocialEdges, OwnerEdges, TrackingEdges, LocationEdges,
              Edges, Support, Conflict

LEMMA LocatedInFacts ==
    ASSUME NEW z \in Zones
    PROVE  /\ LocatedIn(z) \in AllEdges /\ LocatedIn(z) \in LocationEdges
           /\ PlayersPlace(LocatedIn(z)) /\ Narrated(LocatedIn(z))
           /\ LocatedIn(z).from = Player /\ LocatedIn(z).to = z
           /\ LocatedIn(z).type = "located_in"
  BY DEF LocatedIn, AllEdges, LocationEdges, Edges, PlayersPlace, Narrated

LEMMA RowParts ==
    ASSUME NEW r \in Rows
    PROVE  /\ r.edge \in AllEdges /\ r.since \in Turns /\ r.made \in Turns
           /\ r.until \in Turns \cup {Open}
           /\ r.by \in {"turn", "client"}
  BY DEF Rows

LEMMA BegunFacts ==
    ASSUME NEW kind \in {"none", "turn", "synthetic"}, NEW table
    PROVE  /\ Begun(kind).kind = kind /\ Begun(kind).ops = 0
           /\ Begun(kind).dirty = {} /\ Begun(kind).fresh = {}
           /\ ~Begun(kind).doomed
           /\ Begun(kind).owed = {} /\ Begun(kind).proposed = {}
           /\ Begun(kind) \in Transactions(table)
  BY DEF Begun, Transactions

LEMMA NewRow ==
    ASSUME NEW e \in AllEdges, NEW at \in Turns
    PROVE  /\ Row(e, at, Open) \in Rows
           /\ Row(e, at, Open).edge = e
           /\ Row(e, at, Open).since = at /\ Row(e, at, Open).made = at
           /\ Row(e, at, Open).until = Open
           /\ Row(e, at, Open).by = "turn"
  BY DEF Rows, Row

LEMMA ClosedRow ==
    ASSUME NEW r \in Rows, NEW at \in Turns
    PROVE  /\ Closed(r, at) \in Rows
           /\ Closed(r, at).until # Open
           /\ Closed(r, at).since <= Closed(r, at).until
  BY DEF Rows, Closed, Turns, Open

LEMMA RivalsAreMutual == \A e, f: Rivals(e, f) <=> Rivals(f, e)
  BY DEF Rivals, Opposed

\* A rival is an edge of another kind than a location.
LEMMA RivalsAreNotPlaces ==
    \A e, f: Rivals(e, f) => e.type # "located_in" /\ f.type # "located_in"
  BY DEF Rivals, Opposed, Support, Conflict
-----------------------------------------------------------------------------
(* A table in which some rows are closed and some edges opened. *)

LEMMA RewrittenRows ==
    ASSUME NEW table, RowsOK(table), NEW rows \in SUBSET Active(table),
           NEW edges \in SUBSET AllEdges, NEW at \in Turns
    PROVE  /\ RowsOK(Rewritten(table, rows, edges, at))
           /\ Active(Rewritten(table, rows, edges, at)) =
                 (Active(table) \ rows) \cup Opened(edges, at)
<1>1. \A r \in rows: r \in Rows
  BY DEF RowsOK, Active
<1>2. RowsOK(Rewritten(table, rows, edges, at))
  BY <1>1, NewRow, ClosedRow DEF RowsOK, Rewritten, ClosedAll, Opened
<1>3. Active(Rewritten(table, rows, edges, at)) =
         (Active(table) \ rows) \cup Opened(edges, at)
  BY <1>1, NewRow, ClosedRow DEF Rewritten, ClosedAll, Opened, Active
<1>4. QED
  BY <1>2, <1>3

\* What closing and opening must respect so that the table stays consistent.
Replaces(table, rows, edges) ==
    /\ \A f \in edges: Narrated(f)
    /\ \A f \in edges, r \in Active(table): Displaces(f, r.edge) => r \in rows
    /\ \A r \in rows: PlayersPlace(r.edge) => \E f \in edges: PlayersPlace(f)
    /\ \A f, g \in edges: PlayersPlace(f) /\ PlayersPlace(g) => f = g

LEMMA RewrittenTable ==
    ASSUME NEW at \in Turns, NEW before \in Int, before <= at,
           NEW table, TableOK(table, before), NEW rows \in SUBSET Active(table),
           NEW edges \in SUBSET AllEdges, Replaces(table, rows, edges)
    PROVE  TableOK(Rewritten(table, rows, edges, at), at)
<1> DEFINE new == Rewritten(table, rows, edges, at)
<1>1. RowsOK(table)
  BY DEF TableOK
<1>2. /\ RowsOK(new)
      /\ Active(new) = (Active(table) \ rows) \cup Opened(edges, at)
  BY <1>1, RewrittenRows
<1> HIDE DEF new
<1>3. ASSUME NEW r \in Active(new)
      PROVE  \/ r \in Active(table) /\ r \notin rows
             \/ /\ \E e \in edges: r = Row(e, at, Open) /\ r.edge = e
                /\ r.since = at /\ r.made = at /\ r.by = "turn"
  BY <1>2, NewRow DEF Opened
<1>4. \A r \in Active(table): r.made \in Int /\ r.edge \in AllEdges
  BY <1>1, RowParts DEF RowsOK, Active, Turns
<1>5. ASSUME NEW r \in Active(new), NEW s \in Active(new),
             Displaces(r.edge, s.edge)
      PROVE  \/ r \in Active(table) /\ s \in Active(table)
             \/ /\ r.edge \in edges /\ r = Row(r.edge, at, Open) /\ r.made = at
                /\ s.edge \in edges /\ s = Row(s.edge, at, Open) /\ s.made = at
  <2>1. Displaces(s.edge, r.edge)
    BY <1>5, RivalsAreMutual DEF Displaces
  <2>2. QED
    BY <1>3, <1>5, <2>1 DEF Replaces
<1>6. OneRowPerEdge(new)
  BY <1>5 DEF OneRowPerEdge, TableOK, Displaces
<1>7. OneLocation(new)
  <2> SUFFICES ASSUME NEW r \in Active(new), NEW s \in Active(new),
                      r.edge.type = "located_in", s.edge.type = "located_in",
                      r.edge.from = s.edge.from
               PROVE  r = s
    BY DEF OneLocation
  <2>1. CASE r \in Active(table) /\ s \in Active(table)
    BY <2>1 DEF TableOK, OneLocation
  <2>2. CASE ~(r \in Active(table) /\ s \in Active(table))
    <3>1. PlayersPlace(r.edge) /\ PlayersPlace(s.edge)
      BY <1>3, <2>2 DEF Replaces, Narrated, PlayersPlace
    <3>2. Displaces(r.edge, s.edge)
      BY <3>1 DEF Displaces
    <3>3. QED
      BY <1>5, <2>2, <3>1, <3>2 DEF Replaces
  <2>3. QED
    BY <2>1, <2>2
<1>8. PlayerIsPlaced(new)
  <2>1. PICK r \in Active(table): PlayersPlace(r.edge)
    BY DEF TableOK, PlayerIsPlaced
  <2>2. CASE r \in rows
    <3>1. PICK f \in edges: PlayersPlace(f)
      BY <2>1, <2>2 DEF Replaces
    <3>2. Row(f, at, Open) \in Active(new) /\ Row(f, at, Open).edge = f
      BY <1>2, NewRow DEF Opened
    <3>3. QED
      BY <3>1, <3>2 DEF PlayerIsPlaced
  <2>3. CASE r \notin rows
    BY <1>2, <2>1, <2>3 DEF PlayerIsPlaced
  <2>4. QED
    BY <2>2, <2>3
<1>9. RivalsAreLater(new)
  BY <1>5 DEF RivalsAreLater, TableOK, Displaces, Turns
<1>10. MadeBy(new, at)
  BY <1>3, <1>4 DEF MadeBy, TableOK, Turns
<1>11. QED
  BY <1>2, <1>6, <1>7, <1>8, <1>9, <1>10 DEF TableOK, new

LEMMA RewrittenQuests ==
    ASSUME NEW at \in Turns, NEW table, RowsOK(table),
           NEW rows \in SUBSET Active(table), NEW edges \in SUBSET AllEdges,
           NEW status, NEW end \in [Quests -> Int], \A q \in Quests: end[q] <= at,
           QuestsAreOver(Active(table) \ rows, status, end)
    PROVE  QuestsAreOver(Active(Rewritten(table, rows, edges, at)), status, end)
<1> SUFFICES ASSUME NEW r \in Active(Rewritten(table, rows, edges, at)),
                    NEW q \in Quests,
                    status[q] = "terminal", r.edge.to = q
             PROVE  r.made >= end[q]
  BY DEF QuestsAreOver
<1>1. r \in Active(table) \ rows \/ r.made = at
  BY RewrittenRows, NewRow DEF Opened
<1>2. QED
  BY <1>1 DEF QuestsAreOver, Turns

(* What the operations find. *)

LEMMA FoundRows ==
    ASSUME NEW edges
    PROVE  /\ Found(edges) \subseteq Active(links)
           /\ \A r \in Active(links): r \in Found(edges) <=> r.edge \in edges
  BY DEF Found

LEMMA LocationsFound ==
    ASSUME TypeOK, NEW x
    PROVE  /\ LocationsOf(x) \subseteq Active(links)
           /\ \A r \in Active(links):
                 r \in LocationsOf(x) <=>
                    r.edge.type = "located_in" /\ r.edge.from = x
<1>1. \A r \in Active(links):
         r.edge \in LocationEdges <=> r.edge.type = "located_in"
  <2> SUFFICES ASSUME NEW r \in Active(links)
               PROVE  r.edge \in LocationEdges <=> r.edge.type = "located_in"
    OBVIOUS
  <2>1. r.edge \in AllEdges
    BY RowParts DEF TypeOK, Active
  <2>2. QED
    BY <2>1 DEF AllEdges, SocialEdges, OwnerEdges, TrackingEdges, LocationEdges,
                Edges, Support, Conflict
<1>2. QED
  BY <1>1, FoundRows DEF LocationsOf

LEMMA LocationsOfPlayer ==
    ASSUME TypeOK
    PROVE  /\ LocationsOf(Player) \subseteq Active(links)
           /\ \A r \in Active(links):
                 r \in LocationsOf(Player) <=> PlayersPlace(r.edge)
  BY LocationsFound DEF PlayersPlace

\* Logging what a transaction outside a plan has closed and opened.
LEMMA LoggedIsExact ==
    ASSUME NEW new, ledger = EdgesOf(Active(links)), OneRowPerEdge(links)
    PROVE  Logged(links, new) = EdgesOf(Active(new))
<1>1. ASSUME NEW e, e \in Logged(links, new)
      PROVE  e \in EdgesOf(Active(new))
  BY <1>1 DEF Logged, EdgesOf, Active
<1>2. ASSUME NEW e, e \in EdgesOf(Active(new))
      PROVE  e \in Logged(links, new)
  <2>1. PICK r \in Active(new): e = r.edge
    BY <1>2 DEF EdgesOf
  <2>2. CASE r \in links
    <3>1. r \in Active(links) /\ e \in ledger
      BY <2>1, <2>2 DEF Active, EdgesOf
    <3>2. e \notin EdgesOf(Active(links) \ new)
      <4> SUFFICES ASSUME NEW s \in Active(links), s \notin new, s.edge = e
                   PROVE  FALSE
        BY DEF EdgesOf
      <4>1. s = r
        BY <2>1, <3>1 DEF OneRowPerEdge
      <4>2. QED
        BY <2>1, <4>1 DEF Active
    <3>3. QED
      BY <3>1, <3>2 DEF Logged
  <2>3. CASE r \notin links
    BY <2>1, <2>3 DEF Logged, EdgesOf, Active
  <2>4. QED
    BY <2>2, <2>3
<1>3. QED
  BY <1>1, <1>2
-----------------------------------------------------------------------------
(* The state before and after a transaction. *)

LEMMA AtFacts ==
    ASSUME TypeOK, TxInv
    PROVE  /\ turn \in Nat /\ turn <= MaxTurn
           /\ At \in Turns /\ At \in Nat /\ turn <= At
           /\ tx.kind = "none" => At = turn
           /\ tx.kind = "turn" => pending /\ At = turn
           /\ tx.kind = "synthetic" => At = turn + 1
           /\ tx.kind \in {"none", "turn", "synthetic"}
  BY DEF TypeOK, Transactions, TxInv, At, Turns

\* The rows of before the transaction were written in earlier turns.
LEMMA SavedRowsAreOlder ==
    ASSUME TypeOK, TxInv, SavedInv, tx.kind # "none",
           NEW r \in Active(saved.links)
    PROVE  r.made < At
<1>1. r.made \in Int
  BY RowParts DEF SavedInv, TableOK, RowsOK, Active, Turns
<1>2. CASE tx.kind = "turn"
  BY <1>1, <1>2, AtFacts DEF SavedInv, MadeBy
<1>3. CASE tx.kind = "synthetic"
  BY <1>1, <1>3, AtFacts DEF SavedInv, TableOK, MadeBy
<1>4. QED
  BY <1>2, <1>3, AtFacts

LEMMA KindOfRow ==
    ASSUME TypeOK, NEW r \in Active(links)
    PROVE  /\ r \in Rows /\ r.edge \in AllEdges /\ r.until = Open
           /\ r.since \in Nat /\ r.made \in Nat
  BY RowParts DEF TypeOK, Active, Turns

LEMMA FlushedFacts ==
    ASSUME TypeOK, TxInv, BatchInv, ~tx.doomed
    PROVE  /\ TableOK(Flushed, At)
           /\ Active(Flushed) = Kept \cup Opened(tx.fresh, At)
           /\ QuestsAreOver(Active(Flushed), quest, ended)
           /\ ledger = EdgesOf(Active(Flushed))
<1>1. /\ tx.dirty \in SUBSET Active(links) /\ tx.fresh \in SUBSET AllEdges
      /\ At \in Turns /\ At \in Int
  BY AtFacts DEF TypeOK, Transactions
<1>2. TableOK(links, At) /\ RowsOK(links)
  BY DEF BatchInv, TableOK
<1>3. Replaces(links, tx.dirty, tx.fresh)
  BY DEF BatchInv, FreshInv, LedgerInv, Replaces
<1>4. TableOK(Flushed, At)
  BY <1>1, <1>2, <1>3, RewrittenTable DEF Flushed
<1>5. Active(Flushed) = Kept \cup Opened(tx.fresh, At)
  BY <1>1, <1>2, RewrittenRows DEF Flushed, Kept
<1>6. QuestsAreOver(Active(Flushed), quest, ended)
  <2>1. ended \in [Quests -> Int]
    BY DEF TypeOK, Turns
  <2>2. QED
    BY <1>1, <1>2, <2>1, RewrittenQuests DEF Flushed, BatchInv, QuestInv, Kept
<1>7. ledger = EdgesOf(Active(Flushed))
  <2>1. ledger = EdgesOf(Kept) \cup tx.fresh
    BY DEF BatchInv, LedgerInv
  <2>2. EdgesOf(Opened(tx.fresh, At)) = tx.fresh
    BY <1>1, NewRow DEF EdgesOf, Opened
  <2>3. EdgesOf(Active(Flushed)) = EdgesOf(Kept) \cup EdgesOf(Opened(tx.fresh, At))
    BY <1>5 DEF EdgesOf
  <2>4. QED
    BY <2>1, <2>2, <2>3
<1>8. QED
  BY <1>4, <1>5, <1>6, <1>7

\* Nothing is waiting to be flushed.
LEMMA SettledBatch ==
    ASSUME TableOK(links', At'), \A q \in Quests: ended'[q] <= At',
           QuestsAreOver(Active(links'), quest', ended'),
           ledger' = EdgesOf(Active(links')),
           tx'.dirty = {}, tx'.fresh = {}
    PROVE  BatchInv'
<1>1. Kept' = Active(links')
  BY DEF Kept
<1>2. QuestInv'
  BY <1>1 DEF QuestInv
<1>3. FreshInv'
  BY DEF FreshInv
<1>4. LedgerInv'
  BY <1>1 DEF LedgerInv
<1>5. QED
  BY <1>2, <1>3, <1>4 DEF BatchInv

\* What a step that commits leaves behind.
LEMMA CommittedWorld ==
    ASSUME TypeOK', tx' = NoTx, saved' = World',
           TableOK(links', turn'), \A q \in Quests: ended'[q] <= turn',
           QuestsAreOver(Active(links'), quest', ended'),
           ledger' = EdgesOf(Active(links')),
           pending' => MadeBy(links', turn' - 1)
    PROVE  IInv'
<1>1. At' = turn'
  BY DEF At, NoTx, Begun
<1>2. tx'.dirty = {} /\ tx'.fresh = {}
  BY DEF NoTx, Begun
<1>3. BatchInv'
  BY <1>1, <1>2, SettledBatch
<1>4. /\ saved'.links = links' /\ saved'.quest = quest' /\ saved'.npc = npc'
      /\ saved'.ledger = ledger' /\ saved'.ended = ended'
  BY DEF World
<1>5. ended' \in [Quests -> 0..turn']
  BY DEF TypeOK, Turns
<1>6. SavedInv'
  <2>1. saved' \in [links: SUBSET Rows, quest: [Quests -> {"open", "terminal"}],
                    npc: [Npcs -> Statuses], ledger: SUBSET AllEdges,
                    ended: [Quests -> 0..turn']]
    BY <1>5 DEF World, TypeOK, Statuses
  <2>2. QED
    BY <1>4, <2>1 DEF SavedInv
<1>7. TxInv'
  BY DEF TxInv, NoTx, Begun
<1>8. GoneInv'
  BY <1>4 DEF GoneInv
<1>9. QED
  BY <1>3, <1>6, <1>7, <1>8 DEF IInv
-----------------------------------------------------------------------------
(* Steps outside a transaction, and the steps that begin and end one. *)

LEMMA InitIsConsistent == Init => IInv
<1> SUFFICES ASSUME Init PROVE IInv
  OBVIOUS
<1>1. PICK z \in Zones: /\ links = {Row(LocatedIn(z), 0, Open)}
                        /\ ledger = {LocatedIn(z)}
  BY DEF Init
<1> DEFINE home == Row(LocatedIn(z), 0, Open)
<1>2. 0 \in Turns
  BY DEF Turns
<1>3. /\ home \in Rows /\ home.edge = LocatedIn(z) /\ home.since = 0
      /\ home.until = Open /\ home.made = 0
  BY <1>2, LocatedInFacts, NewRow
<1>4. Active(links) = {home}
  BY <1>1, <1>3 DEF Active
<1> HIDE DEF home
<1>5. links = {home}
  BY <1>1 DEF home
<1>6. TypeOK
  <2>1. tx \in Transactions(links)
    BY BegunFacts DEF Init, NoTx
  <2>2. links \subseteq Rows /\ \A r \in links: r.until = Open \/ r.since <= r.until
    BY <1>3, <1>5
  <2>3. /\ quest \in [Quests -> {"open", "terminal"}]
        /\ npc \in [Npcs -> {"active", "inactive", "offstage"}]
        /\ ended \in [Quests -> Turns]
        /\ turn \in Turns /\ pending \in BOOLEAN
    BY <1>2 DEF Init
  <2>4. ledger \subseteq AllEdges
    BY <1>1, LocatedInFacts
  <2>5. QED
    BY <2>1, <2>2, <2>3, <2>4 DEF TypeOK
<1>7. TableOK(links, 0)
  <2>1. PlayersPlace(home.edge) /\ ~Rivals(home.edge, home.edge)
    BY <1>3, LocatedInFacts, RivalsAreNotPlaces
  <2>2. QED
    BY <1>3, <1>4, <1>5, <2>1
       DEF TableOK, RowsOK, OneRowPerEdge, OneLocation, PlayerIsPlaced,
           RivalsAreLater, MadeBy
<1>8. QuestsAreOver(Active(links), quest, ended)
  BY DEF Init, QuestsAreOver
<1>9. ledger = EdgesOf(Active(links))
  BY <1>1, <1>3, <1>4 DEF EdgesOf
<1>10. At = 0 /\ tx = NoTx /\ saved = World /\ ~pending /\ turn = 0
  BY DEF Init, At, NoTx, Begun, World
<1>11. \A q \in Quests: ended[q] = 0
  BY DEF Init
<1>12. BatchInv
  <2>1. tx.dirty = {} /\ tx.fresh = {} /\ Kept = Active(links)
    BY <1>10 DEF NoTx, Begun, Kept
  <2>2. QED
    BY <1>7, <1>8, <1>9, <1>10, <1>11, <2>1
       DEF BatchInv, QuestInv, FreshInv, LedgerInv
<1>13. SavedInv
  <2>1. /\ saved.links = links /\ saved.quest = quest /\ saved.npc = npc
        /\ saved.ledger = ledger /\ saved.ended = ended
    BY <1>10 DEF World
  <2>2. ended \in [Quests -> 0..turn]
    BY <1>10, <1>11 DEF Init
  <2>3. saved \in [links: SUBSET Rows, quest: [Quests -> {"open", "terminal"}],
                   npc: [Npcs -> Statuses], ledger: SUBSET AllEdges,
                   ended: [Quests -> 0..turn]]
    BY <1>6, <1>10, <2>2 DEF World, TypeOK, Statuses
  <2>4. QED
    BY <1>7, <1>8, <1>9, <1>10, <2>1, <2>3 DEF SavedInv
<1>14. TxInv /\ GoneInv
  BY <1>10 DEF TxInv, GoneInv, NoTx, Begun, World
<1>15. QED
  BY <1>6, <1>12, <1>13, <1>14 DEF IInv

\* Nothing is waiting to be flushed when no transaction is open or one has
\* only just been.
LEMMA SettledFacts ==
    ASSUME IInv, tx.dirty = {}, tx.fresh = {}, ~tx.doomed
    PROVE  /\ TableOK(links, At)
           /\ \A q \in Quests: ended[q] <= At
           /\ QuestsAreOver(Active(links), quest, ended)
           /\ ledger = EdgesOf(Active(links))
<1>1. Kept = Active(links)
  BY DEF Kept
<1>2. QED
  BY <1>1 DEF IInv, BatchInv, QuestInv, LedgerInv

LEMMA IdleFacts ==
    ASSUME IInv, tx.kind = "none"
    PROVE  /\ tx = NoTx /\ saved = World /\ At = turn
           /\ turn \in Nat /\ turn \in Turns
           /\ TableOK(links, turn)
           /\ \A q \in Quests: ended[q] <= turn
           /\ QuestsAreOver(Active(links), quest, ended)
           /\ ledger = EdgesOf(Active(links))
<1>1. tx = NoTx /\ saved = World /\ At = turn /\ turn \in Nat /\ turn \in Turns
  BY AtFacts DEF IInv, TxInv, TypeOK
<1>2. tx.dirty = {} /\ tx.fresh = {} /\ ~tx.doomed
  BY <1>1 DEF NoTx, Begun
<1>3. QED
  BY <1>1, <1>2, SettledFacts

LEMMA TableLater ==
    ASSUME NEW table, NEW at \in Int, NEW later \in Int, at <= later,
           TableOK(table, at)
    PROVE  TableOK(table, later)
<1>1. \A r \in Active(table): r.made \in Int
  BY RowParts DEF TableOK, RowsOK, Active, Turns
<1>2. MadeBy(table, later)
  BY <1>1 DEF TableOK, MadeBy
<1>3. QED
  BY <1>2 DEF TableOK

LEMMA BeginIsConsistent ==
    ASSUME IInv, BeginPlan \/ BeginGraphHealth
    PROVE  IInv'
<1>1. /\ tx.kind = "none"
      /\ UNCHANGED <<turn, pending, world, saved>>
      /\ \/ tx' = Begun("turn") /\ pending
         \/ tx' = Begun("synthetic") /\ ~pending /\ turn < MaxTurn
  BY DEF BeginPlan, BeginGraphHealth
<1>2. UNCHANGED <<links, quest, npc, ledger, ended>>
  BY <1>1 DEF world
<1>3. /\ tx'.dirty = {} /\ tx'.fresh = {} /\ ~tx'.doomed /\ tx'.ops = 0
      /\ tx'.owed = {} /\ tx'.proposed = {}
      /\ tx'.kind \in {"turn", "synthetic"}
      /\ tx'.kind = "turn" => pending /\ tx' = Begun("turn")
      /\ tx'.kind = "synthetic" => ~pending /\ turn < MaxTurn
      /\ tx' \in Transactions(links)
  BY <1>1, BegunFacts
<1>4. TypeOK'
  BY <1>1, <1>2, <1>3 DEF IInv, TypeOK, Active
<1>5. TxInv'
  BY <1>1, <1>3 DEF TxInv
<1>6. SavedInv'
  BY <1>1 DEF IInv, SavedInv
<1>7. BatchInv'
  <2>1. At' \in Int /\ turn <= At' /\ turn \in Int
    BY <1>1, <1>3, IdleFacts DEF At
  <2>2. TableOK(links', At')
    BY <1>1, <1>2, <2>1, IdleFacts, TableLater
  <2>3. \A q \in Quests: ended'[q] <= At'
    <3>1. \A q \in Quests: ended[q] \in Int /\ ended[q] <= turn
      BY <1>1, IdleFacts DEF IInv, TypeOK, Turns
    <3>2. QED
      BY <1>2, <2>1, <3>1
  <2>4. QuestsAreOver(Active(links'), quest', ended')
    BY <1>1, <1>2, IdleFacts
  <2>5. ledger' = EdgesOf(Active(links'))
    BY <1>1, <1>2, IdleFacts
  <2>6. QED
    BY <1>3, <2>2, <2>3, <2>4, <2>5, SettledBatch
<1>8. GoneInv'
  <2>1. npc' = saved'.npc
    BY <1>1, <1>2, IdleFacts DEF World
  <2>2. QED
    BY <2>1 DEF GoneInv
<1>9. QED
  BY <1>4, <1>5, <1>6, <1>7, <1>8 DEF IInv

LEMMA CommitIsConsistent ==
    ASSUME IInv, Commit
    PROVE  IInv'
<1>1. /\ TypeOK /\ TxInv /\ BatchInv /\ ~tx.doomed
      /\ turn' = At /\ ~pending' /\ pending' \in BOOLEAN /\ links' = Flushed /\ tx' = NoTx
      /\ UNCHANGED <<quest, npc, ledger, ended>>
      /\ saved' = World'
  BY DEF IInv, Commit, Save, World
<1>2. /\ TableOK(links', turn') /\ QuestsAreOver(Active(links'), quest', ended')
      /\ ledger' = EdgesOf(Active(links'))
  BY <1>1, FlushedFacts
<1>3. \A q \in Quests: ended'[q] <= turn'
  BY <1>1 DEF BatchInv, QuestInv
<1>4. TypeOK'
  <2>1. turn' \in Turns
    BY <1>1, AtFacts
  <2>2. tx' \in Transactions(links')
    BY <1>1, BegunFacts DEF NoTx
  <2>3. links' \subseteq Rows /\ \A r \in links': r.until = Open \/ r.since <= r.until
    BY <1>2 DEF TableOK, RowsOK
  <2>4. /\ quest' \in [Quests -> {"open", "terminal"}]
        /\ npc' \in [Npcs -> {"active", "inactive", "offstage"}]
        /\ ledger' \subseteq AllEdges /\ ended' \in [Quests -> Turns]
    BY <1>1 DEF TypeOK
  <2>5. QED
    BY <1>1, <2>1, <2>2, <2>3, <2>4 DEF TypeOK, Active
<1>5. QED
  BY <1>1, <1>2, <1>3, <1>4, CommittedWorld

LEMMA RollbackIsConsistent ==
    ASSUME IInv, Rollback
    PROVE  IInv'
<1>1. /\ TypeOK /\ SavedInv
      /\ ~pending' /\ pending' \in BOOLEAN /\ tx' = NoTx /\ UNCHANGED <<turn, saved>>
      /\ links' = saved.links /\ quest' = saved.quest /\ npc' = saved.npc
      /\ ledger' = saved.ledger /\ ended' = saved.ended
  BY DEF IInv, Rollback
<1>2. turn \in Nat /\ turn <= MaxTurn
  BY <1>1 DEF TypeOK, Turns
<1>3. TypeOK'
  <2>1. tx' \in Transactions(links')
    BY <1>1, BegunFacts DEF NoTx
  <2>2. links' \subseteq Rows /\ \A r \in links': r.until = Open \/ r.since <= r.until
    BY <1>1 DEF SavedInv, TableOK, RowsOK
  <2>3. /\ quest' \in [Quests -> {"open", "terminal"}]
        /\ npc' \in [Npcs -> {"active", "inactive", "offstage"}]
        /\ ledger' \subseteq AllEdges
    BY <1>1 DEF SavedInv, Statuses
  <2>4. ended' \in [Quests -> Turns]
    BY <1>1, <1>2 DEF SavedInv, Turns
  <2>5. QED
    BY <1>1, <2>1, <2>2, <2>3, <2>4 DEF TypeOK, Active
<1>4. saved' = World'
  BY <1>1 DEF SavedInv, World
<1>5. \A q \in Quests: ended'[q] <= turn'
  BY <1>1, <1>2 DEF SavedInv
<1>6. QED
  BY <1>1, <1>3, <1>4, <1>5, CommittedWorld DEF SavedInv
-----------------------------------------------------------------------------
(* Steps outside a transaction that write the next turn. *)

\* A table of active links that have only become fewer is as good as before.
LEMMA CleanedFacts ==
    ASSUME IInv, tx.kind = "none", turn < MaxTurn,
           NEW gone \in SUBSET Expirable, CleanUp(gone)
    PROVE  /\ TableOK(Cleaned(gone), turn + 1)
           /\ Active(Cleaned(gone)) \subseteq Active(links)
           /\ MadeBy(Cleaned(gone), turn)
           /\ npc' \in [Npcs -> Statuses]
           /\ \A n \in Npcs: npc'[n] # "inactive" \/ npc'[n] = npc[n]
<1> DEFINE left == UNION {LocationsOf(n): n \in gone}
<1>1. TypeOK /\ TableOK(links, turn) /\ RowsOK(links)
  BY IdleFacts DEF IInv, TableOK
<1>2. turn \in Int /\ turn + 1 \in Turns
  BY <1>1 DEF TypeOK, Turns
<1>3. \A r \in left: r \in Active(links) /\ ~PlayersPlace(r.edge)
  <2> SUFFICES ASSUME NEW n \in gone, NEW r \in LocationsOf(n)
               PROVE  r \in Active(links) /\ ~PlayersPlace(r.edge)
    OBVIOUS
  <2>1. n \in Npcs
    BY DEF Expirable
  <2>2. r \in Active(links) /\ r.edge.from = n
    BY <1>1, LocationsFound
  <2>3. QED
    BY <2>1, <2>2, ObjectsDiffer DEF PlayersPlace
<1> HIDE DEF left
<1>4. Cleaned(gone) = Rewritten(links, left, {}, turn + 1)
  BY DEF Cleaned, left
<1>5. left \in SUBSET Active(links) /\ {} \in SUBSET AllEdges
  BY <1>3
<1>6. Replaces(links, left, {})
  BY <1>3 DEF Replaces
<1>7. TableOK(Cleaned(gone), turn + 1)
  BY <1>1, <1>2, <1>4, <1>5, <1>6, RewrittenTable
<1>8. Active(Cleaned(gone)) \subseteq Active(links)
  BY <1>1, <1>2, <1>4, <1>5, RewrittenRows DEF Opened
<1>9. MadeBy(Cleaned(gone), turn)
  BY <1>1, <1>8 DEF TableOK, MadeBy
<1>10. /\ npc' \in [Npcs -> Statuses]
       /\ \A n \in Npcs: npc'[n] # "inactive" \/ npc'[n] = npc[n]
  BY <1>1 DEF CleanUp, TypeOK, Statuses
<1>11. QED
  BY <1>7, <1>8, <1>9, <1>10

\* The player's location is closed and another one opened.
LEMMA MovedFacts ==
    ASSUME TypeOK, NEW at \in Turns, NEW before \in Int, before <= at,
           NEW table, TableOK(table, before), Active(table) \subseteq Active(links),
           NEW z \in Zones
    PROVE  /\ TableOK(Moved(table, z, at), at)
           /\ \A r \in Active(Moved(table, z, at)):
                 r \in Active(table) \/ r.edge = LocatedIn(z)
<1> DEFINE here == LocationsOf(Player) \cap table
<1>1. /\ \A r \in here: r \in Active(table) /\ PlayersPlace(r.edge)
      /\ \A r \in Active(table): PlayersPlace(r.edge) => r \in here
  BY LocationsOfPlayer DEF Active
<1> HIDE DEF here
<1>2. Moved(table, z, at) = Rewritten(table, here, {LocatedIn(z)}, at)
  BY DEF Moved, here
<1>3. here \in SUBSET Active(table) /\ {LocatedIn(z)} \in SUBSET AllEdges
  BY <1>1, LocatedInFacts
<1>4. Replaces(table, here, {LocatedIn(z)})
  <2>1. ASSUME NEW r \in Active(table), Displaces(LocatedIn(z), r.edge)
        PROVE  r \in here
    BY <1>1, <2>1, LocatedInFacts, RivalsAreNotPlaces DEF Displaces
  <2>2. QED
    BY <2>1, LocatedInFacts DEF Replaces
<1>5. RowsOK(table)
  BY DEF TableOK
<1>6. TableOK(Moved(table, z, at), at)
  BY <1>2, <1>3, <1>4, RewrittenTable
<1>7. Active(Moved(table, z, at)) =
         (Active(table) \ here) \cup Opened({LocatedIn(z)}, at)
  BY <1>2, <1>3, <1>5, RewrittenRows
<1>8. QED
  BY <1>6, <1>7, LocatedInFacts, NewRow DEF Opened

\* A link that is added outside a plan leads to no quest, or is made later
\* than any quest has ended.
LEMMA QuestsUndisturbed ==
    ASSUME NEW rows, NEW more, NEW status, NEW end,
           QuestsAreOver(rows, status, end),
           \A r \in more: \/ r \in rows
                          \/ r.edge.to \notin Quests
                          \/ \A q \in Quests: r.made >= end[q]
    PROVE  QuestsAreOver(more, status, end)
  BY DEF QuestsAreOver

LEMMA NextTurnIsConsistent ==
    ASSUME IInv, tx.kind = "none", turn < MaxTurn, turn' = turn + 1,
           pending' \in BOOLEAN, UNCHANGED <<quest, ended, tx>>, Save,
           npc' \in [Npcs -> Statuses],
           TableOK(links', turn + 1),
           \A r \in Active(links'): \/ r \in Active(links)
                                   \/ r.edge.to \notin Quests
                                   \/ r.made = turn + 1,
           pending' => MadeBy(links', turn),
           ledger' = Logged(links, links')
    PROVE  IInv'
<1>1. /\ tx' = NoTx /\ saved' = World' /\ turn \in Nat /\ turn' \in Turns
      /\ turn' - 1 = turn /\ turn' \in Int
  BY IdleFacts DEF Save, World, Turns
<1>2. ledger' = EdgesOf(Active(links'))
  BY IdleFacts, LoggedIsExact DEF TableOK
<1>3. \A q \in Quests: ended[q] \in Int /\ ended[q] <= turn
  BY IdleFacts DEF IInv, TypeOK, Turns
<1>4. /\ QuestsAreOver(Active(links'), quest', ended')
      /\ \A q \in Quests: ended'[q] <= turn'
  <2>1. \A r \in Active(links'): \/ r \in Active(links)
                                 \/ r.edge.to \notin Quests
                                 \/ \A q \in Quests: r.made >= ended[q]
    BY <1>1, <1>3
  <2>2. QuestsAreOver(Active(links'), quest', ended')
    BY <2>1, IdleFacts, QuestsUndisturbed
  <2>3. QED
    BY <1>1, <1>3, <2>2
<1>5. TypeOK'
  <2>1. tx' \in Transactions(links')
    BY <1>1, BegunFacts DEF NoTx
  <2>2. /\ links' \subseteq Rows
        /\ \A r \in links': r.until = Open \/ r.since <= r.until
    BY DEF TableOK, RowsOK
  <2>3. ledger' \subseteq AllEdges
    BY <1>2, <2>2, RowParts DEF EdgesOf, Active
  <2>4. /\ quest' \in [Quests -> {"open", "terminal"}]
        /\ ended' \in [Quests -> Turns]
    BY DEF IInv, TypeOK
  <2>5. QED
    BY <1>1, <2>1, <2>2, <2>3, <2>4 DEF TypeOK, Statuses
<1>6. QED
  BY <1>1, <1>2, <1>3, <1>4, <1>5, CommittedWorld

LEMMA AllocateTurnIsConsistent ==
    ASSUME IInv, AllocateTurn
    PROVE  IInv'
<1>1. PICK gone \in SUBSET Expirable: CleanUp(gone) /\ links' = Cleaned(gone)
  BY DEF AllocateTurn
<1>2. /\ tx.kind = "none" /\ turn < MaxTurn /\ turn' = turn + 1
      /\ pending' \in BOOLEAN /\ UNCHANGED <<quest, ended, tx>> /\ Save
      /\ ledger' = Logged(links, links')
  BY DEF AllocateTurn
<1>3. QED
  BY <1>1, <1>2, CleanedFacts, NextTurnIsConsistent

LEMMA MovePlayerIsConsistent ==
    ASSUME IInv, NEW z \in Zones, MovePlayer(z)
    PROVE  IInv'
<1>1. PICK gone \in SUBSET Expirable:
         CleanUp(gone) /\ links' = Moved(Cleaned(gone), z, turn + 1)
  BY DEF MovePlayer
<1>2. /\ tx.kind = "none" /\ turn < MaxTurn /\ turn' = turn + 1
      /\ UNCHANGED <<quest, ended, tx>> /\ Save
      /\ ledger' = Logged(links, links') /\ ~pending /\ pending' = pending
  BY DEF MovePlayer
<1>3. TypeOK /\ turn + 1 \in Turns /\ turn + 1 \in Int
  BY <1>2 DEF IInv, TypeOK, Turns
<1>4. /\ TableOK(Cleaned(gone), turn + 1)
      /\ Active(Cleaned(gone)) \subseteq Active(links)
      /\ npc' \in [Npcs -> Statuses]
  BY <1>1, <1>2, CleanedFacts
<1>5. /\ TableOK(links', turn + 1)
      /\ \A r \in Active(links'):
            r \in Active(Cleaned(gone)) \/ r.edge = LocatedIn(z)
  BY <1>1, <1>3, <1>4, MovedFacts
<1>6. LocatedIn(z).to \notin Quests
  BY LocatedInFacts, ObjectsDiffer
<1>7. QED
  BY <1>2, <1>3, <1>4, <1>5, <1>6, NextTurnIsConsistent DEF TypeOK

\* What create_link checks.
LEMMA PostedFacts ==
    ASSUME NEW e \in AllEdges, NEW window \in Windows, PostLink(e, window)
    PROVE  /\ window.until = Open \/ window.since <= window.until
           /\ window.until = Open => Found({e}) = {}
           /\ window.until = Open /\ e.type = "located_in" => LocationsOf(e.from) = {}
<1>1. MayPost(e, window)
  BY DEF PostLink
<1>2. QED
  BY <1>1 DEF MayPost

LEMMA PostLinkIsConsistent ==
    ASSUME IInv, NEW e \in AllEdges, NEW window \in Windows,
           PostLink(e, window)
    PROVE  IInv'
<1> DEFINE new == [edge |-> e, since |-> window.since, until |-> window.until,
                   made |-> turn + 1, by |-> "client"]
<1>1. /\ tx.kind = "none" /\ turn < MaxTurn /\ turn' = turn + 1
      /\ UNCHANGED <<quest, ended, tx>> /\ Save
      /\ ledger' = Logged(links, links') /\ ~pending /\ pending' = pending
      /\ npc' = npc /\ links' = links \cup {new}
  BY DEF PostLink
<1>2. TypeOK /\ turn \in Int /\ turn + 1 \in Turns /\ turn + 1 \in Int
  BY <1>1 DEF IInv, TypeOK, Turns
<1>3. window.since \in Turns /\ window.until \in Turns \cup {Open}
  BY DEF Turns, Open
<1>4. /\ new \in Rows /\ new.edge = e /\ new.made = turn + 1 /\ new.by = "client"
      /\ new.until = Open \/ new.since <= new.until
  BY <1>2, <1>3, PostedFacts DEF Rows
<1>8. new.until = window.until
  OBVIOUS
<1> HIDE DEF new
<1>5. CASE new.until # Open
  <2>1. Active(links') = Active(links)
    BY <1>1, <1>5 DEF Active
  <2>2. TableOK(links, turn + 1)
    BY <1>1, <1>2, IdleFacts, TableLater
  <2>3. RowsOK(links')
    BY <1>1, <1>4, <2>2 DEF TableOK, RowsOK
  <2>4. TableOK(links', turn + 1)
    BY <2>1, <2>2, <2>3
       DEF TableOK, OneRowPerEdge, OneLocation, PlayerIsPlaced, RivalsAreLater, MadeBy
  <2>5. npc' \in [Npcs -> Statuses] /\ pending' \in BOOLEAN
    BY <1>1, <1>2 DEF TypeOK, Statuses
  <2>6. QED
    BY <1>1, <2>1, <2>4, <2>5, NextTurnIsConsistent
<1>6. CASE new.until = Open
  <2>1. Active(links') = Active(links) \cup {new}
    BY <1>1, <1>6 DEF Active
  <2>2. \A r \in Active(links):
           /\ r.edge # e
           /\ ~(e.type = "located_in" /\ r.edge.type = "located_in" /\ r.edge.from = e.from)
    <3>1. /\ Found({e}) = {}
          /\ e.type = "located_in" => LocationsOf(e.from) = {}
      BY <1>6, <1>8, PostedFacts
    <3>2. QED
      BY <1>2, <3>1, FoundRows, LocationsFound
  <2>3. TableOK(links, turn) /\ TableOK(links, turn + 1)
    BY <1>1, <1>2, IdleFacts, TableLater
  <2>4. \A r \in Active(links): r.made \in Int /\ r.made <= turn
    BY <1>2, <2>3, KindOfRow DEF TableOK, MadeBy
  <2>5. TableOK(links', turn + 1)
    <3>1. RowsOK(links')
      BY <1>1, <1>4, <2>3 DEF TableOK, RowsOK
    <3>2. OneRowPerEdge(links')
      BY <1>4, <2>1, <2>2, <2>3 DEF TableOK, OneRowPerEdge
    <3>3. OneLocation(links')
      BY <1>4, <2>1, <2>2, <2>3 DEF TableOK, OneLocation
    <3>4. PlayerIsPlaced(links')
      BY <2>1, <2>3 DEF TableOK, PlayerIsPlaced
    <3>5. RivalsAreLater(links')
      BY <1>2, <1>4, <2>1, <2>3, <2>4 DEF TableOK, RivalsAreLater
    <3>6. MadeBy(links', turn + 1)
      BY <1>2, <1>4, <2>1, <2>3 DEF TableOK, MadeBy
    <3>7. QED
      BY <3>1, <3>2, <3>3, <3>4, <3>5, <3>6 DEF TableOK
  <2>6. npc' \in [Npcs -> Statuses] /\ pending' \in BOOLEAN
    BY <1>1, <1>2 DEF TypeOK, Statuses
  <2>7. \A r \in Active(links'): \/ r \in Active(links)
                                 \/ r.edge.to \notin Quests
                                 \/ r.made = turn + 1
    BY <1>4, <2>1
  <2>8. QED
    BY <1>1, <2>5, <2>6, <2>7, NextTurnIsConsistent
<1>7. QED
  BY <1>5, <1>6
-----------------------------------------------------------------------------
(* Steps inside a transaction. *)

\* What every operation leaves alone.
LEMMA InsideTx ==
    ASSUME IInv, tx.kind # "none", UNCHANGED <<turn, pending, saved>>,
           tx'.kind = tx.kind, tx'.ops = tx.ops + 1
    PROVE  TxInv' /\ SavedInv' /\ At' = At
<1>1. tx'.ops # 0
  BY DEF IInv, TypeOK, Transactions
<1>2. TxInv'
  BY <1>1 DEF IInv, TxInv
<1>3. SavedInv'
  BY DEF IInv, SavedInv
<1>4. At' = At
  BY DEF At
<1>5. QED
  BY <1>2, <1>3, <1>4

\* What flushing leaves of the ties that a gone NPC had.
LEMMA RewrittenTies ==
    ASSUME IInv, tx.kind # "none",
           NEW rows \in SUBSET Active(links), tx.dirty \subseteq rows,
           NEW edges \in SUBSET AllEdges, \A f \in edges: Narrated(f),
           links' = Rewritten(links, rows, edges, At),
           UNCHANGED <<npc, saved>>
    PROVE  GoneInv'
<1> SUFFICES ASSUME NEW n \in Npcs, npc[n] = "inactive",
                    saved.npc[n] # "inactive",
                    NEW r \in Active(saved.links), r \in links',
                    n \in {r.edge.from, r.edge.to}
             PROVE  r.edge.type \in Preserved
  BY DEF GoneInv
<1>1. RowsOK(links) /\ At \in Turns
  BY AtFacts DEF IInv, BatchInv, TableOK
<1>2. r \in Active(links')
  BY DEF Active
<1>3. r \in Active(links) \ rows \/ r \in Opened(edges, At)
  BY <1>1, <1>2, RewrittenRows
<1>4. CASE r \in Active(links) \ rows
  BY <1>4 DEF IInv, GoneInv, Active
<1>5. CASE r \in Opened(edges, At)
  <2>1. r.made = At
    BY <1>1, <1>5, NewRow DEF Opened
  <2>2. r.made < At
    BY <2>1, SavedRowsAreOlder DEF IInv
  <2>3. QED
    BY <1>1, <2>1, <2>2 DEF Turns
<1>6. QED
  BY <1>3, <1>4, <1>5

LEMMA CreateObjectIsConsistent ==
    ASSUME IInv, CreateObject
    PROVE  IInv'
<1>1. /\ TypeOK /\ TxInv /\ BatchInv /\ tx.kind # "none" /\ tx.ops < MaxOps
      /\ ~tx.doomed /\ links' = Flushed
      /\ tx' = [tx EXCEPT !.ops = @ + 1, !.dirty = {}, !.fresh = {}]
      /\ UNCHANGED <<turn, pending, quest, npc, ledger, ended, saved>>
  BY DEF IInv, CreateObject, InTx
<1>2. /\ tx'.kind = tx.kind /\ tx'.ops = tx.ops + 1
      /\ tx'.dirty = {} /\ tx'.fresh = {}
  BY <1>1 DEF TypeOK, Transactions
<1>3. tx' \in Transactions(links')
  <2>1. tx \in Transactions(links) /\ MaxOps \in Nat
    BY <1>1 DEF TypeOK
  <2>2. tx.ops \in 0..MaxOps /\ tx.ops < MaxOps /\ tx.ops + 1 \in 0..MaxOps
    BY <1>1, <2>1 DEF Transactions
  <2>3. {} \in SUBSET Active(links') /\ {} \in SUBSET AllEdges
    OBVIOUS
  <2>4. tx' = [tx EXCEPT !.ops = @ + 1, !.dirty = {}, !.fresh = {}]
    BY <1>1
  <2>5. QED
    BY <2>1, <2>2, <2>3, <2>4 DEF Transactions
<1>4. TxInv' /\ SavedInv' /\ At' = At
  BY <1>1, <1>2, InsideTx
<1>5. TableOK(links', At')
  BY <1>1, <1>4, FlushedFacts
<1>6. TypeOK'
  BY <1>1, <1>3, <1>5 DEF TypeOK, TableOK, RowsOK
<1>7. BatchInv'
  <2>1. /\ QuestsAreOver(Active(links'), quest', ended')
        /\ ledger' = EdgesOf(Active(links'))
    BY <1>1, FlushedFacts
  <2>2. \A q \in Quests: ended'[q] <= At'
    BY <1>1, <1>4 DEF BatchInv, QuestInv
  <2>3. QED
    BY <1>2, <1>5, <2>1, <2>2, SettledBatch
<1>8. GoneInv'
  <2>1. /\ tx.dirty \in SUBSET Active(links) /\ tx.fresh \in SUBSET AllEdges
        /\ \A f \in tx.fresh: Narrated(f)
    BY <1>1 DEF TypeOK, Transactions, BatchInv, FreshInv
  <2>2. links' = Rewritten(links, tx.dirty, tx.fresh, At)
    BY <1>1 DEF Flushed
  <2>3. QED
    BY <1>1, <2>1, <2>2, RewrittenTies
<1>9. QED
  BY <1>4, <1>6, <1>7, <1>8 DEF IInv

LEMMA TravelIsConsistent ==
    ASSUME IInv, NEW z \in Zones, Travel(z)
    PROVE  IInv'
<1>1. /\ TypeOK /\ TxInv /\ BatchInv /\ tx.kind = "turn" /\ tx.ops = 0
      /\ links' = Moved(links, z, At) /\ ledger' = Logged(links, links')
      /\ tx' = [tx EXCEPT !.ops = @ + 1]
      /\ UNCHANGED <<turn, pending, quest, npc, ended, saved>>
  BY DEF IInv, Travel
<1>2. tx.dirty = {} /\ tx.fresh = {} /\ ~tx.doomed
  BY <1>1, BegunFacts DEF TxInv
<1>3. /\ tx'.kind = tx.kind /\ tx'.ops = tx.ops + 1
      /\ tx'.dirty = {} /\ tx'.fresh = {}
  BY <1>1, <1>2 DEF TypeOK, Transactions
<1>4. tx' \in Transactions(links')
  BY <1>1, <1>2 DEF TypeOK, Transactions
<1>5. TxInv' /\ SavedInv' /\ At' = At
  BY <1>1, <1>3, InsideTx
<1>6. At \in Turns /\ At \in Int
  BY <1>1, AtFacts
<1>7. /\ TableOK(links, At) /\ \A q \in Quests: ended[q] <= At
      /\ QuestsAreOver(Active(links), quest, ended)
      /\ ledger = EdgesOf(Active(links))
  BY <1>2, SettledFacts
<1>8. /\ TableOK(links', At')
      /\ \A r \in Active(links'): r \in Active(links) \/ r.edge = LocatedIn(z)
  BY <1>1, <1>5, <1>6, <1>7, MovedFacts
<1>9. ledger' = EdgesOf(Active(links'))
  BY <1>1, <1>7, LoggedIsExact DEF TableOK
<1>10. TypeOK'
  <2>1. links' \subseteq Rows /\ \A r \in links': r.until = Open \/ r.since <= r.until
    BY <1>8 DEF TableOK, RowsOK
  <2>2. ledger' \subseteq AllEdges
    BY <1>9, <2>1, RowParts DEF EdgesOf, Active
  <2>3. QED
    BY <1>1, <1>4, <2>1, <2>2 DEF TypeOK
<1>11. BatchInv'
  <2>1. LocatedIn(z).to \notin Quests
    BY LocatedInFacts, ObjectsDiffer
  <2>2. QuestsAreOver(Active(links'), quest', ended')
    BY <1>1, <1>7, <1>8, <2>1, QuestsUndisturbed
  <2>3. QED
    BY <1>1, <1>3, <1>5, <1>7, <1>8, <1>9, <2>2, SettledBatch
<1>12. GoneInv'
  <2> DEFINE here == LocationsOf(Player) \cap links
  <2>1. /\ here \in SUBSET Active(links) /\ tx.dirty \subseteq here
        /\ {LocatedIn(z)} \in SUBSET AllEdges
        /\ \A f \in {LocatedIn(z)}: Narrated(f)
    BY <1>1, <1>2, LocationsOfPlayer, LocatedInFacts
  <2>2. links' = Rewritten(links, here, {LocatedIn(z)}, At)
    BY <1>1 DEF Moved
  <2>3. QED
    BY <1>1, <2>1, <2>2, RewrittenTies
<1>13. QED
  BY <1>5, <1>10, <1>11, <1>12 DEF IInv

\* Rows an operation may close and edges it may add.
Fits(rows, edges) ==
    /\ \A f \in edges: Narrated(f)
    /\ \A f \in edges, r \in Active(links):
          Displaces(f, r.edge) => r \in tx.dirty \cup rows
    /\ \A f \in edges, r \in Active(links): f = r.edge => PlayersPlace(f)
    /\ \A r \in rows: PlayersPlace(r.edge) => \E f \in edges: PlayersPlace(f)
    /\ \A f, g \in edges: PlayersPlace(f) /\ PlayersPlace(g) => f = g

\* What an operation does to the batch: Patch, and TrackQuest.
Patched(rows, edges) ==
    /\ tx'.kind = tx.kind /\ tx'.ops = tx.ops + 1
    /\ tx'.dirty = tx.dirty \cup rows /\ tx'.fresh = tx.fresh \cup edges
    /\ ~tx'.doomed =>
          /\ ~tx.doomed
          /\ \A f \in edges, g \in tx.fresh: ~(PlayersPlace(f) /\ PlayersPlace(g))
    /\ ledger' = (ledger \ EdgesOf(rows)) \cup edges
    /\ UNCHANGED <<turn, pending, links, saved>>

LEMMA PatchedBatch ==
    ASSUME TypeOK, BatchInv, At' = At,
           NEW rows \in SUBSET Active(links), NEW edges \in SUBSET AllEdges,
           Fits(rows, edges), Patched(rows, edges),
           \A q \in Quests: ended'[q] <= At,
           QuestsAreOver(Kept \ rows, quest', ended')
    PROVE  BatchInv'
<1>1. Kept' = Kept \ rows /\ links' = links
  BY DEF Kept, Patched
<1>2. TableOK(links', At')
  BY <1>1 DEF BatchInv
<1>3. QuestInv'
  <2>1. QuestsAreOver(Kept', quest', ended')
    BY <1>1
  <2>2. QED
    BY <2>1 DEF QuestInv
<1>4. FreshInv'
  <2>1. FreshInv
    BY DEF BatchInv
  <2>2. tx'.dirty = tx.dirty \cup rows /\ tx'.fresh = tx.fresh \cup edges
    BY DEF Patched
  <2>3. \A f \in tx'.fresh: Narrated(f)
    BY <2>1, <2>2 DEF FreshInv, Fits
  <2>4. \A f \in tx'.fresh, r \in Active(links'):
           Displaces(f, r.edge) => r \in tx'.dirty
    BY <1>1, <2>1, <2>2 DEF FreshInv, Fits
  <2>5. \A f \in tx'.fresh, r \in Active(links'): f = r.edge => PlayersPlace(f)
    BY <1>1, <2>1, <2>2 DEF FreshInv, Fits
  <2>6. \A r \in tx'.dirty:
           PlayersPlace(r.edge) => \E f \in tx'.fresh: PlayersPlace(f)
    BY <2>1, <2>2 DEF FreshInv, Fits
  <2>7. QED
    BY <2>3, <2>4, <2>5, <2>6 DEF FreshInv
<1>5. LedgerInv'
  <2> SUFFICES ASSUME ~tx'.doomed
               PROVE  /\ ledger' = EdgesOf(Kept') \cup tx'.fresh
                      /\ \A f, g \in tx'.fresh:
                            PlayersPlace(f) /\ PlayersPlace(g) => f = g
    BY DEF LedgerInv
  <2>1. /\ ledger = EdgesOf(Kept) \cup tx.fresh
        /\ \A f, g \in tx.fresh: PlayersPlace(f) /\ PlayersPlace(g) => f = g
        /\ \A f \in edges, g \in tx.fresh: ~(PlayersPlace(f) /\ PlayersPlace(g))
        /\ tx'.fresh = tx.fresh \cup edges
        /\ ledger' = (ledger \ EdgesOf(rows)) \cup edges
    BY DEF BatchInv, LedgerInv, Patched
  <2>2. \A f, g \in tx'.fresh: PlayersPlace(f) /\ PlayersPlace(g) => f = g
    BY <2>1 DEF Fits
  <2>3. EdgesOf(rows) \cap tx.fresh = {}
    <3> SUFFICES ASSUME NEW r \in rows, r.edge \in tx.fresh PROVE FALSE
      BY DEF EdgesOf
    <3>1. PlayersPlace(r.edge)
      BY DEF BatchInv, FreshInv
    <3>2. QED
      BY <2>1, <3>1 DEF Fits
  <2>4. EdgesOf(Kept) \ EdgesOf(rows) = EdgesOf(Kept \ rows)
    BY DEF EdgesOf, Kept, BatchInv, TableOK, OneRowPerEdge
  <2>5. QED
    BY <1>1, <2>1, <2>2, <2>3, <2>4
<1>6. QED
  BY <1>2, <1>3, <1>4, <1>5 DEF BatchInv

LEMMA PatchStep ==
    ASSUME IInv, InTx,
           NEW rows \in SUBSET Active(links), NEW edges \in SUBSET AllEdges,
           Fits(rows, edges), Patched(rows, edges), tx' \in Transactions(links),
           quest' \in [Quests -> {"open", "terminal"}], npc' \in [Npcs -> Statuses],
           ended' \in [Quests -> Turns], \A q \in Quests: ended'[q] <= At,
           QuestsAreOver(Kept \ rows, quest', ended'),
           \A n \in Npcs: npc'[n] = "inactive" =>
              npc[n] = "inactive" \/ TiesOf(n) \subseteq rows
    PROVE  IInv'
<1>1. TypeOK /\ BatchInv /\ tx.kind # "none"
  BY DEF IInv, InTx
<1>2. /\ UNCHANGED <<turn, pending, links, saved>>
      /\ tx'.kind = tx.kind /\ tx'.ops = tx.ops + 1
      /\ tx'.dirty = tx.dirty \cup rows
      /\ ledger' \subseteq ledger \cup edges
  BY DEF Patched
<1>3. TxInv' /\ SavedInv' /\ At' = At
  BY <1>1, <1>2, InsideTx
<1>4. TypeOK'
  BY <1>1, <1>2 DEF TypeOK, Statuses
<1>5. BatchInv'
  BY <1>1, <1>3, PatchedBatch
<1>6. GoneInv'
  <2> SUFFICES ASSUME NEW n \in Npcs, npc'[n] = "inactive",
                      saved.npc[n] # "inactive",
                      NEW r \in Active(saved.links), r \in links,
                      n \in {r.edge.from, r.edge.to}
               PROVE  r.edge.type \in Preserved \/ r \in tx.dirty \cup rows
    BY <1>2 DEF GoneInv
  <2>1. CASE npc[n] = "inactive"
    BY <2>1 DEF IInv, GoneInv
  <2>2. CASE TiesOf(n) \subseteq rows
    <3>1. r \in Active(links)
      BY DEF Active
    <3>2. r.edge \in AllEdges
      BY <1>1, <3>1, KindOfRow
    <3>3. QED
      BY <2>2, <3>1, <3>2, FoundRows DEF TiesOf
  <2>3. QED
    BY <2>1, <2>2
<1>7. QED
  BY <1>3, <1>4, <1>5, <1>6 DEF IInv

\* The transaction after Patch.
LEMMA PatchFacts ==
    ASSUME IInv, InTx,
           NEW rows \in SUBSET Active(links), NEW edges \in SUBSET AllEdges,
           Patch(rows, edges)
    PROVE  Patched(rows, edges) /\ tx' \in Transactions(links)
<1> DEFINE clash == \E e \in edges: \E f \in tx.fresh:
                       \/ e = f
                       \/ /\ e.type = "located_in"
                          /\ f.type = "located_in"
                          /\ e.from = f.from
<1>1. /\ tx \in Transactions(links) /\ tx.ops < MaxOps /\ MaxOps \in Nat
      /\ tx' = [tx EXCEPT !.ops = @ + 1, !.dirty = @ \cup rows,
                          !.fresh = @ \cup edges, !.doomed = @ \/ clash]
  BY DEF IInv, TypeOK, InTx, Patch
<1>2. /\ ledger' = (ledger \ EdgesOf(rows)) \cup edges
      /\ UNCHANGED <<turn, pending, links, saved>>
  BY DEF Patch
<1>3. clash \in BOOLEAN
  OBVIOUS
<1>4. ASSUME NEW f \in edges, NEW g \in tx.fresh, PlayersPlace(f), PlayersPlace(g)
      PROVE  clash
  BY <1>4 DEF PlayersPlace
<1> HIDE DEF clash
<1>5. /\ tx'.kind = tx.kind /\ tx'.ops = tx.ops + 1
      /\ tx'.dirty = tx.dirty \cup rows /\ tx'.fresh = tx.fresh \cup edges
      /\ tx' \in Transactions(links)
  <2>1. /\ tx.ops + 1 \in 0..MaxOps /\ tx.dirty \cup rows \in SUBSET Active(links)
        /\ tx.fresh \cup edges \in SUBSET AllEdges
        /\ (tx.doomed \/ clash) \in BOOLEAN
    BY <1>1 DEF Transactions
  <2>2. QED
    BY <1>1, <2>1 DEF Transactions
<1>6. tx'.doomed = (tx.doomed \/ clash)
  BY <1>1 DEF Transactions
<1>7. QED
  BY <1>2, <1>4, <1>5, <1>6 DEF Patched

\* An operation that leaves the quests alone.
LEMMA QuietPatch ==
    ASSUME IInv, InTx,
           NEW rows \in SUBSET Active(links), NEW edges \in SUBSET AllEdges,
           Fits(rows, edges), Patch(rows, edges), UNCHANGED <<quest, ended>>,
           npc' \in [Npcs -> Statuses],
           \A n \in Npcs: npc'[n] = "inactive" =>
              npc[n] = "inactive" \/ TiesOf(n) \subseteq rows
    PROVE  IInv'
<1>1. /\ quest' \in [Quests -> {"open", "terminal"}]
      /\ ended' \in [Quests -> Turns] /\ \A q \in Quests: ended'[q] <= At
  BY DEF IInv, TypeOK, BatchInv, QuestInv
<1>2. QuestsAreOver(Kept \ rows, quest', ended')
  BY DEF IInv, BatchInv, QuestInv, QuestsAreOver
<1>3. QED
  BY <1>1, <1>2, PatchFacts, PatchStep
-----------------------------------------------------------------------------
(* The operations. *)

LEMMA BothFacts ==
    ASSUME NEW e \in SocialEdges, NEW both \in BOOLEAN,
           NEW f \in Both(e, both)
    PROVE  f \in SocialEdges /\ f.type = e.type
  BY DEF Both, Reverse, SocialEdges, Edges

\* Rows that are not the player's place, and edges that are no place at all.
LEMMA FitsNoPlace ==
    ASSUME NEW rows, NEW edges,
           \A f \in edges: f.type # "located_in" /\ f \notin EdgesOf(Active(links)),
           \A r \in rows: r.edge.type # "located_in" \/ r.edge.from # Player,
           \A f \in edges, r \in Active(links): Rivals(f, r.edge) => r \in rows
    PROVE  Fits(rows, edges)
  BY DEF Fits, Narrated, Displaces, PlayersPlace, EdgesOf

LEMMA CreateSocialLinkIsConsistent ==
    ASSUME IInv, NEW e \in SocialEdges, NEW both \in BOOLEAN,
           CreateLink(e, both)
    PROVE  IInv'
<1> DEFINE rows == OtherOwners(e) \cup Opposites(e, both)
           edges == Both(e, both) \ EdgesOf(Active(links))
<1>1. InTx /\ Patch(rows, edges) /\ UNCHANGED <<quest, npc, ended>> /\ TypeOK
  BY DEF CreateLink, IInv
<1>2. e.type \in Support \cup Conflict
  BY DEF SocialEdges, Edges
<1>3. \A f \in edges: f \in SocialEdges /\ f.type = e.type
  BY BothFacts
<1>4. rows \in SUBSET Active(links) /\ edges \in SUBSET AllEdges
  BY <1>3, FoundRows DEF OtherOwners, Opposites, AllEdges
<1>5. \A r \in rows: r.edge.type # "located_in"
  BY FoundRows DEF OtherOwners, Opposites, Found, OwnerEdges, SocialEdges, Edges,
                   Support, Conflict
<1>6. ASSUME NEW f \in edges, NEW r \in Active(links), Rivals(f, r.edge)
      PROVE  r \in rows
  <2>1. f \in SocialEdges /\ f.type = e.type /\ f.type # "carried_by"
    BY <1>2, <1>3 DEF Support, Conflict
  <2>2. Opposed(e.type, r.edge.type) /\ f.from = r.edge.from /\ f.to = r.edge.to
    BY <1>6, <2>1 DEF Rivals
  <2>3. r.edge \in SocialEdges
    <3>1. r.edge \in AllEdges /\ r.edge.type \in Support \cup Conflict
      BY <1>1, <2>2, KindOfRow DEF Opposed
    <3>2. QED
      BY <3>1 DEF AllEdges, SocialEdges, OwnerEdges, TrackingEdges,
                  LocationEdges, Edges, Support, Conflict
  <2>4. [r.edge EXCEPT !.type = e.type] = f
    BY <2>1, <2>2, <2>3 DEF SocialEdges, Edges
  <2>5. r \in Opposites(e, both)
    BY <2>2, <2>3, <2>4, FoundRows DEF Opposites
  <2>6. QED
    BY <2>5
<1>7. Fits(rows, edges)
  <2>1. \A f \in edges: f.type # "located_in" /\ f \notin EdgesOf(Active(links))
    BY <1>2, <1>3 DEF Support, Conflict
  <2> HIDE DEF rows, edges
  <2>2. QED
    BY <1>5, <1>6, <2>1, FitsNoPlace
<1> HIDE DEF rows, edges
<1>8. QED
  BY <1>1, <1>4, <1>7, QuietPatch DEF TypeOK, Statuses

LEMMA CreateOwnerLinkIsConsistent ==
    ASSUME IInv, NEW e \in OwnerEdges, CreateLink(e, FALSE)
    PROVE  IInv'
<1> DEFINE rows == OtherOwners(e) \cup Opposites(e, FALSE)
           edges == Both(e, FALSE) \ EdgesOf(Active(links))
<1>1. InTx /\ Patch(rows, edges) /\ UNCHANGED <<quest, npc, ended>> /\ TypeOK
  BY DEF CreateLink, IInv
<1>2. e.type = "carried_by"
  BY DEF OwnerEdges, Edges
<1>3. \A f \in edges: f = e
  BY DEF Both
<1>4. rows \in SUBSET Active(links) /\ edges \in SUBSET AllEdges
  BY <1>3, FoundRows DEF OtherOwners, Opposites, AllEdges
<1>5. \A r \in rows: r.edge.type # "located_in"
  BY FoundRows DEF OtherOwners, Opposites, Found, OwnerEdges, SocialEdges, Edges,
                   Support, Conflict
<1>6. ASSUME NEW f \in edges, NEW r \in Active(links), Rivals(f, r.edge)
      PROVE  r \in rows
  <2>1. f = e
    BY <1>3
  <2>2. /\ r.edge.type = "carried_by"
        /\ e.from = r.edge.from /\ e.to # r.edge.to
    BY <1>2, <1>6, <2>1 DEF Rivals, Opposed, Support, Conflict
  <2>3. r.edge \in OwnerEdges
    <3>1. r.edge \in AllEdges
      BY <1>1, KindOfRow
    <3>2. QED
      BY <2>2, <3>1 DEF AllEdges, SocialEdges, OwnerEdges, TrackingEdges,
                        LocationEdges, Edges, Support, Conflict
  <2>4. r \in OtherOwners(e)
    BY <1>2, <2>2, <2>3, FoundRows DEF OtherOwners
  <2>5. QED
    BY <2>4
<1>7. Fits(rows, edges)
  <2>1. \A f \in edges: f.type # "located_in" /\ f \notin EdgesOf(Active(links))
    BY <1>2, <1>3
  <2> HIDE DEF rows, edges
  <2>2. QED
    BY <1>5, <1>6, <2>1, FitsNoPlace
<1> HIDE DEF rows, edges
<1>8. QED
  BY <1>1, <1>4, <1>7, QuietPatch DEF TypeOK, Statuses

LEMMA CloseLinkIsConsistent ==
    ASSUME IInv, NEW both \in BOOLEAN,
           NEW e \in SocialEdges \cup OwnerEdges, e \in SocialEdges \/ ~both,
           CloseLink(e, both)
    PROVE  IInv'
<1> DEFINE rows == Found(Both(e, both))
<1>1. InTx /\ Patch(rows, {}) /\ UNCHANGED <<quest, npc, ended>> /\ TypeOK
  BY DEF CloseLink, IInv
<1>2. \A f \in Both(e, both): f.type # "located_in"
  <2>1. CASE e \in SocialEdges
    BY <2>1, BothFacts DEF SocialEdges, Edges, Support, Conflict
  <2>2. CASE e \in OwnerEdges /\ ~both
    BY <2>2 DEF Both, OwnerEdges, Edges
  <2>3. QED
    BY <2>1, <2>2
<1>3. rows \in SUBSET Active(links) /\ \A r \in rows: r.edge.type # "located_in"
  BY <1>2 DEF Found
<1> HIDE DEF rows
<1>4. Fits(rows, {})
  BY <1>3, FitsNoPlace
<1>5. QED
  BY <1>1, <1>3, <1>4, QuietPatch DEF TypeOK, Statuses

LEMMA DeactivateNpcIsConsistent ==
    ASSUME IInv, NEW n \in Npcs, DeactivateNpc(n)
    PROVE  IInv'
<1>1. /\ InTx /\ Patch(TiesOf(n), {}) /\ UNCHANGED <<quest, ended>> /\ TypeOK
      /\ npc' = [npc EXCEPT ![n] = "inactive"]
  BY DEF DeactivateNpc, IInv
<1>2. TiesOf(n) \in SUBSET Active(links)
  BY FoundRows DEF TiesOf
<1>3. ASSUME NEW r \in TiesOf(n)
      PROVE  r.edge.type # "located_in" \/ r.edge.from # Player
  <2>1. r.edge \in AllEdges /\ n \in {r.edge.from, r.edge.to}
    BY FoundRows DEF TiesOf, Found
  <2>2. QED
    BY <2>1, EdgeEnds, ObjectsDiffer
<1>4. Fits(TiesOf(n), {})
  BY <1>3, FitsNoPlace
<1>5. /\ npc' \in [Npcs -> Statuses]
      /\ \A m \in Npcs: npc'[m] = "inactive" => npc[m] = "inactive" \/ m = n
  BY <1>1 DEF TypeOK, Statuses
<1>6. QED
  BY <1>1, <1>2, <1>4, <1>5, QuietPatch

LEMMA ReviveNpcIsConsistent ==
    ASSUME IInv, NEW n \in Npcs, ReviveNpc(n)
    PROVE  IInv'
<1>1. /\ InTx /\ Patch({}, {}) /\ UNCHANGED <<quest, ended>> /\ TypeOK
      /\ npc' = [npc EXCEPT ![n] = "active"]
  BY DEF ReviveNpc, IInv
<1>2. Fits({}, {})
  BY DEF Fits
<1>3. /\ npc' \in [Npcs -> Statuses]
      /\ \A m \in Npcs: npc'[m] = "inactive" => npc[m] = "inactive"
  BY <1>1 DEF TypeOK, Statuses
<1>4. QED
  BY <1>1, <1>2, <1>3, QuietPatch

LEMMA PlayerMoveIsConsistent ==
    ASSUME IInv, NEW z \in Zones, PlayerMove(z)
    PROVE  IInv'
<1>1. /\ InTx /\ Patch(LocationsOf(Player), {LocatedIn(z)}) /\ TypeOK
      /\ UNCHANGED <<quest, npc, ended>>
  BY DEF PlayerMove, IInv
<1>2. /\ LocationsOf(Player) \in SUBSET Active(links)
      /\ {LocatedIn(z)} \in SUBSET AllEdges
  BY <1>1, LocationsOfPlayer, LocatedInFacts
<1>3. Fits(LocationsOf(Player), {LocatedIn(z)})
  <2>1. ASSUME NEW r \in Active(links), Displaces(LocatedIn(z), r.edge)
        PROVE  r \in LocationsOf(Player)
    BY <1>1, <2>1, LocationsOfPlayer, LocatedInFacts, RivalsAreNotPlaces DEF Displaces
  <2>2. QED
    BY <2>1, LocatedInFacts DEF Fits
<1>4. QED
  BY <1>1, <1>2, <1>3, QuietPatch DEF TypeOK, Statuses

LEMMA EndQuestIsConsistent ==
    ASSUME IInv, NEW q \in Quests, EndQuest(q)
    PROVE  IInv'
<1>1. /\ InTx /\ Patch(TrackingOf(q), {}) /\ TypeOK /\ TxInv /\ BatchInv
      /\ quest' = [quest EXCEPT ![q] = "terminal"]
      /\ ended' = [ended EXCEPT ![q] = At] /\ npc' = npc
  BY DEF EndQuest, IInv
<1>2. At \in Turns /\ At \in Int
  BY <1>1, AtFacts
<1>3. TrackingOf(q) \in SUBSET Active(links)
  BY FoundRows DEF TrackingOf
<1>4. \A r \in TrackingOf(q): r.edge.type # "located_in"
  BY DEF TrackingOf, Found, TrackingEdges, Edges
<1>5. Fits(TrackingOf(q), {})
  BY <1>4, FitsNoPlace
<1>6. /\ quest' \in [Quests -> {"open", "terminal"}]
      /\ ended' \in [Quests -> Turns] /\ \A p \in Quests: ended'[p] <= At
      /\ npc' \in [Npcs -> Statuses]
  BY <1>1, <1>2 DEF TypeOK, Statuses, BatchInv, QuestInv
<1>7. QuestsAreOver(Kept \ TrackingOf(q), quest', ended')
  <2> SUFFICES ASSUME NEW r \in Kept, r \notin TrackingOf(q), NEW p \in Quests,
                      quest'[p] = "terminal", r.edge.to = p
               PROVE  r.made >= ended'[p]
    BY DEF QuestsAreOver
  <2>1. r \in Active(links) /\ r.edge \in AllEdges
    BY <1>1, KindOfRow DEF Kept
  <2>2. p # q
    BY <2>1, EdgesToQuests, FoundRows DEF TrackingOf
  <2>3. quest[p] = "terminal" /\ ended'[p] = ended[p]
    BY <1>1, <2>2 DEF TypeOK
  <2>4. QED
    BY <1>1, <2>3 DEF BatchInv, QuestInv, QuestsAreOver
<1>8. QED
  BY <1>1, <1>3, <1>5, <1>6, <1>7, PatchFacts, PatchStep

LEMMA TrackQuestIsConsistent ==
    ASSUME IInv, NEW e \in TrackingEdges, TrackQuest(e)
    PROVE  IInv'
<1> DEFINE new == {e} \ EdgesOf(Active(links))
<1>1. /\ InTx /\ TypeOK /\ BatchInv /\ tx \in Transactions(links) /\ tx.ops < MaxOps
      /\ tx' = [tx EXCEPT !.ops = @ + 1, !.fresh = @ \cup new,
                          !.doomed = @ \/ new \cap tx.fresh # {},
                          !.proposed = @ \cup {e.to}]
      /\ ledger' = ledger \cup new
      /\ UNCHANGED <<turn, pending, links, saved, quest, npc, ended>>
  BY DEF TrackQuest, InTx, IInv, TypeOK
<1>2. e.type = "tracking_quest" /\ e \in AllEdges /\ e.to \in Quests
  BY DEF TrackingEdges, AllEdges, Edges
<1>3. new \in SUBSET AllEdges /\ {} \in SUBSET Active(links)
  BY <1>2
<1>4. Fits({}, new)
  BY <1>2, FitsNoPlace DEF Rivals, Opposed, Support, Conflict
<1> HIDE DEF new
<1>5. /\ tx'.kind = tx.kind /\ tx'.ops = tx.ops + 1
      /\ tx'.dirty = tx.dirty /\ tx'.fresh = tx.fresh \cup new
      /\ tx' \in Transactions(links)
  <2>1. /\ tx.ops + 1 \in 0..MaxOps /\ tx.fresh \cup new \in SUBSET AllEdges
        /\ (tx.doomed \/ new \cap tx.fresh # {}) \in BOOLEAN
        /\ tx.proposed \cup {e.to} \in SUBSET Quests
    BY <1>1, <1>2, <1>3 DEF Transactions
  <2>2. QED
    BY <1>1, <2>1 DEF Transactions
<1>6. tx'.doomed = (tx.doomed \/ new \cap tx.fresh # {})
  BY <1>1 DEF Transactions
<1>7. Patched({}, new)
  <2>1. \A f \in new: ~PlayersPlace(f)
    BY <1>2 DEF PlayersPlace, new
  <2>2. ledger' = (ledger \ EdgesOf({})) \cup new
    BY <1>1 DEF EdgesOf
  <2>3. QED
    BY <1>1, <1>5, <1>6, <2>1, <2>2 DEF Patched
<1>8. QuestsAreOver(Kept \ {}, quest', ended')
  BY <1>1 DEF BatchInv, QuestInv, QuestsAreOver
<1>9. QED
  BY <1>1, <1>3, <1>4, <1>5, <1>7, <1>8, PatchStep
     DEF TypeOK, BatchInv, QuestInv, Statuses

LEMMA ReopenQuestIsConsistent ==
    ASSUME IInv, NEW q \in Quests, ReopenQuest(q)
    PROVE  IInv'
<1> DEFINE untracked == /\ saved.quest[q] = "terminal"
                        /\ \A r \in Active(saved.links): r.edge.to # q
<1>1. /\ InTx /\ TypeOK /\ BatchInv /\ tx \in Transactions(links) /\ tx.ops < MaxOps
      /\ quest' = [quest EXCEPT ![q] = "open"]
      /\ tx' = [tx EXCEPT !.ops = @ + 1,
                          !.owed = IF untracked THEN @ \cup {q} ELSE @]
      /\ UNCHANGED <<turn, pending, links, saved, npc, ledger, ended>>
  BY DEF ReopenQuest, InTx, IInv, TypeOK
<1> HIDE DEF untracked
<1>2. /\ tx'.kind = tx.kind /\ tx'.ops = tx.ops + 1
      /\ tx'.dirty = tx.dirty /\ tx'.fresh = tx.fresh
      /\ tx'.doomed = tx.doomed
      /\ tx' \in Transactions(links)
  <2>1. /\ tx.ops + 1 \in 0..MaxOps
        /\ (IF untracked THEN tx.owed \cup {q} ELSE tx.owed) \in SUBSET Quests
    BY <1>1 DEF Transactions
  <2>2. QED
    BY <1>1, <2>1 DEF Transactions
<1>3. Fits({}, {})
  BY DEF Fits
<1>4. Patched({}, {})
  BY <1>1, <1>2 DEF Patched, EdgesOf
<1>5. quest' \in [Quests -> {"open", "terminal"}]
  BY <1>1 DEF TypeOK
<1>6. QuestsAreOver(Kept \ {}, quest', ended')
  BY <1>1 DEF TypeOK, BatchInv, QuestInv, QuestsAreOver
<1>7. QED
  BY <1>1, <1>2, <1>3, <1>4, <1>5, <1>6, PatchStep
     DEF TypeOK, BatchInv, QuestInv, Statuses
-----------------------------------------------------------------------------
(* The theorems. *)

LEMMA NextIsConsistent == IInv /\ [Next]_vars => IInv'
<1> SUFFICES ASSUME IInv, [Next]_vars
             PROVE  IInv'
  OBVIOUS
<1>1. CASE Transaction
  BY <1>1, AllocateTurnIsConsistent, BeginIsConsistent, CommitIsConsistent,
     RollbackIsConsistent DEF Transaction
<1>2. CASE Operation
  <2>1. CASE CreateObject
    BY <2>1, CreateObjectIsConsistent
  <2>2. CASE \E e \in SocialEdges, both \in BOOLEAN: CreateLink(e, both)
    BY <2>2, CreateSocialLinkIsConsistent
  <2>3. CASE \E e \in OwnerEdges: CreateLink(e, FALSE)
    BY <2>3, CreateOwnerLinkIsConsistent
  <2>4. CASE \E e \in TrackingEdges: TrackQuest(e)
    BY <2>4, TrackQuestIsConsistent
  <2>5. CASE \E e \in SocialEdges, both \in BOOLEAN: CloseLink(e, both)
    BY <2>5, CloseLinkIsConsistent
  <2>6. CASE \E e \in OwnerEdges: CloseLink(e, FALSE)
    BY <2>6, CloseLinkIsConsistent
  <2>7. CASE \E q \in Quests: EndQuest(q)
    BY <2>7, EndQuestIsConsistent
  <2>8. CASE \E q \in Quests: ReopenQuest(q)
    BY <2>8, ReopenQuestIsConsistent
  <2>9. CASE \E n \in Npcs: DeactivateNpc(n)
    BY <2>9, DeactivateNpcIsConsistent
  <2>10. CASE \E n \in Npcs: ReviveNpc(n)
    BY <2>10, ReviveNpcIsConsistent
  <2>11. CASE \E z \in Zones: PlayerMove(z)
    BY <2>11, PlayerMoveIsConsistent
  <2>12. QED
    BY <1>2, <2>1, <2>2, <2>3, <2>4, <2>5, <2>6, <2>7, <2>8, <2>9, <2>10, <2>11
       DEF Operation
<1>3. CASE Movement
  BY <1>3, TravelIsConsistent, MovePlayerIsConsistent, PostLinkIsConsistent
     DEF Movement
<1>4. CASE UNCHANGED vars
  <2>1. UNCHANGED <<turn, pending, links, quest, npc, ledger, ended, saved, tx>>
    BY <1>4 DEF vars, world
  <2>2. TypeOK' /\ TxInv' /\ SavedInv' /\ GoneInv' /\ At' = At /\ Kept' = Kept
    BY <2>1 DEF IInv, TypeOK, TxInv, SavedInv, GoneInv, World, At, Kept
  <2>3. BatchInv'
    BY <2>1, <2>2 DEF IInv, BatchInv, QuestInv, FreshInv, LedgerInv
  <2>4. QED
    BY <2>2, <2>3 DEF IInv
<1>5. QED
  BY <1>1, <1>2, <1>3, <1>4 DEF Next

LEMMA AlwaysConsistent == Spec => []IInv
  BY InitIsConsistent, NextIsConsistent, PTL DEF Spec

\* The tables hold rows of the right kinds, and no link ends before it begins:
\* the check constraint ck_links_valid_turn_window never aborts a turn.
THEOREM TypeCorrect == Spec => []TypeOK
<1>1. IInv => TypeOK
  BY DEF IInv
<1>2. QED
  BY <1>1, AlwaysConsistent, PTL

\* Between transactions the player is in exactly one zone, whatever the mix of
\* travel, player.move operations, flushes, rollbacks and moves of its own.
THEOREM PlacesCorrect == Spec => []PlayerIsSomewhere
<1>1. IInv => PlayerIsSomewhere
  <2> SUFFICES ASSUME IInv, Idle
               PROVE  \E z \in Zones: EdgesOf(LocationsOf(Player)) = {LocatedIn(z)}
    BY DEF PlayerIsSomewhere
  <2>1. TypeOK /\ TableOK(links, turn)
    BY IdleFacts DEF IInv, Idle
  <2>2. PICK r \in Active(links): PlayersPlace(r.edge)
    BY <2>1 DEF TableOK, PlayerIsPlaced
  <2>3. \A s \in LocationsOf(Player): s \in Active(links) /\ s = r
    BY <2>1, <2>2, LocationsOfPlayer DEF TableOK, OneLocation, PlayersPlace
  <2>4. LocationsOf(Player) = {r}
    BY <2>1, <2>2, <2>3, LocationsOfPlayer
  <2>5. r.edge.to \in Zones /\ r.edge = LocatedIn(r.edge.to)
    <3>1. r.edge \in AllEdges
      BY <2>1, KindOfRow
    <3>2. r.edge \in LocationEdges
      BY <2>2, <3>1 DEF AllEdges, SocialEdges, OwnerEdges, TrackingEdges,
                        LocationEdges, Edges, Support, Conflict, PlayersPlace
    <3>3. QED
      BY <2>2, <3>2 DEF LocationEdges, Edges, LocatedIn, PlayersPlace
  <2>6. QED
    BY <2>4, <2>5 DEF EdgesOf
<1>2. QED
  BY <1>1, AlwaysConsistent, PTL

\* Links that exclude each other were made by one turn, or the later by a client.
LEMMA RivalsMayCoexist ==
    ASSUME TypeOK, RivalsAreLater(links),
           NEW r \in Active(links), NEW s \in Active(links), Rivals(r.edge, s.edge)
    PROVE  MayCoexist(r, s)
<1>1. /\ r.made \in Nat /\ s.made \in Nat
      /\ r.by \in {"turn", "client"} /\ s.by \in {"turn", "client"}
  BY KindOfRow, RowParts
<1>2. /\ r.by = "turn" => r.made <= s.made
      /\ s.by = "turn" => s.made <= r.made
  BY RivalsAreMutual DEF RivalsAreLater
<1>3. QED
  BY <1>1, <1>2 DEF MayCoexist

\* Between transactions no owner still has an item that a later turn of the
\* story handed over, and no link made before a quest ended still tracks it,
\* whether a turn wrote it or a client (create_link).
THEOREM HandoverCorrect == Spec => []NothingIsLeftOver
<1>1. IInv => NothingIsLeftOver
  <2> SUFFICES ASSUME IInv, Idle
               PROVE  NothingIsLeftOver
    BY DEF NothingIsLeftOver
  <2>1. /\ TypeOK /\ TableOK(links, turn)
        /\ QuestsAreOver(Active(links), quest, ended)
    BY IdleFacts DEF IInv, Idle
  <2>2. ASSUME NEW r \in Active(links), NEW s \in Active(links),
               r.edge.type = "carried_by", s.edge.type = "carried_by",
               r.edge.from = s.edge.from
        PROVE  MayCoexist(r, s)
    <3>1. CASE r.edge.to # s.edge.to
      BY <2>1, <2>2, <3>1, RivalsMayCoexist DEF TableOK, Rivals
    <3>2. CASE r.edge.to = s.edge.to
      <4>1. r.edge \in OwnerEdges /\ s.edge \in OwnerEdges
        BY <2>1, <2>2, KindOfRow
           DEF AllEdges, SocialEdges, OwnerEdges, TrackingEdges, LocationEdges,
               Edges, Support, Conflict
      <4>2. r.edge = s.edge
        BY <2>2, <3>2, <4>1 DEF OwnerEdges, Edges
      <4>3. QED
        BY <2>1, <2>2, <4>2, KindOfRow DEF TableOK, OneRowPerEdge, MayCoexist
    <3>3. QED
      BY <3>1, <3>2
  <2>3. ASSUME NEW r \in Active(links), NEW q \in Quests,
               quest[q] = "terminal", r.edge.to = q
        PROVE  r.made >= ended[q]
    BY <2>1, <2>3 DEF QuestsAreOver
  <2>4. QED
    BY <2>2, <2>3 DEF NothingIsLeftOver
<1>2. QED
  BY <1>1, AlwaysConsistent, PTL

\* Between transactions a friendship and a hostility between the same two, in
\* the same direction, were written by the same turn, or the later of them by a
\* client: what a turn of the story writes ends the opposite of before.
THEOREM FlipCorrect == Spec => []FlipIsClean
<1>1. IInv => FlipIsClean
  <2> SUFFICES ASSUME IInv, Idle
               PROVE  FlipIsClean
    BY DEF FlipIsClean
  <2>1. TypeOK /\ TableOK(links, turn)
    BY IdleFacts DEF IInv, Idle
  <2>2. ASSUME NEW r \in Active(links), NEW s \in Active(links),
               r.edge.type \in Support, s.edge.type \in Conflict,
               r.edge.from = s.edge.from, r.edge.to = s.edge.to
        PROVE  MayCoexist(r, s)
    BY <2>1, <2>2, RivalsMayCoexist DEF TableOK, Rivals, Opposed
  <2>3. QED
    BY <2>2 DEF FlipIsClean
<1>2. QED
  BY <1>1, AlwaysConsistent, PTL

\* Between transactions a replay of the applied_ops of all turns arrives at the
\* links that are active.
THEOREM LogCorrect == Spec => []LogReplays
<1>1. IInv => LogReplays
  BY IdleFacts DEF LogReplays, Idle
<1>2. QED
  BY <1>1, AlwaysConsistent, PTL

LEMMA GoneNpcStep ==
    ASSUME IInv, [Next]_vars, NEW n \in Npcs,
           saved.npc[n] # "inactive", saved'.npc[n] = "inactive",
           NEW r \in Active(saved.links), r \in saved'.links,
           n \in {r.edge.from, r.edge.to}
    PROVE  r.edge.type \in Preserved
<1>1. CASE Commit
  <2>1. /\ tx.kind # "none" /\ ~tx.doomed /\ links' = Flushed /\ npc' = npc
        /\ saved'.links = links' /\ saved'.npc = npc'
    BY <1>1 DEF Commit, Save
  <2>2. r \in Active(Flushed)
    BY <2>1 DEF Active
  <2>3. r \in Kept \cup Opened(tx.fresh, At)
    BY <2>1, <2>2, FlushedFacts DEF IInv
  <2>4. r \notin Opened(tx.fresh, At)
    <3> SUFFICES ASSUME r \in Opened(tx.fresh, At) PROVE FALSE
      OBVIOUS
    <3>1. At \in Turns /\ tx.fresh \in SUBSET AllEdges
      BY AtFacts DEF IInv, TypeOK, Transactions
    <3>2. r.made = At
      BY <3>1, NewRow DEF Opened
    <3>3. r.made < At
      BY <2>1, SavedRowsAreOlder DEF IInv
    <3>4. QED
      BY <3>1, <3>2, <3>3 DEF Turns
  <2>5. QED
    BY <2>1, <2>3, <2>4 DEF IInv, GoneInv, Kept, Active
<1>2. CASE UNCHANGED saved
  BY <1>2
<1>3. CASE tx.kind = "none" /\ saved' = World' /\ npc' = npc
  BY <1>3, IdleFacts DEF World
<1>4. CASE /\ tx.kind = "none" /\ saved' = World' /\ turn < MaxTurn
           /\ \E gone \in SUBSET Expirable: CleanUp(gone)
  <2>1. npc'[n] # "inactive" \/ npc'[n] = npc[n]
    BY <1>4, CleanedFacts
  <2>2. saved.npc = npc /\ saved'.npc = npc'
    BY <1>4, IdleFacts DEF World
  <2>3. QED
    BY <2>1, <2>2
<1>5. QED
  <2>1. CASE Transaction
    BY <2>1, <1>1, <1>2, <1>4
       DEF Transaction, AllocateTurn, BeginPlan, BeginGraphHealth, Rollback,
           Save, World
  <2>2. CASE Operation
    <3>1. UNCHANGED saved
      BY <2>2 DEF Operation, CreateObject, CreateLink, TrackQuest, CloseLink,
                  EndQuest, ReopenQuest, DeactivateNpc, ReviveNpc, PlayerMove, Patch
    <3>2. QED
      BY <1>2, <3>1
  <2>3. CASE Movement
    BY <2>3, <1>2, <1>3, <1>4
       DEF Movement, Travel, MovePlayer, PostLink, Save, World
  <2>4. CASE UNCHANGED vars
    BY <2>4, <1>2 DEF vars
  <2>5. QED
    BY <2>1, <2>2, <2>3, <2>4 DEF Next

\* The transaction that ends an NPC leaves none of the ties that it had before,
\* those apart that outlast death: however many operations of its batch came
\* before and after, and whatever was flushed between them.
THEOREM GoneCorrect == Spec => GoneNpcIsAlone
<1>1. IInv /\ [Next]_vars =>
         [\A n \in Npcs:
            saved.npc[n] # "inactive" /\ saved'.npc[n] = "inactive" =>
               \A r \in Active(saved.links) \cap saved'.links:
                   n \in {r.edge.from, r.edge.to} => r.edge.type \in Preserved]_vars
  BY GoneNpcStep
<1>2. QED
  BY <1>1, AlwaysConsistent, PTL DEF Spec, GoneNpcIsAlone

HIDE BoundsAssumption

-----------------------------------------------------------------------------
(***************************************************************************)
(* Sets of numbers, which pick the first turn and the newest snapshot.     *)
(***************************************************************************)
LEMMA HasGreatest ==
    ASSUME NEW n \in Nat, NEW T, T \subseteq 0..n, T # {}
    PROVE  \E x \in T : \A y \in T : y <= x
<1> DEFINE D == {n - x : x \in T}
<1>1. D \subseteq Nat /\ D # {}
  <2>1. PICK x \in T : TRUE
    OBVIOUS
  <2>2. n - x \in D
    BY <2>1
  <2>3. \A y \in T : n - y \in Nat
    OBVIOUS
  <2> QED
    BY <2>2, <2>3
<1>2. PICK u \in D : \A v \in D : u <= v
  <2> HIDE DEF D
  <2> QED
    BY <1>1, HasLeast
<1>3. PICK x \in T : u = n - x
  OBVIOUS
<1>4. ASSUME NEW y \in T PROVE y <= x
  <2>1. n - y \in D /\ x \in 0..n /\ y \in 0..n
    OBVIOUS
  <2>2. u <= n - y
    BY <1>2, <2>1
  <2> QED
    BY <1>3, <2>1, <2>2
<1> QED
  BY <1>4
-----------------------------------------------------------------------------
(***************************************************************************)
(* Claims and knowledge.                                                   *)
(***************************************************************************)
USE PlacesAssumption, BoundsAssumption


Hearing == [claim : Claims, type : K!Audience, actor : Npcs, from : Nat,
            active : BOOLEAN, made : Nat, by : {"turn", "client"}]
ClaimRow == [made : BOOLEAN, text : Texts \cup {K!None},
             location : Places \cup {K!None}]
PlaceRow == [zone : Places \cup {K!None}, last : Places, floor : 0..MaxDay]
Fresh == [claim : Claims, type : K!Audience, actor : Npcs]
Batch == [ops : 0..ClaimOps, fresh : SUBSET Fresh, closing : SUBSET Hearing,
          goes : [Npcs -> Places \cup {K!None, K!Keep}]]

\* A claim somebody has an audience link to has been made.
OnlyMadeIsHeard ==
    /\ \A l \in hearings : claim[l.claim].made
    /\ \A f \in batch.fresh : claim[f.claim].made

\* Between two turns nothing is pending, and every link is of an earlier turn.
NothingPendsBetweenTurns ==
    /\ batch.ops = 0 => batch = K!NoTx /\ \A l \in hearings : l.made < day
    /\ batch.ops # 0 => day <= MaxDay

\* The words in which one learnt a claim, unless its own batch changed them.
InWords(words, rows, changed, a, c) ==
    words[a][c] = rows[c].text \/ <<a, c>> \in changed

\* Whoever has a link, flushed or not, learnt the text as it stands.
ToldAsItStands ==
    /\ \A l \in hearings : InWords(told, claim, amended, l.actor, l.claim)
    /\ \A f \in batch.fresh : InWords(told, claim, amended, f.actor, f.claim)

\* A patch lets nobody hear a claim later than it is known to be uttered.
HeardAtFirst ==
    \A l, m \in hearings :
        l.claim = m.claim /\ l.type = "heard" /\ l.by = "turn" =>
            l.from <= m.from \/ m.made > l.made

\* What a patch lets one hear was uttered this turn, or is yet to be.
HearingNow ==
    \A f \in batch.fresh : f.type = "heard" =>
        \A l \in hearings : l.claim = f.claim => day <= l.from

\* The links that begin at the turn that writes them are those of turns.
WrittenByNow(l, at) ==
    l \in Hearing /\ l.made <= at /\ (l.by = "turn" => l.from = l.made)

KnowledgeInv ==
    /\ day \in 1..MaxDay + 1
    /\ claim \in [Claims -> ClaimRow]
    /\ place \in [Npcs -> PlaceRow]
    /\ \A l \in hearings : WrittenByNow(l, day)
    /\ batch \in Batch /\ batch.closing \subseteq hearings
    /\ told = [a \in Npcs |-> [c \in Claims |-> told[a][c]]]
    /\ OnlyMadeIsHeard
    /\ NothingPendsBetweenTurns
    /\ ToldAsItStands
    /\ HeardAtFirst
    /\ HearingNow

LEMMA InitKnowledge == ASSUME K!Init PROVE KnowledgeInv
<1>1. /\ day = 1 /\ claim = [c \in Claims |-> K!Unmade] /\ hearings = {}
      /\ batch = K!NoTx /\ told = [a \in Npcs |-> [c \in Claims |-> K!None]]
  BY DEF K!Init
<1>2. K!Unmade \in ClaimRow
  <2>1. FALSE \in BOOLEAN
    OBVIOUS
  <2> QED
    BY <2>1 DEF K!Unmade, ClaimRow
<1>3. K!NoTx \in Batch /\ K!NoTx.fresh = {} /\ K!NoTx.closing = {} /\ K!NoTx.ops = 0
  <2>1. [a \in Npcs |-> K!Keep] \in [Npcs -> Places \cup {K!None, K!Keep}]
    OBVIOUS
  <2>2. 0 \in 0..ClaimOps /\ {} \in SUBSET Fresh /\ {} \in SUBSET Hearing
    OBVIOUS
  <2> QED
    BY <2>1, <2>2 DEF K!NoTx, Batch
<1>4. place \in [Npcs -> PlaceRow]
  <2>1. \A a \in Npcs : place[a] \in PlaceRow
    <3>1. /\ place \in [Npcs -> {p \in [zone : Places, last : Places, floor : {0, MaxDay}] :
                                p.zone = p.last}]
      BY DEF K!Init
    <3> QED
      BY <3>1 DEF PlaceRow
  <2> QED
    BY <2>1 DEF K!Init
<1>5. day \in 1..MaxDay + 1
  BY <1>1
<1>6. claim \in [Claims -> ClaimRow]
  BY <1>1, <1>2
<1>7. told = [a \in Npcs |-> [c \in Claims |-> told[a][c]]]
  BY <1>1
<1> QED
  BY <1>1, <1>3, <1>4, <1>5, <1>6, <1>7 DEF KnowledgeInv, OnlyMadeIsHeard,
     NothingPendsBetweenTurns, ToldAsItStands, HeardAtFirst, HearingNow

LEMMA FirstTurnIsLeast ==
    ASSUME KnowledgeInv, NEW c \in Claims, day = K!FirstTurn(c),
           NEW l \in hearings, l.claim = c
    PROVE  day <= l.from
<1> DEFINE T == K!AudienceTurns(c)
<1>1. T \subseteq Nat /\ l.from \in T
  BY DEF KnowledgeInv, WrittenByNow, Hearing, K!AudienceTurns
<1>2. \E x \in T : \A y \in T : x <= y
  <2> HIDE DEF T
  <2> QED
    BY <1>1, HasLeast
<1>3. \A y \in T : K!FirstTurn(c) <= y
  BY <1>1, <1>2 DEF K!FirstTurn
<1> QED
  BY <1>1, <1>3

\* The links after a flush: the old ones, some of them closed, and the fresh.
Unheard(l) == [l EXCEPT !.active = FALSE]
Written(f) == K!NewLink(f.actor, f.claim, f.type)

LEMMA NewHearing ==
    ASSUME day \in Nat, NEW a \in Npcs, NEW c \in Claims, NEW type \in K!Audience
    PROVE  /\ WrittenByNow(K!NewLink(a, c, type), day)
           /\ K!NewLink(a, c, type).claim = c /\ K!NewLink(a, c, type).actor = a
           /\ K!NewLink(a, c, type).from = day /\ K!NewLink(a, c, type).made = day
           /\ K!NewLink(a, c, type).type = type
<1> DEFINE l == K!NewLink(a, c, type)
<1>1. l = [claim |-> c, type |-> type, actor |-> a, from |-> day, active |-> TRUE,
           made |-> day, by |-> "turn"]
  BY DEF K!NewLink
<1>2. TRUE \in BOOLEAN
  OBVIOUS
<1>3. l \in Hearing
  BY <1>1, <1>2 DEF Hearing
<1>4. /\ l.claim = c /\ l.actor = a /\ l.from = day /\ l.made = day /\ l.type = type
  BY <1>1
<1> QED
  BY <1>3, <1>4 DEF WrittenByNow

LEMMA FlushedHearings ==
    ASSUME KnowledgeInv, NEW l \in K!Flushed
    PROVE  /\ WrittenByNow(l, day)
           /\ \/ \E m \in hearings :
                    /\ l.claim = m.claim /\ l.type = m.type /\ l.actor = m.actor
                    /\ l.from = m.from /\ l.made = m.made /\ l.by = m.by
              \/ \E f \in batch.fresh :
                    /\ l.claim = f.claim /\ l.type = f.type /\ l.actor = f.actor
                    /\ l.from = day /\ l.made = day
<1>0. /\ batch.closing \subseteq hearings /\ batch.fresh \subseteq Fresh
      /\ \A m \in hearings : WrittenByNow(m, day)
      /\ day \in Nat
  BY DEF KnowledgeInv, Batch
<1>1. CASE l \in hearings
  BY <1>0, <1>1
<1>2. CASE \E m \in batch.closing : l = Unheard(m)
  <2>1. PICK m \in batch.closing : l = Unheard(m)
    BY <1>2
  <2>2. m \in Hearing /\ m \in hearings /\ WrittenByNow(m, day)
    BY <1>0, <2>1 DEF WrittenByNow
  <2>3. /\ l.claim = m.claim /\ l.type = m.type /\ l.actor = m.actor
        /\ l.from = m.from /\ l.made = m.made /\ l.by = m.by /\ l \in Hearing
    BY <2>1, <2>2 DEF Hearing, Unheard
  <2>4. WrittenByNow(l, day)
    BY <2>2, <2>3 DEF WrittenByNow
  <2> QED
    BY <2>2, <2>3, <2>4
<1>3. CASE \E f \in batch.fresh : l = Written(f)
  <2>1. PICK f \in batch.fresh : l = Written(f)
    BY <1>3
  <2>2. f.claim \in Claims /\ f.type \in K!Audience /\ f.actor \in Npcs
    BY <1>0, <2>1 DEF Fresh
  <2>3. /\ WrittenByNow(l, day) /\ l.claim = f.claim /\ l.type = f.type
        /\ l.actor = f.actor /\ l.from = day /\ l.made = day
    BY <1>0, <2>1, <2>2, NewHearing DEF Written
  <2> QED
    BY <2>1, <2>3
<1> QED
  BY <1>1, <1>2, <1>3 DEF K!Flushed, Unheard, Written

LEMMA PlacesAfterFlush ==
    ASSUME KnowledgeInv
    PROVE  K!PlaceFlushed \in [Npcs -> PlaceRow]
<1>1. ASSUME NEW a \in Npcs PROVE K!PlaceFlushed[a] \in PlaceRow
  <2>1. /\ place[a] \in PlaceRow
        /\ batch.goes[a] \in Places \cup {K!None, K!Keep}
    BY DEF KnowledgeInv, Batch
  <2>2. K!Keep # K!None
    BY DEF K!Keep, K!None
  <2>3. CASE batch.goes[a] = K!Keep
    BY <2>1, <2>3, <2>2 DEF K!PlaceFlushed
  <2>4. CASE batch.goes[a] = K!None
    <3>1. K!PlaceFlushed[a] = [place[a] EXCEPT !.zone = K!None]
      BY <2>4, <2>2 DEF K!PlaceFlushed
    <3> QED
      BY <2>1, <3>1 DEF PlaceRow
  <2>5. CASE batch.goes[a] \in Places
    <3>1. K!PlaceFlushed[a] =
            [place[a] EXCEPT !.zone = batch.goes[a], !.last = batch.goes[a]]
      BY <2>5 DEF K!PlaceFlushed
    <3> QED
      BY <2>1, <2>5, <3>1 DEF PlaceRow
  <2> QED
    BY <2>1, <2>3, <2>4, <2>5
<1> QED
  BY <1>1 DEF K!PlaceFlushed

\* What a flush leaves, whether or not it ends the turn.
LEMMA FlushStep ==
    ASSUME KnowledgeInv, NEW ops \in 0..ClaimOps, K!Flush(ops)
    PROVE  /\ place' \in [Npcs -> PlaceRow]
           /\ \A l \in hearings' : WrittenByNow(l, day) /\ claim[l.claim].made
           /\ batch' \in Batch /\ batch'.fresh = {} /\ batch'.closing = {}
           /\ batch'.ops = ops /\ (ops = 0 => batch' = K!NoTx)
           /\ \A l \in hearings' : InWords(told, claim, amended, l.actor, l.claim)
           /\ \A l, m \in hearings' :
                 l.claim = m.claim /\ l.type = "heard" /\ l.by = "turn" =>
                     l.from <= m.from \/ m.made > l.made
<1>0. /\ hearings' = K!Flushed /\ place' = K!PlaceFlushed
      /\ batch' = [K!NoTx EXCEPT !.ops = ops]
      /\ day \in Nat
  BY DEF K!Flush, KnowledgeInv
<1>1. /\ batch' \in Batch /\ batch'.fresh = {} /\ batch'.closing = {}
      /\ batch'.ops = ops /\ (ops = 0 => batch' = K!NoTx)
  <2> DEFINE g == [a \in Npcs |-> K!Keep]
  <2>1. g \in [Npcs -> Places \cup {K!None, K!Keep}]
    OBVIOUS
  <2>2. {} \in SUBSET Fresh /\ {} \in SUBSET Hearing
    OBVIOUS
  <2>3. /\ K!NoTx = [ops |-> 0, fresh |-> {}, closing |-> {}, goes |-> g]
        /\ batch' = [ops |-> ops, fresh |-> {}, closing |-> {}, goes |-> g]
    BY <1>0 DEF K!NoTx
  <2> HIDE DEF g
  <2>4. batch' \in Batch
    BY <2>1, <2>2, <2>3 DEF Batch
  <2>5. batch'.fresh = {} /\ batch'.closing = {} /\ batch'.ops = ops
    BY <2>3
  <2>6. ASSUME ops = 0 PROVE batch' = K!NoTx
    BY <2>3, <2>6
  <2> QED
    BY <2>4, <2>5, <2>6
<1>2. ASSUME NEW l \in hearings'
      PROVE  /\ WrittenByNow(l, day) /\ claim[l.claim].made
             /\ InWords(told, claim, amended, l.actor, l.claim)
  <2>1. WrittenByNow(l, day)
    BY <1>0, <1>2, FlushedHearings
  <2>2. CASE \E m \in hearings : l.claim = m.claim /\ l.actor = m.actor
    <3>1. PICK m \in hearings : l.claim = m.claim /\ l.actor = m.actor
      BY <2>2
    <3>2. claim[m.claim].made /\ InWords(told, claim, amended, m.actor, m.claim)
      BY DEF KnowledgeInv, OnlyMadeIsHeard, ToldAsItStands
    <3> QED
      BY <2>1, <3>1, <3>2
  <2>3. CASE \E f \in batch.fresh : l.claim = f.claim /\ l.actor = f.actor
    <3>1. PICK f \in batch.fresh : l.claim = f.claim /\ l.actor = f.actor
      BY <2>3
    <3>2. claim[f.claim].made /\ InWords(told, claim, amended, f.actor, f.claim)
      BY DEF KnowledgeInv, OnlyMadeIsHeard, ToldAsItStands
    <3> QED
      BY <2>1, <3>1, <3>2
  <2> QED
    BY <1>0, <1>2, <2>2, <2>3, FlushedHearings
<1>3. ASSUME NEW l \in hearings', NEW m \in hearings', l.claim = m.claim,
             l.type = "heard", l.by = "turn"
      PROVE  l.from <= m.from \/ m.made > l.made
  <2>0. /\ l.from \in Nat /\ m.from \in Nat /\ l.from <= day
        /\ l.made \in Nat /\ m.made \in Nat
    BY <1>2, <1>3 DEF Hearing, WrittenByNow
  <2>1. CASE m.from = day
    BY <2>0, <2>1
  <2>2. CASE \E o \in hearings : m.claim = o.claim /\ m.from = o.from /\ m.made = o.made
    <3>1. PICK o \in hearings : m.claim = o.claim /\ m.from = o.from /\ m.made = o.made
      BY <2>2
    <3>2. CASE \E n \in hearings :
                  /\ l.claim = n.claim /\ l.type = n.type
                  /\ l.from = n.from /\ l.made = n.made /\ l.by = n.by
      <4>1. PICK n \in hearings :
                  /\ l.claim = n.claim /\ l.type = n.type
                  /\ l.from = n.from /\ l.made = n.made /\ l.by = n.by
        BY <3>2
      <4>2. n.from <= o.from \/ o.made > n.made
        BY <1>3, <3>1, <4>1 DEF KnowledgeInv, HeardAtFirst
      <4> QED
        BY <3>1, <4>1, <4>2
    <3>3. CASE \E f \in batch.fresh : l.claim = f.claim /\ l.type = f.type /\ l.from = day
      <4>1. PICK f \in batch.fresh : l.claim = f.claim /\ l.type = f.type /\ l.from = day
        BY <3>3
      <4>2. f.type = "heard" /\ f.claim = o.claim
        BY <1>3, <3>1, <4>1
      <4>3. day <= o.from
        BY <4>2 DEF KnowledgeInv, HearingNow
      <4> QED
        BY <3>1, <4>1, <4>3
    <3> QED
      BY <1>0, <1>3, <3>2, <3>3, FlushedHearings
  <2> QED
    BY <1>0, <1>3, <2>1, <2>2, FlushedHearings
<1> QED
  BY <1>0, <1>1, <1>2, <1>3, PlacesAfterFlush

LEMMA CreateObjectStep ==
    ASSUME KnowledgeInv, NEW c \in Claims, NEW text \in Texts,
           NEW zone \in Places \cup {K!None}, K!CreateClaimObject(c, text, zone)
    PROVE  KnowledgeInv'
<1> DEFINE row == [made |-> TRUE, text |-> text, location |-> zone]
           ops == batch.ops + 1
<1>1. /\ claim' = [claim EXCEPT ![c] = row]
      /\ K!Flush(ops) /\ UNCHANGED <<day, told, amended>> /\ ~claim[c].made
      /\ batch.ops < ClaimOps /\ day <= MaxDay
  BY DEF K!CreateClaimObject, K!MoreOps
<1>2. ops \in 0..ClaimOps /\ ops # 0 /\ day \in Nat
  <2>1. batch.ops \in 0..ClaimOps
    BY DEF KnowledgeInv, Batch
  <2> QED
    BY <1>1, <2>1 DEF KnowledgeInv
<1>3. row \in ClaimRow /\ row.made
  <2>1. TRUE \in BOOLEAN
    OBVIOUS
  <2> QED
    BY <2>1 DEF ClaimRow
<1> HIDE DEF row, ops
<1>4. /\ claim' \in [Claims -> ClaimRow]
      /\ claim'[c] = row /\ \A d \in Claims : d # c => claim'[d] = claim[d]
  BY <1>1, <1>3 DEF KnowledgeInv
<1>5. \A l \in hearings' : claim[l.claim].made /\ l.claim \in Claims
  BY <1>1, <1>2, FlushStep DEF Hearing, WrittenByNow
<1>6. \A l \in hearings' : l.claim # c /\ claim'[l.claim] = claim[l.claim]
  BY <1>1, <1>4, <1>5
<1>7. OnlyMadeIsHeard'
  BY <1>1, <1>2, <1>5, <1>6, FlushStep DEF OnlyMadeIsHeard
<1>8. NothingPendsBetweenTurns'
  BY <1>1, <1>2, FlushStep DEF NothingPendsBetweenTurns
<1>9. ToldAsItStands'
  BY <1>1, <1>2, <1>6, FlushStep DEF ToldAsItStands, InWords
<1>10. HeardAtFirst' /\ HearingNow'
  BY <1>1, <1>2, FlushStep DEF HeardAtFirst, HearingNow
<1>11. /\ day' \in 1..MaxDay + 1
       /\ told' = [a \in Npcs |-> [d \in Claims |-> told'[a][d]]]
       /\ \A l \in hearings' : WrittenByNow(l, day')
  BY <1>1, <1>2, FlushStep DEF KnowledgeInv
<1>12. /\ place' \in [Npcs -> PlaceRow]
       /\ batch' \in Batch /\ batch'.closing \subseteq hearings'
  BY <1>1, <1>2, FlushStep
<1> QED
  BY <1>4, <1>7, <1>8, <1>9, <1>10, <1>11, <1>12 DEF KnowledgeInv

LEMMA CommitStep ==
    ASSUME KnowledgeInv, K!CommitTurn PROVE KnowledgeInv'
<1>0. /\ K!Flush(0) /\ day' = day + 1 /\ UNCHANGED <<claim, told, amended>>
      /\ 0 \in 0..ClaimOps /\ day \in Nat /\ day' \in 1..MaxDay + 1
  <2>1. /\ K!Flush(0) /\ day' = day + 1 /\ UNCHANGED <<claim, told, amended>>
        /\ batch.ops > 0
    BY DEF K!CommitTurn
  <2>2. day <= MaxDay
    BY <2>1 DEF KnowledgeInv, NothingPendsBetweenTurns
  <2> QED
    BY <2>1, <2>2 DEF KnowledgeInv
<1>1. ASSUME NEW l \in hearings'
      PROVE  l.made < day' /\ WrittenByNow(l, day')
  <2>1. WrittenByNow(l, day)
    BY <1>0, FlushStep
  <2> QED
    BY <1>0, <2>1 DEF WrittenByNow, Hearing
<1>2. OnlyMadeIsHeard' /\ HeardAtFirst' /\ HearingNow'
  BY <1>0, FlushStep DEF OnlyMadeIsHeard, HeardAtFirst, HearingNow
<1>3. ToldAsItStands'
  BY <1>0, FlushStep DEF ToldAsItStands, InWords
<1>4. NothingPendsBetweenTurns'
  BY <1>0, <1>1, FlushStep DEF NothingPendsBetweenTurns
<1>5. /\ place' \in [Npcs -> PlaceRow]
      /\ batch' \in Batch /\ batch'.closing \subseteq hearings'
      /\ claim' \in [Claims -> ClaimRow]
      /\ told' = [a \in Npcs |-> [d \in Claims |-> told'[a][d]]]
  BY <1>0, FlushStep DEF KnowledgeInv
<1> QED
  BY <1>0, <1>1, <1>2, <1>3, <1>4, <1>5 DEF KnowledgeInv

\* Whoever learns a claim, the table of what was told stays whole.
LEMMA ToldStaysWhole ==
    ASSUME KnowledgeInv, NEW a \in Npcs, NEW c \in Claims, NEW text,
           told' = [told EXCEPT ![a][c] = text]
    PROVE  told' = [b \in Npcs |-> [d \in Claims |-> told'[b][d]]]
<1>1. told = [b \in Npcs |-> [d \in Claims |-> told[b][d]]]
  BY DEF KnowledgeInv
<1>2. ASSUME NEW b \in Npcs PROVE told'[b] = [d \in Claims |-> told'[b][d]]
  <2>1. told[b] = [d \in Claims |-> told[b][d]]
    BY <1>1
  <2>2. told'[b] = IF b = a THEN [told[b] EXCEPT ![c] = text] ELSE told[b]
    BY <1>1
  <2> QED
    BY <2>1, <2>2
<1>3. told' = [b \in Npcs |-> told'[b]]
  BY <1>1
<1> QED
  BY <1>2, <1>3

\* create_claim: a claim nobody had made is told to all who have a link to it.
LEMMA CreateClaimStep ==
    ASSUME KnowledgeInv, NEW c \in Claims, NEW text \in Texts,
           NEW zone \in Places \cup {K!None}, NEW speaker \in Npcs,
           NEW listeners \in SUBSET Npcs,
           K!CreateClaim(c, text, speaker, listeners, zone)
    PROVE  KnowledgeInv'
<1> DEFINE place0 == IF zone = K!None THEN K!InferActorZone(speaker) ELSE zone
           row == [made |-> TRUE, text |-> text, location |-> place0]
           uttered == K!NewLink(speaker, c, "asserted")
           heard == {K!NewLink(a, c, "heard") : a \in listeners}
           told0 == [a \in Npcs |->
                       IF a \in listeners \cup {speaker} THEN [told[a] EXCEPT ![c] = text]
                       ELSE told[a]]
<1>0. /\ day <= MaxDay /\ batch.ops = 0 /\ ~claim[c].made
      /\ claim' = [claim EXCEPT ![c] = row]
      /\ hearings' = hearings \cup {uttered} \cup heard
      /\ told' = told0 /\ day' = day + 1 /\ UNCHANGED <<place, batch, amended>>
  BY DEF K!CreateClaim
<1>1. day \in Nat /\ day' \in 1..MaxDay + 1 /\ day' \in Nat
  BY <1>0 DEF KnowledgeInv
<1>2. row \in ClaimRow /\ row.made /\ row.text = text
  <2>1. TRUE \in BOOLEAN
    OBVIOUS
  <2>2. place0 \in Places \cup {K!None}
    BY DEF K!InferActorZone, KnowledgeInv, PlaceRow
  <2> HIDE DEF place0
  <2> QED
    BY <2>1, <2>2 DEF ClaimRow
<1> HIDE DEF place0, row
<1>3. /\ claim' \in [Claims -> ClaimRow] /\ claim'[c] = row
      /\ \A d \in Claims : d # c => claim'[d] = claim[d]
  BY <1>0, <1>2 DEF KnowledgeInv
<1>4. \A l \in hearings : /\ WrittenByNow(l, day) /\ l.claim # c /\ l.made < day
                          /\ claim'[l.claim] = claim[l.claim]
  BY <1>0, <1>3 DEF KnowledgeInv, OnlyMadeIsHeard, NothingPendsBetweenTurns, Hearing,
                    WrittenByNow
<1>5. ASSUME NEW l \in {uttered} \cup heard
      PROVE  /\ WrittenByNow(l, day) /\ l.claim = c /\ l.from = day /\ l.made = day
             /\ l.actor \in listeners \cup {speaker}
  <2>1. "asserted" \in K!Audience /\ "heard" \in K!Audience
    BY DEF K!Audience
  <2>2. CASE l = uttered
    BY <1>1, <2>1, <2>2, NewHearing
  <2>3. ASSUME NEW a \in listeners, l = K!NewLink(a, c, "heard")
        PROVE  /\ WrittenByNow(l, day) /\ l.claim = c /\ l.from = day /\ l.made = day
               /\ l.actor \in listeners \cup {speaker}
    BY <1>1, <2>1, <2>3, NewHearing
  <2> QED
    BY <1>5, <2>2, <2>3
<1> HIDE DEF uttered, heard
<1>6. ASSUME NEW a \in Npcs, NEW d \in Claims
      PROVE  told'[a][d] = IF a \in listeners \cup {speaker} /\ d = c THEN text
                           ELSE told[a][d]
  <2>1. told[a] = [e \in Claims |-> told[a][e]]
    BY DEF KnowledgeInv
  <2>2. told'[a] = IF a \in listeners \cup {speaker} THEN [told[a] EXCEPT ![c] = text]
                   ELSE told[a]
    BY <1>0
  <2> QED
    BY <2>1, <2>2
<1>7. told' = [a \in Npcs |-> [d \in Claims |-> told'[a][d]]]
  <2>1. ASSUME NEW a \in Npcs PROVE told'[a] = [d \in Claims |-> told'[a][d]]
    <3>1. told[a] = [e \in Claims |-> told[a][e]]
      BY DEF KnowledgeInv
    <3>2. told'[a] = IF a \in listeners \cup {speaker} THEN [told[a] EXCEPT ![c] = text]
                     ELSE told[a]
      BY <1>0
    <3> QED
      BY <3>1, <3>2
  <2>2. told' = [a \in Npcs |-> told'[a]]
    BY <1>0
  <2> QED
    BY <2>1, <2>2
<1> HIDE DEF told0
<1>8. ASSUME NEW l \in hearings'
      PROVE  /\ WrittenByNow(l, day') /\ l.made < day'
             /\ claim'[l.claim].made
             /\ InWords(told', claim', amended', l.actor, l.claim)
  <2>1. CASE l \in hearings
    <3>1. /\ l \in Hearing /\ l.actor \in Npcs /\ l.claim \in Claims
          /\ WrittenByNow(l, day) /\ l.made \in Nat
      BY <1>4, <2>1 DEF Hearing, WrittenByNow
    <3>2. claim[l.claim].made /\ InWords(told, claim, amended, l.actor, l.claim)
      BY <1>4, <2>1 DEF KnowledgeInv, OnlyMadeIsHeard, ToldAsItStands
    <3>3. told'[l.actor][l.claim] = told[l.actor][l.claim]
          /\ claim'[l.claim] = claim[l.claim]
      BY <1>4, <1>6, <2>1, <3>1
    <3>4. InWords(told', claim', amended', l.actor, l.claim) /\ claim'[l.claim].made
      BY <1>0, <3>2, <3>3 DEF InWords
    <3>5. WrittenByNow(l, day') /\ l.made < day'
      BY <1>0, <1>1, <3>1 DEF WrittenByNow
    <3> QED
      BY <3>4, <3>5
  <2>2. CASE l \in {uttered} \cup heard
    <3>1. /\ l.actor \in Npcs /\ l.actor \in listeners \cup {speaker}
          /\ l.claim = c /\ WrittenByNow(l, day) /\ l.made = day
      BY <1>5, <2>2 DEF Hearing, WrittenByNow
    <3>2. told'[l.actor][l.claim] = text /\ claim'[l.claim].text = text
          /\ claim'[l.claim].made
      BY <1>2, <1>3, <1>6, <3>1
    <3>3. WrittenByNow(l, day') /\ l.made < day'
      BY <1>0, <1>1, <3>1 DEF WrittenByNow
    <3> QED
      BY <3>2, <3>3 DEF InWords
  <2> QED
    BY <1>0, <2>1, <2>2
<1>9. ASSUME NEW l \in hearings', NEW m \in hearings', l.claim = m.claim,
             l.type = "heard", l.by = "turn"
      PROVE  l.from <= m.from \/ m.made > l.made
  <2>1. CASE l \in hearings
    <3>1. m \in hearings
      BY <1>0, <1>4, <1>5, <1>9, <2>1
    <3> QED
      BY <1>9, <2>1, <3>1 DEF KnowledgeInv, HeardAtFirst
  <2>2. CASE l \in {uttered} \cup heard
    <3>1. m \in {uttered} \cup heard
      BY <1>0, <1>4, <1>5, <1>9, <2>2
    <3>2. l.from = m.from /\ l.from \in Nat
      BY <1>1, <1>5, <2>2, <3>1
    <3> QED
      BY <3>2
  <2> QED
    BY <1>0, <2>1, <2>2
<1>10. /\ batch' = K!NoTx /\ batch'.ops = 0 /\ batch'.fresh = {} /\ batch'.closing = {}
       /\ batch' \in Batch
  BY <1>0 DEF KnowledgeInv, NothingPendsBetweenTurns, K!NoTx
<1>11. OnlyMadeIsHeard' /\ NothingPendsBetweenTurns' /\ ToldAsItStands'
       /\ HeardAtFirst' /\ HearingNow'
  BY <1>8, <1>9, <1>10 DEF OnlyMadeIsHeard, NothingPendsBetweenTurns, ToldAsItStands,
     HeardAtFirst, HearingNow
<1>12. /\ place' \in [Npcs -> PlaceRow]
       /\ batch'.closing \subseteq hearings' /\ \A l \in hearings' : WrittenByNow(l, day')
  BY <1>0, <1>8, <1>10 DEF KnowledgeInv
<1> QED
  BY <1>1, <1>3, <1>7, <1>10, <1>11, <1>12 DEF KnowledgeInv

\* create_link: a client's link, whatever the turn it begins in.
LEMMA PostHearingStep ==
    ASSUME KnowledgeInv, NEW a \in Npcs, NEW c \in Claims, NEW type \in K!Audience,
           NEW from \in {w.since : w \in Windows}, NEW active \in BOOLEAN,
           K!PostHearing(a, c, type, from, active)
    PROVE  KnowledgeInv'
<1> DEFINE new == [claim |-> c, type |-> type, actor |-> a, from |-> from,
                   active |-> active, made |-> day, by |-> "client"]
<1>0. /\ day <= MaxDay /\ batch.ops = 0 /\ claim[c].made
      /\ hearings' = hearings \cup {new}
      /\ told' = [told EXCEPT ![a][c] = claim[c].text]
      /\ amended' = amended \ {<<a, c>>}
      /\ day' = day + 1 /\ UNCHANGED <<claim, place, batch>>
  BY DEF K!PostHearing, K!Learns
<1>1. day \in Nat /\ day' \in 1..MaxDay + 1 /\ day' \in Nat /\ from \in Nat
  <2>1. \A w \in Windows : w.since \in Nat
    OBVIOUS
  <2> QED
    BY <1>0, <2>1 DEF KnowledgeInv
<1>2. /\ new \in Hearing /\ new.claim = c /\ new.actor = a /\ new.by = "client"
      /\ new.made = day
  BY <1>1 DEF Hearing
<1> HIDE DEF new
<1>3. ASSUME NEW b \in Npcs, NEW d \in Claims
      PROVE  told'[b][d] = IF b = a /\ d = c THEN claim[c].text ELSE told[b][d]
  <2>1. told[b] = [e \in Claims |-> told[b][e]] /\ told = [e \in Npcs |-> told[e]]
    BY DEF KnowledgeInv
  <2>2. told'[b] = IF b = a THEN [told[b] EXCEPT ![c] = claim[c].text] ELSE told[b]
    BY <1>0, <2>1
  <2> QED
    BY <2>1, <2>2
<1>4. told' = [b \in Npcs |-> [d \in Claims |-> told'[b][d]]]
  BY <1>0, ToldStaysWhole
<1>5. ASSUME NEW l \in hearings'
      PROVE  /\ WrittenByNow(l, day') /\ l.made < day' /\ claim'[l.claim].made
             /\ InWords(told', claim', amended', l.actor, l.claim)
  <2>1. CASE l = new
    <3>1. InWords(told', claim', amended', a, c)
      BY <1>0, <1>3 DEF InWords
    <3> QED
      BY <1>0, <1>1, <1>2, <2>1, <3>1 DEF WrittenByNow
  <2>2. CASE l \in hearings
    <3>1. /\ WrittenByNow(l, day) /\ l.made < day /\ l.made \in Nat
          /\ l.actor \in Npcs /\ l.claim \in Claims /\ claim[l.claim].made
          /\ InWords(told, claim, amended, l.actor, l.claim)
      BY <1>0, <2>2 DEF KnowledgeInv, NothingPendsBetweenTurns, OnlyMadeIsHeard,
                        ToldAsItStands, WrittenByNow, Hearing
    <3>2. WrittenByNow(l, day') /\ l.made < day'
      BY <1>0, <1>1, <3>1 DEF WrittenByNow
    <3>3. CASE l.actor = a /\ l.claim = c
      <4>1. told'[l.actor][l.claim] = claim'[l.claim].text
        BY <1>0, <1>3, <3>1, <3>3
      <4> QED
        BY <1>0, <3>1, <3>2, <4>1 DEF InWords
    <3>4. CASE ~(l.actor = a /\ l.claim = c)
      <4>1. told'[l.actor][l.claim] = told[l.actor][l.claim]
        BY <1>3, <3>1, <3>4
      <4>2. <<l.actor, l.claim>> # <<a, c>>
        BY <3>4
      <4> QED
        BY <1>0, <3>1, <3>2, <4>1, <4>2 DEF InWords
    <3> QED
      BY <3>3, <3>4
  <2> QED
    BY <1>0, <2>1, <2>2
<1>6. ASSUME NEW l \in hearings', NEW m \in hearings', l.claim = m.claim,
             l.type = "heard", l.by = "turn"
      PROVE  l.from <= m.from \/ m.made > l.made
  <2>1. l \in hearings
    BY <1>0, <1>2, <1>6
  <2>2. CASE m = new
    BY <1>0, <1>2, <2>1, <2>2 DEF KnowledgeInv, NothingPendsBetweenTurns
  <2>3. CASE m \in hearings
    BY <1>6, <2>1, <2>3 DEF KnowledgeInv, HeardAtFirst
  <2> QED
    BY <1>0, <2>2, <2>3
<1>7. /\ batch' = K!NoTx /\ batch'.ops = 0 /\ batch'.fresh = {} /\ batch'.closing = {}
      /\ batch' \in Batch
  BY <1>0 DEF KnowledgeInv, NothingPendsBetweenTurns, K!NoTx
<1>8. OnlyMadeIsHeard' /\ NothingPendsBetweenTurns' /\ ToldAsItStands'
      /\ HeardAtFirst' /\ HearingNow'
  BY <1>5, <1>6, <1>7 DEF OnlyMadeIsHeard, NothingPendsBetweenTurns, ToldAsItStands,
     HeardAtFirst, HearingNow
<1>9. /\ place' \in [Npcs -> PlaceRow] /\ claim' \in [Claims -> ClaimRow]
      /\ batch'.closing \subseteq hearings' /\ \A l \in hearings' : WrittenByNow(l, day')
  BY <1>0, <1>5, <1>7 DEF KnowledgeInv
<1> QED
  BY <1>1, <1>4, <1>7, <1>8, <1>9 DEF KnowledgeInv

\* An operation that writes nothing to the links yet.
LEMMA PatchedClaims ==
    ASSUME KnowledgeInv,
           UNCHANGED <<day, hearings>>, K!MoreOps,
           NEW patched, K!Patches(patched), patched \in Batch, patched.ops = batch.ops,
           patched.closing \subseteq hearings,
           claim' \in [Claims -> ClaimRow], place' \in [Npcs -> PlaceRow],
           told' = [a \in Npcs |-> [c \in Claims |-> told'[a][c]]],
           \A l \in hearings : /\ claim'[l.claim].made
                               /\ InWords(told', claim', amended', l.actor, l.claim),
           \A f \in patched.fresh :
               /\ claim'[f.claim].made
               /\ InWords(told', claim', amended', f.actor, f.claim)
               /\ f.type = "heard" => \A l \in hearings : l.claim = f.claim => day <= l.from
    PROVE  KnowledgeInv'
<1>1. batch.ops \in 0..ClaimOps /\ day <= MaxDay /\ batch.ops < ClaimOps
  BY DEF KnowledgeInv, Batch, K!MoreOps
<1>2. /\ batch' = [patched EXCEPT !.ops = @ + 1]
  BY DEF K!Patches
<1>3. /\ batch' \in Batch /\ batch'.ops = patched.ops + 1 /\ batch'.ops # 0
      /\ batch'.fresh = patched.fresh /\ batch'.closing = patched.closing
  BY <1>1, <1>2 DEF Batch
<1>4. OnlyMadeIsHeard' /\ ToldAsItStands'
  BY <1>3 DEF OnlyMadeIsHeard, ToldAsItStands
<1>5. NothingPendsBetweenTurns'
  BY <1>1, <1>3 DEF NothingPendsBetweenTurns
<1>6. HeardAtFirst' /\ HearingNow'
  BY <1>3 DEF HeardAtFirst, HearingNow, KnowledgeInv
<1> QED
  BY <1>3, <1>4, <1>5, <1>6 DEF KnowledgeInv

LEMMA ZonesOfSpeakersType ==
    ASSUME KnowledgeInv, NEW c \in Claims
    PROVE  K!ZonesOfSpeakers(c) \subseteq Places \cup {K!None}
<1>1. ASSUME NEW l \in hearings PROVE K!InferActorZone(l.actor) \in Places \cup {K!None}
  <2>1. l.actor \in Npcs
    BY DEF KnowledgeInv, Hearing, WrittenByNow
  <2>2. place[l.actor] \in PlaceRow
    BY <2>1 DEF KnowledgeInv
  <2> QED
    BY <2>2 DEF K!InferActorZone, PlaceRow
<1>2. K!Speakers(c) \subseteq hearings
  BY DEF K!Speakers, K!Active
<1> QED
  BY <1>1, <1>2 DEF K!ZonesOfSpeakers

LEMMA UpdateClaimStep ==
    ASSUME KnowledgeInv, NEW c \in Claims,
           NEW text \in Texts \cup {K!Keep, K!None},
           NEW zone \in Places \cup {K!Keep, K!None},
           K!UpdateClaimObject(c, text, zone)
    PROVE  KnowledgeInv'
<1> DEFINE patched == IF zone = K!Keep THEN claim[c].location ELSE zone
           choices == IF patched = K!None THEN K!ZonesOfSpeakers(c) ELSE {patched}
<1>1. /\ K!MoreOps /\ claim[c].made /\ K!Patches(batch)
      /\ UNCHANGED <<day, place, hearings, told>>
      /\ amended' = IF claim'[c].text = claim[c].text THEN amended
                    ELSE amended \cup {<<f.actor, c>> : f \in {g \in batch.fresh : g.claim = c}}
  BY DEF K!UpdateClaimObject
<1>2. PICK found \in choices :
         claim' = [claim EXCEPT ![c] = [@ EXCEPT !.text = K!PatchedText(c, text),
                                                !.location = found]]
  BY DEF K!UpdateClaimObject
<1>3. claim[c] \in ClaimRow
  BY DEF KnowledgeInv
<1>4. found \in Places \cup {K!None}
  BY <1>3, ZonesOfSpeakersType DEF ClaimRow
<1>5. K!PatchedText(c, text) \in Texts \cup {K!None}
  BY <1>3 DEF K!PatchedText, ClaimRow
<1> DEFINE row == [claim[c] EXCEPT !.text = K!PatchedText(c, text), !.location = found]
<1>6. row \in ClaimRow /\ row.made /\ row.text = K!PatchedText(c, text)
  <2> DEFINE old == claim[c]
             new == K!PatchedText(c, text)
  <2>1. old \in ClaimRow /\ old.made /\ new \in Texts \cup {K!None}
    BY <1>1, <1>3, <1>5
  <2> HIDE DEF old, new
  <2>2. LET r == [old EXCEPT !.text = new, !.location = found]
        IN  r \in ClaimRow /\ r.made /\ r.text = new
    BY <1>4, <2>1 DEF ClaimRow
  <2> QED
    BY <2>2 DEF old, new
<1>7. claim' = [claim EXCEPT ![c] = row]
  BY <1>2
<1> HIDE DEF row
<1>8. /\ claim' \in [Claims -> ClaimRow] /\ claim'[c] = row
      /\ \A d \in Claims : d # c => claim'[d] = claim[d]
  BY <1>6, <1>7 DEF KnowledgeInv
<1>9. amended \subseteq amended'
  BY <1>1
<1>10. ASSUME NEW l \in hearings
       PROVE  /\ claim'[l.claim].made
              /\ InWords(told', claim', amended', l.actor, l.claim)
  <2>1. /\ l.claim \in Claims /\ claim[l.claim].made
        /\ InWords(told, claim, amended, l.actor, l.claim)
    BY DEF KnowledgeInv, WrittenByNow, Hearing, OnlyMadeIsHeard, ToldAsItStands
  <2>2. claim'[l.claim].made /\ claim'[l.claim].text = claim[l.claim].text
    <3>1. CASE l.claim = c
      <4>1. K!HasAudience(c)
        BY <3>1 DEF K!HasAudience
      <4>2. K!PatchedText(c, text) = claim[c].text
        BY <4>1 DEF K!PatchedText
      <4> QED
        BY <1>6, <1>8, <3>1, <4>2
    <3> QED
      BY <1>8, <2>1, <3>1
  <2> QED
    BY <1>1, <1>9, <2>1, <2>2 DEF InWords
<1>11. ASSUME NEW f \in batch.fresh
       PROVE  /\ claim'[f.claim].made
              /\ InWords(told', claim', amended', f.actor, f.claim)
              /\ f.type = "heard" =>
                    \A l \in hearings : l.claim = f.claim => day <= l.from
  <2>1. /\ f.claim \in Claims /\ claim[f.claim].made
        /\ InWords(told, claim, amended, f.actor, f.claim)
    BY DEF KnowledgeInv, Batch, Fresh, OnlyMadeIsHeard, ToldAsItStands
  <2>2. claim'[f.claim].made
    BY <1>6, <1>8, <2>1
  <2>3. InWords(told', claim', amended', f.actor, f.claim)
    <3>1. CASE claim'[f.claim].text = claim[f.claim].text
      BY <1>1, <1>9, <2>1, <3>1 DEF InWords
    <3>2. CASE claim'[f.claim].text # claim[f.claim].text
      <4>1. f.claim = c
        BY <1>8, <2>1, <3>2
      <4>2. <<f.actor, f.claim>> \in amended'
        BY <1>1, <3>2, <4>1
      <4> QED
        BY <4>2 DEF InWords
    <3> QED
      BY <3>1, <3>2
  <2> QED
    BY <2>2, <2>3 DEF KnowledgeInv, HearingNow
<1>12. /\ batch \in Batch /\ batch.closing \subseteq hearings
       /\ place' \in [Npcs -> PlaceRow]
       /\ told' = [a \in Npcs |-> [d \in Claims |-> told'[a][d]]]
  BY <1>1 DEF KnowledgeInv
<1> HIDE DEF patched, choices
<1> QED
  BY <1>1, <1>8, <1>10, <1>11, <1>12, PatchedClaims

LEMMA AudienceStep ==
    ASSUME KnowledgeInv, NEW a \in Npcs, NEW c \in Claims,
           NEW type \in K!Audience, K!CreateAudienceLink(a, c, type)
    PROVE  KnowledgeInv'
<1> DEFINE new == [claim |-> c, type |-> type, actor |-> a]
           patched == [batch EXCEPT !.fresh = @ \cup {new}]
<1>1. /\ K!MoreOps /\ claim[c].made /\ K!Patches(patched)
      /\ UNCHANGED <<day, place, hearings>>
      /\ type = "heard" => day = K!FirstTurn(c)
      /\ told' = [told EXCEPT ![a][c] = claim[c].text]
      /\ amended' = amended \ {<<a, c>>}
  BY DEF K!CreateAudienceLink, K!MayHear, K!Learns
<1>2. claim' = claim \/ claim' = [claim EXCEPT ![c].location = K!InferActorZone(a)]
  BY DEF K!CreateAudienceLink
<1>3. new \in Fresh
  BY DEF Fresh
<1>4. /\ patched \in Batch /\ patched.ops = batch.ops /\ patched.closing = batch.closing
      /\ patched.fresh = batch.fresh \cup {new}
  <2>1. batch \in Batch
    BY DEF KnowledgeInv
  <2> HIDE DEF new
  <2> QED
    BY <1>3, <2>1 DEF Batch
<1>5. claim' \in [Claims -> ClaimRow]
      /\ \A d \in Claims : /\ claim'[d].made = claim[d].made
                           /\ claim'[d].text = claim[d].text
  <2>1. K!InferActorZone(a) \in Places \cup {K!None}
    <3>1. place[a] \in PlaceRow
      BY DEF KnowledgeInv
    <3> QED
      BY <3>1 DEF K!InferActorZone, PlaceRow
  <2>2. CASE claim' = claim
    BY <2>2 DEF KnowledgeInv
  <2>3. CASE claim' = [claim EXCEPT ![c].location = K!InferActorZone(a)]
    <3> DEFINE z == K!InferActorZone(a)
    <3>1. claim[c] \in ClaimRow
      BY DEF KnowledgeInv
    <3>2. [claim[c] EXCEPT !.location = z] \in ClaimRow
      BY <2>1, <3>1 DEF ClaimRow
    <3> HIDE DEF z
    <3>3. /\ [claim[c] EXCEPT !.location = z].made = claim[c].made
          /\ [claim[c] EXCEPT !.location = z].text = claim[c].text
      BY <3>1 DEF ClaimRow
    <3>4. claim' = [claim EXCEPT ![c] = [claim[c] EXCEPT !.location = z]]
      BY <2>3 DEF z
    <3> QED
      BY <3>2, <3>3, <3>4 DEF KnowledgeInv
  <2> QED
    BY <1>2, <2>2, <2>3
<1>6. ASSUME NEW b \in Npcs, NEW d \in Claims,
             InWords(told, claim, amended, b, d) \/ (b = a /\ d = c)
      PROVE  InWords(told', claim', amended', b, d)
  <2>1. told = [e \in Npcs |-> [x \in Claims |-> told[e][x]]]
    BY DEF KnowledgeInv
  <2>2. told'[b][d] = IF b = a /\ d = c THEN claim[c].text ELSE told[b][d]
    <3>1. told'[b] = IF b = a THEN [told[b] EXCEPT ![c] = claim[c].text] ELSE told[b]
      BY <1>1, <2>1
    <3>2. told[b] = [x \in Claims |-> told[b][x]]
      BY <2>1
    <3> QED
      BY <3>1, <3>2
  <2>3. claim'[d].text = claim[d].text
    BY <1>5
  <2>4. CASE b = a /\ d = c
    BY <2>2, <2>3, <2>4 DEF InWords
  <2>5. CASE ~(b = a /\ d = c)
    <3>1. <<b, d>> # <<a, c>>
      BY <2>5
    <3> QED
      BY <1>1, <1>6, <2>2, <2>3, <2>5, <3>1 DEF InWords
  <2> QED
    BY <2>4, <2>5
<1>7. ASSUME NEW l \in hearings
      PROVE  claim'[l.claim].made /\ InWords(told', claim', amended', l.actor, l.claim)
  <2>1. /\ l.actor \in Npcs /\ l.claim \in Claims /\ claim[l.claim].made
        /\ InWords(told, claim, amended, l.actor, l.claim)
    BY DEF KnowledgeInv, WrittenByNow, Hearing, OnlyMadeIsHeard, ToldAsItStands
  <2> QED
    BY <1>5, <1>6, <2>1
<1>8. ASSUME NEW f \in patched.fresh
      PROVE  /\ claim'[f.claim].made
             /\ InWords(told', claim', amended', f.actor, f.claim)
             /\ f.type = "heard" =>
                    \A l \in hearings : l.claim = f.claim => day <= l.from
  <2>1. CASE f \in batch.fresh
    <3>1. /\ f.actor \in Npcs /\ f.claim \in Claims /\ claim[f.claim].made
          /\ InWords(told, claim, amended, f.actor, f.claim)
      BY <2>1 DEF KnowledgeInv, Batch, Fresh, OnlyMadeIsHeard, ToldAsItStands
    <3>2. f.type = "heard" => \A l \in hearings : l.claim = f.claim => day <= l.from
      BY <2>1 DEF KnowledgeInv, HearingNow
    <3> QED
      BY <1>5, <1>6, <3>1, <3>2
  <2>2. CASE f = new
    <3>1. f.claim = c /\ f.type = type /\ f.actor = a
      BY <2>2
    <3>2. InWords(told', claim', amended', a, c) /\ claim'[c].made
      BY <1>1, <1>5, <1>6
    <3> QED
      BY <1>1, <3>1, <3>2, FirstTurnIsLeast
  <2> HIDE DEF new
  <2> QED
    BY <1>4, <2>1, <2>2
<1>9. /\ patched.closing \subseteq hearings /\ place' \in [Npcs -> PlaceRow]
      /\ told' = [b \in Npcs |-> [d \in Claims |-> told'[b][d]]]
  BY <1>1, <1>4, ToldStaysWhole DEF KnowledgeInv
<1> HIDE DEF patched
<1> QED
  BY <1>1, <1>4, <1>5, <1>7, <1>8, <1>9, PatchedClaims

\* Operations that leave the claims and the new links as they are.
LEMMA OtherStep ==
    ASSUME KnowledgeInv,
           UNCHANGED <<day, claim, hearings, told, amended>>, K!MoreOps,
           NEW patched, K!Patches(patched), patched \in Batch, patched.ops = batch.ops,
           patched.fresh = batch.fresh, patched.closing \subseteq hearings,
           place' \in [Npcs -> PlaceRow]
    PROVE  KnowledgeInv'
<1>1. /\ claim' \in [Claims -> ClaimRow]
      /\ told' = [a \in Npcs |-> [c \in Claims |-> told'[a][c]]]
  BY DEF KnowledgeInv
<1>2. \A l \in hearings : /\ claim'[l.claim].made
                          /\ InWords(told', claim', amended', l.actor, l.claim)
  BY DEF KnowledgeInv, OnlyMadeIsHeard, ToldAsItStands
<1>3. \A f \in patched.fresh :
         /\ claim'[f.claim].made
         /\ InWords(told', claim', amended', f.actor, f.claim)
         /\ f.type = "heard" => \A l \in hearings : l.claim = f.claim => day <= l.from
  BY DEF KnowledgeInv, OnlyMadeIsHeard, HearingNow, ToldAsItStands
<1> QED
  BY <1>1, <1>2, <1>3, PatchedClaims

LEMMA CloseStep ==
    ASSUME KnowledgeInv, NEW l \in hearings,
           K!CloseAudienceLink(l)
    PROVE  KnowledgeInv'
<1> DEFINE patched == [batch EXCEPT !.closing = @ \cup {l}]
<1>1. /\ K!MoreOps /\ K!Patches(patched) /\ UNCHANGED <<day, claim, place, hearings, told, amended>>
  BY DEF K!CloseAudienceLink
<1>2. batch \in Batch /\ l \in Hearing /\ batch.closing \subseteq hearings
      /\ place' \in [Npcs -> PlaceRow]
  BY <1>1 DEF KnowledgeInv, WrittenByNow
<1>3. /\ patched \in Batch /\ patched.ops = batch.ops /\ patched.fresh = batch.fresh
      /\ patched.closing = batch.closing \cup {l}
  BY <1>2 DEF Batch
<1> HIDE DEF patched
<1> QED
  BY <1>1, <1>2, <1>3, OtherStep

LEMMA MoveStep ==
    ASSUME KnowledgeInv, NEW a \in Npcs,
           NEW zone \in Places \cup {K!None},
           K!MoveActor(a, zone) \/ (zone \in Places /\ K!BringBack(a, zone))
    PROVE  KnowledgeInv'
<1> DEFINE patched == [batch EXCEPT !.goes[a] = zone]
<1>1. /\ K!MoreOps /\ K!Patches(patched) /\ UNCHANGED <<day, claim, hearings, told, amended>>
  BY DEF K!MoveActor, K!BringBack
<1>2. batch \in Batch /\ batch.closing \subseteq hearings
  BY DEF KnowledgeInv
<1>3. /\ patched \in Batch /\ patched.ops = batch.ops /\ patched.fresh = batch.fresh
      /\ patched.closing = batch.closing
  <2> DEFINE g == [batch.goes EXCEPT ![a] = zone]
  <2>1. g \in [Npcs -> Places \cup {K!None, K!Keep}]
    BY <1>2 DEF Batch
  <2>2. patched = [batch EXCEPT !.goes = g]
    OBVIOUS
  <2> HIDE DEF g, patched
  <2> QED
    BY <1>2, <2>1, <2>2 DEF Batch
<1>4. place' \in [Npcs -> PlaceRow]
  <2>1. CASE place' = place
    BY <2>1 DEF KnowledgeInv
  <2>2. CASE place' = [place EXCEPT ![a].floor = day]
    <3>1. place[a] \in PlaceRow /\ day \in 0..MaxDay
      BY <1>1 DEF KnowledgeInv, K!MoreOps
    <3>2. [place[a] EXCEPT !.floor = day] \in PlaceRow
      BY <3>1 DEF PlaceRow
    <3>3. place' = [place EXCEPT ![a] = [place[a] EXCEPT !.floor = day]]
      BY <2>2
    <3> QED
      BY <3>2, <3>3 DEF KnowledgeInv
  <2> QED
    BY <2>1, <2>2 DEF K!MoveActor, K!BringBack
<1> HIDE DEF patched
<1> QED
  BY <1>1, <1>2, <1>3, <1>4, OtherStep

LEMMA KnowledgeStep ==
    ASSUME KnowledgeInv, [K!Next]_(K!vars) PROVE KnowledgeInv'
<1>1. CASE UNCHANGED K!vars
  BY <1>1 DEF K!vars, KnowledgeInv, OnlyMadeIsHeard, NothingPendsBetweenTurns,
     ToldAsItStands, HeardAtFirst, HearingNow
<1>2. CASE \E a \in Npcs, zone \in Places : K!MoveActor(a, zone) \/ K!BringBack(a, zone)
  BY <1>2, MoveStep
<1>3. CASE \E a \in Npcs : K!MoveActor(a, K!None)
  BY <1>3, MoveStep
<1>4. CASE \E c \in Claims, text \in Texts, zone \in Places \cup {K!None} :
          \/ K!CreateClaimObject(c, text, zone)
          \/ \E speaker \in Npcs, listeners \in SUBSET Npcs :
                K!CreateClaim(c, text, speaker, listeners, zone)
  BY <1>4, CreateObjectStep, CreateClaimStep
<1>5. CASE \E a \in Npcs, c \in Claims, type \in K!Audience,
             from \in {w.since : w \in Windows}, active \in BOOLEAN :
             K!PostHearing(a, c, type, from, active)
  BY <1>5, PostHearingStep
<1> QED
  BY <1>1, <1>2, <1>3, <1>4, <1>5, CommitStep, UpdateClaimStep, AudienceStep, CloseStep
  DEF K!Next

LEMMA KnowledgeTypes == ASSUME KnowledgeInv PROVE K!TypeOK
<1>1. batch.ops \in 0..ClaimOps
  BY DEF KnowledgeInv, Batch
<1>2. \A l \in hearings : l.type \in K!Audience /\ claim[l.claim].made
  BY DEF KnowledgeInv, Hearing, OnlyMadeIsHeard, WrittenByNow
<1> QED
  BY <1>1, <1>2 DEF K!TypeOK, KnowledgeInv, ClaimRow, PlaceRow

LEMMA WhatIsHeard == ASSUME KnowledgeInv PROVE K!KnowledgeIsHeard
<1> SUFFICES ASSUME batch = K!NoTx
             PROVE  /\ \A a \in Npcs, c \in K!Made :
                          c \in K!KnownTo(a) => told[a][c] = claim[c].text
                                                  \/ <<a, c>> \in amended
                    /\ \A l, m \in hearings :
                          l.claim = m.claim /\ l.type = "heard" /\ l.by = "turn" =>
                              l.from <= m.from \/ m.made > l.made
                    /\ \A zone \in Places, shown \in SUBSET Claims :
                          K!ZoneClaims(zone, shown) =>
                            \A c \in shown \ K!InZone(zone) :
                              claim[c].text # K!None =>
                                \E a \in K!ActiveZoneActors(zone) : c \in K!KnownTo(a)
  BY DEF K!KnowledgeIsHeard
<1>2. ASSUME NEW a \in Npcs, NEW c \in K!Made, c \in K!KnownTo(a)
      PROVE  told[a][c] = claim[c].text \/ <<a, c>> \in amended
  <2>1. PICK l \in K!KnowledgeLinks(a) : l.claim = c
    BY <1>2 DEF K!KnownTo
  <2>2. l \in hearings /\ l.actor = a
    BY <2>1 DEF K!KnowledgeLinks, K!Active
  <2> QED
    BY <2>1, <2>2 DEF KnowledgeInv, ToldAsItStands, InWords
<1>3. ASSUME NEW zone \in Places, NEW shown \in SUBSET Claims,
             K!ZoneClaims(zone, shown), NEW c \in shown \ K!InZone(zone),
             claim[c].text # K!None
      PROVE  \E a \in K!ActiveZoneActors(zone) : c \in K!KnownTo(a)
  <2>1. c \in K!Heeded(zone)
    BY <1>3 DEF K!ZoneClaims
  <2>2. PICK a \in K!AudienceOf(c) \cap K!ActiveZoneActors(zone) : TRUE
    BY <2>1 DEF K!Heeded
  <2>3. PICK l \in K!Active : l.claim = c /\ l.actor = a
    BY <2>2 DEF K!AudienceOf
  <2>4. l.type \in K!Audience
    BY <2>3 DEF K!Active, KnowledgeInv, Hearing, WrittenByNow
  <2>5. l \in K!KnowledgeLinks(a)
    BY <2>3, <2>4 DEF K!KnowledgeLinks
  <2> QED
    BY <1>3, <2>2, <2>3, <2>5 DEF K!KnownTo
<1>4. \A l, m \in hearings :
         l.claim = m.claim /\ l.type = "heard" /\ l.by = "turn" =>
             l.from <= m.from \/ m.made > l.made
  BY DEF KnowledgeInv, HeardAtFirst
<1> QED
  BY <1>2, <1>3, <1>4

\* Whatever is said, heard, closed, moved and reworded, with any number of
\* claims, actors and zones, and whatever links a client writes beside: between
\* two turns an actor knows a claim in the words it learnt it in, unless that
\* very batch changed them; nobody has heard it from a patch later than the
\* links written by then say; and a claim without a place is shown only where
\* somebody present knows of it
\* (_claim_has_audience_links, _validate_claim_audience_link_create,
\* _build_zone_npc_knowledge, _list_zone_recent_claims).
THEOREM KnowledgeCorrect == K!Spec => []KnowledgeIsHeard
<1>1. K!Init => KnowledgeInv
  BY InitKnowledge
<1>2. KnowledgeInv /\ [K!Next]_(K!vars) => KnowledgeInv'
  BY KnowledgeStep
<1>3. KnowledgeInv => KnowledgeIsHeard
  BY KnowledgeTypes, WhatIsHeard DEF KnowledgeIsHeard
<1> QED
  BY <1>1, <1>2, <1>3, PTL DEF K!Spec
HIDE PlacesAssumption
-----------------------------------------------------------------------------
(***************************************************************************)
(* What the narrator is told of the graph.  The graph has what every       *)
(* table of links keeps; a story also needs what becomes of the rows that  *)
(* were closed, here and in the table a rollback goes back to.             *)
(***************************************************************************)
USE LookbackAssumption

\* A turn that the player has not left, or left later than the turn before it.
Outlasts(s, at) == s.until = Open \/ s.until > at

\* The player left no place but for another one; a client may say otherwise.
PlacesFollow(table) ==
    \A r \in table: r.until # Open /\ PlayersPlace(r.edge) /\ r.by = "turn" =>
        \E s \in table: PlayersPlace(s.edge) /\ s.by = "turn"
                       /\ s.since = r.until /\ Outlasts(s, r.until)

\* The places of the player that are not over are a turn's.
PlacesAreTold(table) ==
    \A r \in Active(table): PlayersPlace(r.edge) => r.by = "turn"

\* The links that begin at the turn that writes them end at one, too.
EndedBy(table, at) ==
    \A r \in table: r.until # Open /\ r.by = "turn" => r.until <= at

TableFollows(table, at) ==
    PlacesFollow(table) /\ PlacesAreTold(table) /\ EndedBy(table, at)

\* A row is still there, or has been closed.
RowsRemain(old, new, at) ==
    \A r \in old: r \in new \/ (r.until = Open /\ Closed(r, at) \in new)

NarratorInv ==
    /\ TableFollows(links, At) /\ TableFollows(saved.links, turn)
    /\ RowsRemain(saved.links, links, At)

LEMMA RewrittenFollows ==
    ASSUME NEW at \in Turns, NEW before \in Int, before <= at,
           NEW table, TableOK(table, before), TableFollows(table, before),
           NEW rows \in SUBSET Active(table), NEW edges \in SUBSET AllEdges,
           \A r \in rows: PlayersPlace(r.edge) => \E f \in edges: PlayersPlace(f)
    PROVE  /\ TableFollows(Rewritten(table, rows, edges, at), at)
           /\ RowsRemain(table, Rewritten(table, rows, edges, at), at)
<1> DEFINE new == Rewritten(table, rows, edges, at)
<1>1. \A r \in table: /\ r \in Rows /\ r.edge \in AllEdges
                      /\ r.since \in Nat /\ r.made \in Nat
                      /\ r.until \in Turns \cup {Open}
  BY RowParts DEF TableOK, RowsOK, Turns
<1>2. ASSUME NEW r \in rows
      PROVE  /\ r \in table /\ r.until = Open
             /\ Closed(r, at) \in new
             /\ Closed(r, at).edge = r.edge /\ Closed(r, at).since = r.since
             /\ Closed(r, at).by = r.by
             /\ r.by = "turn" => Closed(r, at).until = at
  <2>1. r \in Active(table) /\ r \in table /\ r.until = Open
    BY DEF Active
  <2>2. Closed(r, at) \in new
    BY DEF Rewritten, ClosedAll
  <2>3. /\ Closed(r, at).edge = r.edge /\ Closed(r, at).since = r.since
        /\ Closed(r, at).by = r.by
    BY <1>1, <2>1 DEF Closed, Rows
  <2>4. r.by = "turn" => r.since <= at
    BY <1>1, <2>1 DEF TableOK, MadeBy, Turns
  <2>5. r.by = "turn" => Closed(r, at).until = at
    BY <1>1, <2>1, <2>4 DEF Closed, Rows, Turns
  <2>6. QED
    BY <2>1, <2>2, <2>3, <2>5
<1>3. ASSUME NEW r \in new
      PROVE  \/ r \in table /\ r \notin rows
             \/ \E q \in rows: r = Closed(q, at)
             \/ r.until = Open
  BY NewRow DEF Rewritten, ClosedAll, Opened
<1>4. \A f \in edges: /\ Row(f, at, Open) \in new /\ Row(f, at, Open).edge = f
                      /\ Row(f, at, Open).since = at /\ Row(f, at, Open).until = Open
                      /\ Row(f, at, Open).by = "turn"
  BY NewRow DEF Rewritten, Opened
<1>5. \A r \in table: r \in rows \/ r \in new
  BY DEF Rewritten
<1>6. PlacesAreTold(new)
  <2>1. Active(new) = (Active(table) \ rows) \cup Opened(edges, at)
    BY RewrittenRows DEF TableOK
  <2>2. QED
    BY <2>1, NewRow DEF PlacesAreTold, TableFollows, Opened
<1> HIDE DEF new
<1>7. PlacesFollow(new)
  <2> SUFFICES ASSUME NEW r \in new, r.until # Open, PlayersPlace(r.edge), r.by = "turn"
               PROVE  \E s \in new: PlayersPlace(s.edge) /\ s.by = "turn"
                                    /\ s.since = r.until /\ Outlasts(s, r.until)
    BY DEF PlacesFollow
  <2>1. ASSUME r.until = at, NEW q \in rows, PlayersPlace(q.edge)
        PROVE  \E s \in new: PlayersPlace(s.edge) /\ s.by = "turn"
                             /\ s.since = r.until /\ Outlasts(s, r.until)
    BY <1>4, <2>1 DEF Outlasts
  <2>2. CASE r \in table /\ r \notin rows
    <3>1. PICK s \in table: /\ PlayersPlace(s.edge) /\ s.by = "turn"
                            /\ s.since = r.until /\ Outlasts(s, r.until)
      BY <2>2 DEF TableFollows, PlacesFollow
    <3>2. CASE s \notin rows
      BY <1>5, <3>1, <3>2
    <3>3. CASE s \in rows
      <4>1. /\ Closed(s, at) \in new /\ PlayersPlace(Closed(s, at).edge)
            /\ Closed(s, at).by = "turn"
            /\ Closed(s, at).since = r.until /\ Closed(s, at).until = at
        BY <1>2, <3>1, <3>3
      <4>2. r.until <= at
        <5>1. r.until \in Int /\ r.until <= before
          BY <1>1, <2>2 DEF TableFollows, EndedBy, Turns
        <5>2. QED
          BY <5>1 DEF Turns
      <4>3. CASE r.until = at
        BY <2>1, <3>1, <3>3, <4>3
      <4>4. CASE r.until # at
        <5>1. Outlasts(Closed(s, at), r.until)
          BY <1>1, <2>2, <4>1, <4>2, <4>4 DEF Outlasts, Turns
        <5>2. QED
          BY <4>1, <5>1
      <4>5. QED
        BY <4>3, <4>4
    <3>4. QED
      BY <3>2, <3>3
  <2>3. ASSUME NEW q \in rows, r = Closed(q, at)
        PROVE  \E s \in new: PlayersPlace(s.edge) /\ s.by = "turn"
                             /\ s.since = r.until /\ Outlasts(s, r.until)
    BY <1>2, <2>1, <2>3
  <2>4. QED
    BY <1>3, <2>2, <2>3
<1>8. EndedBy(new, at)
  <2> SUFFICES ASSUME NEW r \in new, r.until # Open, r.by = "turn"
               PROVE  r.until <= at
    BY DEF EndedBy
  <2>1. CASE r \in table /\ r \notin rows
    <3>1. r.until <= before /\ r.until \in Turns
      BY <1>1, <2>1 DEF TableFollows, EndedBy
    <3>2. QED
      BY <3>1 DEF Turns
  <2>2. ASSUME NEW q \in rows, r = Closed(q, at)
        PROVE  r.until <= at
    BY <1>2, <2>2 DEF Turns
  <2>3. QED
    BY <1>3, <2>1, <2>2
<1>9. RowsRemain(table, new, at)
  BY <1>2, <1>5 DEF RowsRemain
<1>10. QED
  BY <1>6, <1>7, <1>8, <1>9 DEF TableFollows, new

LEMMA FollowsLater ==
    ASSUME NEW table, RowsOK(table), NEW at \in Int, NEW later \in Int,
           at <= later, TableFollows(table, at)
    PROVE  TableFollows(table, later)
<1>1. \A r \in table: r.until \in Int
  BY RowParts DEF RowsOK, Turns, Open
<1>2. QED
  BY <1>1 DEF TableFollows, EndedBy

\* Of two rewritings at one turn a row survives, or is closed by one of them.
LEMMA RemainTwice ==
    ASSUME NEW old, NEW mid, NEW new, NEW at \in Turns, RowsOK(old),
           RowsRemain(old, mid, at), RowsRemain(mid, new, at)
    PROVE  RowsRemain(old, new, at)
<1>1. \A r \in old: Closed(r, at).until # Open
  BY ClosedRow DEF RowsOK
<1>2. QED
  BY <1>1 DEF RowsRemain

LEMMA RemainItself == ASSUME NEW table, NEW at PROVE RowsRemain(table, table, at)
  BY DEF RowsRemain

LEMMA InitFollows == ASSUME Init PROVE NarratorInv
<1>1. PICK z \in Zones: links = {Row(LocatedIn(z), 0, Open)}
  BY DEF Init
<1>2. Row(LocatedIn(z), 0, Open).until = Open /\ Row(LocatedIn(z), 0, Open).by = "turn"
  BY NewRow, LocatedInFacts DEF Turns
<1>3. \A at: TableFollows(links, at)
  BY <1>1, <1>2 DEF TableFollows, PlacesFollow, PlacesAreTold, EndedBy, Active
<1>4. saved.links = links
  BY DEF Init
<1>5. QED
  BY <1>3, <1>4, RemainItself DEF NarratorInv

\* Inside a transaction the table is rewritten at its turn, or left alone.
LEMMA InsideFollows ==
    ASSUME IInv, NarratorInv, tx.kind # "none",
           UNCHANGED <<turn, pending, saved>>, tx'.kind = tx.kind,
           NEW rows \in SUBSET Active(links), NEW edges \in SUBSET AllEdges,
           \A r \in rows: PlayersPlace(r.edge) => \E f \in edges: PlayersPlace(f),
           links' = links \/ links' = Rewritten(links, rows, edges, At)
    PROVE  NarratorInv'
<1>1. At' = At /\ At \in Turns /\ At \in Int
  BY AtFacts DEF IInv, At
<1>2. TableOK(links, At) /\ TableFollows(links, At) /\ RowsOK(saved.links)
  BY DEF IInv, BatchInv, NarratorInv, SavedInv, TableOK
<1>3. TableFollows(links', At) /\ RowsRemain(links, links', At)
  BY <1>1, <1>2, RewrittenFollows, RemainItself
<1>4. RowsRemain(saved.links, links', At)
  BY <1>1, <1>2, <1>3, RemainTwice DEF NarratorInv
<1>5. QED
  BY <1>1, <1>3, <1>4 DEF NarratorInv

\* A turn that is over has left its table behind.
LEMMA DoneFollows ==
    ASSUME IInv', tx'.kind = "none", TableFollows(links', turn')
    PROVE  NarratorInv'
<1>1. At' = turn' /\ saved'.links = links'
  BY DEF IInv, TxInv, World, At
<1>2. QED
  BY <1>1, RemainItself DEF NarratorInv

LEMMA CleanedFollows ==
    ASSUME IInv, NarratorInv, tx.kind = "none", turn < MaxTurn,
           NEW gone \in SUBSET Expirable
    PROVE  /\ TableFollows(Cleaned(gone), turn + 1)
           /\ \A r \in Active(links): ~(\E n \in Npcs: r.edge.from = n) => r \in Active(Cleaned(gone))
<1> DEFINE left == UNION {LocationsOf(n): n \in gone}
<1>1. TypeOK /\ TableOK(links, turn) /\ TableFollows(links, turn)
  BY IdleFacts DEF IInv, NarratorInv
<1>2. turn \in Int /\ turn + 1 \in Turns
  BY <1>1 DEF TypeOK, Turns
<1>3. \A r \in left: /\ r \in Active(links) /\ ~PlayersPlace(r.edge)
                     /\ \E n \in Npcs: r.edge.from = n
  <2> SUFFICES ASSUME NEW n \in gone, NEW r \in LocationsOf(n)
               PROVE  /\ r \in Active(links) /\ ~PlayersPlace(r.edge)
                      /\ \E m \in Npcs: r.edge.from = m
    OBVIOUS
  <2>1. n \in Npcs
    BY DEF Expirable
  <2>2. r \in Active(links) /\ r.edge.from = n
    BY <1>1, LocationsFound
  <2>3. QED
    BY <2>1, <2>2, ObjectsDiffer DEF PlayersPlace
<1> HIDE DEF left
<1>4. Cleaned(gone) = Rewritten(links, left, {}, turn + 1)
  BY DEF Cleaned, left
<1>5. left \in SUBSET Active(links) /\ {} \in SUBSET AllEdges
  BY <1>3
<1>6. TableFollows(Cleaned(gone), turn + 1)
  BY <1>1, <1>2, <1>3, <1>4, <1>5, RewrittenFollows
<1>7. Active(Cleaned(gone)) = Active(links) \ left
  BY <1>1, <1>2, <1>4, <1>5, RewrittenRows DEF Opened, TableOK
<1>8. QED
  BY <1>3, <1>6, <1>7

LEMMA MovedFollows ==
    ASSUME TypeOK, NEW at \in Turns, NEW before \in Int, before <= at,
           NEW table, TableOK(table, before), TableFollows(table, before),
           Active(table) \subseteq Active(links), NEW z \in Zones
    PROVE  /\ TableFollows(Moved(table, z, at), at)
           /\ \A r \in Active(table): ~PlayersPlace(r.edge) => r \in Moved(table, z, at)
<1> DEFINE here == LocationsOf(Player) \cap table
<1>1. \A r \in here: r \in Active(table) /\ PlayersPlace(r.edge)
  BY LocationsOfPlayer DEF Active
<1> HIDE DEF here
<1>2. Moved(table, z, at) = Rewritten(table, here, {LocatedIn(z)}, at)
  BY DEF Moved, here
<1>3. here \in SUBSET Active(table) /\ {LocatedIn(z)} \in SUBSET AllEdges
  BY <1>1, LocatedInFacts
<1>4. \A r \in here: PlayersPlace(r.edge) => \E f \in {LocatedIn(z)}: PlayersPlace(f)
  BY LocatedInFacts
<1>5. TableFollows(Moved(table, z, at), at)
  BY <1>2, <1>3, <1>4, RewrittenFollows
<1>6. QED
  BY <1>1, <1>2, <1>5 DEF Rewritten, Active

LEMMA FlushedFollows ==
    ASSUME IInv, NarratorInv, ~tx.doomed
    PROVE  /\ TableFollows(Flushed, At) /\ RowsRemain(saved.links, Flushed, At)
           /\ tx.dirty \in SUBSET Active(links) /\ tx.fresh \in SUBSET AllEdges
           /\ \A r \in tx.dirty: PlayersPlace(r.edge) => \E f \in tx.fresh: PlayersPlace(f)
<1>1. /\ At \in Turns /\ At \in Int
      /\ TableOK(links, At) /\ TableFollows(links, At) /\ RowsOK(saved.links)
  BY AtFacts DEF IInv, BatchInv, NarratorInv, SavedInv, TableOK
<1>2. tx.dirty \in SUBSET Active(links) /\ tx.fresh \in SUBSET AllEdges
  BY DEF IInv, TypeOK, Transactions
<1>3. \A r \in tx.dirty: PlayersPlace(r.edge) => \E f \in tx.fresh: PlayersPlace(f)
  BY DEF IInv, BatchInv, FreshInv
<1>4. TableFollows(Flushed, At) /\ RowsRemain(links, Flushed, At)
  BY <1>1, <1>2, <1>3, RewrittenFollows DEF Flushed
<1>5. RowsRemain(saved.links, Flushed, At)
  BY <1>1, <1>4, RemainTwice DEF NarratorInv
<1>6. QED
  BY <1>2, <1>3, <1>4, <1>5

LEMMA TransactionFollows == ASSUME IInv, IInv', NarratorInv, Transaction PROVE NarratorInv'
<1>1. CASE AllocateTurn
  <2>1. PICK gone \in SUBSET Expirable: links' = Cleaned(gone)
    BY <1>1 DEF AllocateTurn
  <2>2. /\ tx.kind = "none" /\ turn < MaxTurn /\ turn' = turn + 1 /\ tx' = tx
    BY <1>1 DEF AllocateTurn
  <2>3. TableFollows(links', turn')
    BY <2>1, <2>2, CleanedFollows
  <2>4. QED
    BY <2>2, <2>3, DoneFollows
<1>2. CASE BeginPlan \/ BeginGraphHealth
  <2>1. /\ tx.kind = "none" /\ UNCHANGED <<turn, links, saved>>
    BY <1>2 DEF BeginPlan, BeginGraphHealth, world
  <2>2. /\ saved.links = links /\ TableFollows(links, turn) /\ RowsOK(links)
        /\ turn \in Int
    BY <2>1, IdleFacts DEF NarratorInv, World, TableOK
  <2>3. At' \in Int /\ turn <= At'
    BY <2>1, <2>2 DEF At
  <2>4. TableFollows(links', At')
    BY <2>1, <2>2, <2>3, FollowsLater
  <2>5. QED
    BY <2>1, <2>2, <2>4, RemainItself DEF NarratorInv
<1>3. CASE Commit
  <2>1. /\ ~tx.doomed /\ turn' = At /\ links' = Flushed /\ tx' = NoTx
    BY <1>3 DEF Commit
  <2>2. TableFollows(links', turn')
    BY <2>1, FlushedFollows
  <2>3. QED
    BY <2>1, <2>2, DoneFollows, BegunFacts DEF NoTx
<1>4. CASE Rollback
  <2>1. links' = saved.links /\ tx' = NoTx /\ turn' = turn
    BY <1>4 DEF Rollback
  <2>2. TableFollows(links', turn')
    BY <2>1 DEF NarratorInv
  <2>3. QED
    BY <2>1, <2>2, DoneFollows, BegunFacts DEF NoTx
<1>5. QED
  BY <1>1, <1>2, <1>3, <1>4 DEF Transaction

LEMMA OperationFollows == ASSUME IInv, IInv', NarratorInv, Operation PROVE NarratorInv'
<1>1. CASE CreateObject
  <2>1. /\ tx.kind # "none" /\ ~tx.doomed /\ links' = Flushed
        /\ UNCHANGED <<turn, pending, saved>>
    BY <1>1 DEF CreateObject, InTx
  <2>2. tx'.kind = tx.kind
    BY <1>1 DEF CreateObject, IInv, TypeOK, Transactions
  <2>3. links' = Rewritten(links, tx.dirty, tx.fresh, At)
    BY <2>1 DEF Flushed
  <2>4. QED
    BY <2>1, <2>2, <2>3, FlushedFollows, InsideFollows
<1>2. CASE ~CreateObject
  <2>1. /\ tx.kind # "none" /\ links' = links
        /\ UNCHANGED <<turn, pending, saved>>
    BY <1>2 DEF Operation, CreateLink, TrackQuest, CloseLink, EndQuest, ReopenQuest,
                DeactivateNpc, ReviveNpc, PlayerMove, Patch, InTx
  <2>2. tx'.kind = tx.kind
    <3>1. tx \in Transactions(links)
      BY DEF IInv, TypeOK
    <3>2. ASSUME NEW rows, NEW edges, Patch(rows, edges) PROVE tx'.kind = tx.kind
      BY <3>1, <3>2 DEF Patch, Transactions
    <3>3. ASSUME NEW e \in TrackingEdges, TrackQuest(e) PROVE tx'.kind = tx.kind
      BY <3>1, <3>3 DEF TrackQuest, Transactions
    <3>4. ASSUME NEW q \in Quests, ReopenQuest(q) PROVE tx'.kind = tx.kind
      BY <3>1, <3>4 DEF ReopenQuest, Transactions
    <3>5. QED
      BY <1>2, <3>2, <3>3, <3>4
         DEF Operation, CreateLink, CloseLink, EndQuest, DeactivateNpc, ReviveNpc,
             PlayerMove
  <2>3. {} \in SUBSET Active(links) /\ {} \in SUBSET AllEdges
    OBVIOUS
  <2>4. QED
    BY <2>1, <2>2, <2>3, InsideFollows
<1>3. QED
  BY <1>1, <1>2

LEMMA MovementFollows == ASSUME IInv, IInv', NarratorInv, Movement PROVE NarratorInv'
<1>1. ASSUME NEW z \in Zones, Travel(z) PROVE NarratorInv'
  <2> DEFINE here == LocationsOf(Player) \cap links
  <2>1. /\ tx.kind # "none" /\ links' = Moved(links, z, At)
        /\ UNCHANGED <<turn, pending, saved>>
    BY <1>1 DEF Travel
  <2>2. tx'.kind = tx.kind
    BY <1>1 DEF Travel, IInv, TypeOK, Transactions
  <2>3. here \in SUBSET Active(links) /\ {LocatedIn(z)} \in SUBSET AllEdges
    BY LocationsOfPlayer, LocatedInFacts DEF IInv
  <2>4. links' = Rewritten(links, here, {LocatedIn(z)}, At)
    BY <2>1 DEF Moved
  <2>5. QED
    BY <2>1, <2>2, <2>3, <2>4, LocatedInFacts, InsideFollows
<1>2. ASSUME NEW z \in Zones, MovePlayer(z) PROVE NarratorInv'
  <2>1. PICK gone \in SUBSET Expirable:
           CleanUp(gone) /\ links' = Moved(Cleaned(gone), z, turn + 1)
    BY <1>2 DEF MovePlayer
  <2>2. /\ tx.kind = "none" /\ turn < MaxTurn /\ turn' = turn + 1 /\ tx' = tx
    BY <1>2 DEF MovePlayer
  <2>3. TypeOK /\ turn + 1 \in Turns /\ turn + 1 \in Int
    BY <2>2 DEF IInv, TypeOK, Turns
  <2>4. TableFollows(Cleaned(gone), turn + 1)
    BY <2>2, CleanedFollows
  <2>5. /\ TableOK(Cleaned(gone), turn + 1)
        /\ Active(Cleaned(gone)) \subseteq Active(links)
    BY <2>1, <2>2, CleanedFacts
  <2>6. TableFollows(links', turn')
    BY <2>1, <2>2, <2>3, <2>4, <2>5, MovedFollows
  <2>7. QED
    BY <2>2, <2>6, DoneFollows
<1>3. ASSUME NEW e \in AllEdges, NEW window \in Windows, PostLink(e, window)
      PROVE  NarratorInv'
  <2> DEFINE new == [edge |-> e, since |-> window.since, until |-> window.until,
                     made |-> turn + 1, by |-> "client"]
  <2>1. /\ tx.kind = "none" /\ turn < MaxTurn /\ turn' = turn + 1 /\ tx' = tx
        /\ links' = links \cup {new}
    BY <1>3 DEF PostLink
  <2>2. new.by = "client" /\ new.edge = e /\ new.until = window.until
    OBVIOUS
  <2> HIDE DEF new
  <2>3. /\ TableOK(links, turn) /\ TableFollows(links, turn) /\ RowsOK(links)
        /\ turn \in Int /\ TypeOK
    BY <2>1, IdleFacts DEF NarratorInv, TableOK, IInv
  <2>4. TableFollows(links, turn')
    BY <2>1, <2>3, FollowsLater
  <2>5. PlacesAreTold(links')
    <3>1. new.until = Open => ~PlayersPlace(e)
      BY <1>3, <2>2, <2>3, PostedFacts, LocationsOfPlayer
         DEF TableOK, PlayerIsPlaced, PlayersPlace
    <3>2. QED
      BY <2>1, <2>2, <2>4, <3>1 DEF TableFollows, PlacesAreTold, Active
  <2>6. TableFollows(links', turn')
    BY <2>1, <2>2, <2>4, <2>5 DEF TableFollows, PlacesFollow, EndedBy
  <2>7. QED
    BY <2>1, <2>6, DoneFollows
<1>4. QED
  BY <1>1, <1>2, <1>3 DEF Movement

LEMMA NarratorStep == ASSUME IInv, NarratorInv, [Next]_vars PROVE NarratorInv'
<1>1. IInv'
  BY NextIsConsistent
<1>2. CASE UNCHANGED vars
  BY <1>2 DEF vars, world, NarratorInv, At
<1>3. QED
  BY <1>1, <1>2, TransactionFollows, OperationFollows, MovementFollows DEF Next
-----------------------------------------------------------------------------
\* What a pack tells of the graph are links that are active.
LEMMA ToldIsActive ==
    ASSUME NEW z \in Zones, NEW e \in Told(z)
    PROVE  \E r \in Active(links): r.edge = e
<1>1. \A anchors: \A f \in OneHopLinks(anchors): \E r \in Active(links): r.edge = f
  BY DEF OneHopLinks, Found
<1>2. \A x: \A f \in RelevantLinks(x): \E r \in Active(links): r.edge = f
  BY DEF RelevantLinks, Found
<1>3. \A n: \A f \in Relationships(n): \E r \in Active(links): r.edge = f
  BY DEF Relationships, Found
<1>4. \A list \in ZoneNpcs(z): \A n \in DOMAIN list: list[n] = Relationships(n)
  BY DEF ZoneNpcs
<1> DEFINE present == (UNION {DOMAIN list: list \in ZoneNpcs(z)}) \cup (UNION RelevantNpcs(z))
           anchors == {Player} \cup present \cup (UNION Inventory) \cup RelevantQuests
           shown == UNION RelevantObjects(Npcs \cup Items \cup {Player})
           hop == OneHopLinks(anchors)
           near == UNION {RelevantLinks(x): x \in shown}
           ties == UNION {UNION {list[n]: n \in DOMAIN list}: list \in ZoneNpcs(z)}
<1>5. e \in hop \cup near \cup ties
  BY DEF Told
<1>6. CASE e \in hop
  BY <1>1, <1>6
<1>7. CASE e \in near
  <2> HIDE DEF shown
  <2>1. QED
    BY <1>2, <1>7
<1>8. CASE e \in ties
  BY <1>3, <1>4, <1>8
<1> HIDE DEF hop, near, ties
<1>9. QED
  BY <1>5, <1>6, <1>7, <1>8

LEMMA RelevantAreThere ==
    ASSUME TypeOK, NEW z \in Zones, NEW n \in UNION RelevantNpcs(z)
    PROVE  \E r \in Active(links): /\ r.edge.type = "located_in"
                                   /\ r.edge.from = n /\ r.edge.to = z
<1>1. n \in NpcsOf(z)
  BY DEF RelevantNpcs, Shown
<1>2. PICK r \in LocationsOf(n): r.edge.to = z
  BY <1>1 DEF NpcsOf
<1>3. QED
  BY <1>2, LocationsFound

LEMMA StoryHolds == ASSUME IInv, NarratorInv, Idle PROVE StoryIsCoherent
<1>1. TypeOK /\ TableOK(links, turn) /\ PlacesFollow(links)
  BY IdleFacts DEF IInv, NarratorInv, TableFollows, Idle
<1>2. \A r \in Active(links): r.edge \in AllEdges
  BY <1>1, KindOfRow
<1>3. \A r \in links: /\ r \in PlacesLeft <=> r.until # Open /\ PlayersPlace(r.edge)
                      /\ r \in LocationsOf(Player) <=> r.until = Open /\ PlayersPlace(r.edge)
  BY <1>1, LocationsOfPlayer DEF PlacesLeft, Active, PlayersPlace
<1>4. \A r \in PlacesLeft: r \in links /\ r.until \in Nat
  BY <1>1, <1>3, RowParts DEF PlacesLeft, TypeOK, Turns
<1>5. ASSUME NEW list \in LocationHistory, NEW r \in list, r.by = "turn"
      PROVE  \E s \in list \cup LocationsOf(Player):
                s.since = r.until /\ (s.until = Open \/ s.until > r.until)
  <2>1. /\ list \subseteq PlacesLeft
        /\ \A s \in PlacesLeft \ list: s.until <= r.until
    BY DEF LocationHistory, Latest, Shown
  <2>2. PICK s \in links: PlayersPlace(s.edge) /\ s.since = r.until /\ Outlasts(s, r.until)
    BY <1>1, <1>3, <1>4, <1>5, <2>1 DEF PlacesFollow
  <2>3. CASE s.until = Open
    BY <1>3, <2>2, <2>3
  <2>4. CASE s.until # Open
    <3>1. s \in PlacesLeft /\ s.until > r.until
      BY <1>3, <2>2, <2>4 DEF Outlasts
    <3>2. s \in list
      BY <1>4, <2>1, <3>1
    <3>3. QED
      BY <2>2, <3>1, <3>2
  <2>5. QED
    BY <2>3, <2>4
<1>6. ASSUME NEW z \in Zones, NEW n \in UNION RelevantNpcs(z), NEW e \in Told(z),
             e.type = "located_in", e.from = n
      PROVE  e.to = z
  <2>1. PICK r \in Active(links): r.edge = e
    BY ToldIsActive
  <2>2. PICK s \in Active(links): /\ s.edge.type = "located_in"
                                  /\ s.edge.from = n /\ s.edge.to = z
    BY <1>1, RelevantAreThere
  <2>3. QED
    BY <1>1, <1>6, <2>1, <2>2 DEF TableOK, OneLocation
<1>7. ASSUME NEW r \in Active(links), NEW s \in Active(links), NEW e,
             e.type = "carried_by", r.edge = e, s.edge = [e EXCEPT !.to = Player]
      PROVE  MayCoexist(r, s)
  <2>1. e \in OwnerEdges
    BY <1>2, <1>7 DEF AllEdges, SocialEdges, OwnerEdges, TrackingEdges,
                      LocationEdges, Edges, Support, Conflict
  <2>2. s.edge.type = "carried_by" /\ s.edge.from = e.from /\ s.edge.to = Player
    BY <1>7, <2>1 DEF OwnerEdges, Edges
  <2>3. CASE e.to = Player
    <3>1. s.edge = e
      BY <1>7, <2>1, <2>3 DEF OwnerEdges, Edges
    <3>2. QED
      BY <1>1, <1>7, <3>1, KindOfRow DEF TableOK, OneRowPerEdge, MayCoexist
  <2>4. CASE e.to # Player
    BY <1>1, <1>7, <2>2, <2>4, RivalsMayCoexist DEF TableOK, Rivals
  <2>5. QED
    BY <2>3, <2>4
<1>8. QED
  BY <1>5, <1>6, <1>7 DEF StoryIsCoherent
-----------------------------------------------------------------------------
\* A turn outside a plan takes no item from its owner.
LEMMA OwnersStay ==
    ASSUME IInv, NarratorInv, [Next]_vars, saved' # saved, ~Commit,
           NEW r \in Active(saved.links), r.edge.type = "carried_by"
    PROVE  r \in links'
<1>1. ~Operation /\ ~BeginPlan /\ ~BeginGraphHealth /\ ~Rollback
      /\ ~UNCHANGED vars /\ ~(\E z \in Zones: Travel(z))
  BY DEF Operation, CreateObject, CreateLink, TrackQuest, CloseLink, EndQuest,
         ReopenQuest, DeactivateNpc, ReviveNpc, PlayerMove, Patch, BeginPlan,
         BeginGraphHealth, Rollback, Travel, vars
<1>2. tx.kind = "none" /\ turn < MaxTurn
  BY <1>1 DEF Next, Transaction, Movement, AllocateTurn, MovePlayer, PostLink
<1>3. /\ r \in Active(links) /\ TypeOK /\ turn + 1 \in Turns /\ turn + 1 \in Int
  BY <1>2, IdleFacts DEF World, IInv, TypeOK, Turns
<1>4. ~(\E n \in Npcs: r.edge.from = n) /\ ~PlayersPlace(r.edge) /\ r \in links
  BY <1>3, KindOfRow, EdgeEnds, ObjectsDiffer DEF PlayersPlace, Active
<1>5. \A gone \in SUBSET Expirable: r \in Active(Cleaned(gone))
  BY <1>2, <1>3, <1>4, CleanedFollows
<1>6. CASE AllocateTurn
  BY <1>5, <1>6 DEF AllocateTurn, Active
<1>7. ASSUME NEW z \in Zones, MovePlayer(z) PROVE r \in links'
  <2>1. PICK gone \in SUBSET Expirable:
           CleanUp(gone) /\ links' = Moved(Cleaned(gone), z, turn + 1)
    BY <1>7 DEF MovePlayer
  <2>2. TableFollows(Cleaned(gone), turn + 1)
    BY <1>2, CleanedFollows
  <2>3. /\ TableOK(Cleaned(gone), turn + 1)
        /\ Active(Cleaned(gone)) \subseteq Active(links)
    BY <1>2, <2>1, CleanedFacts
  <2>4. QED
    BY <1>3, <1>4, <1>5, <2>1, <2>2, <2>3, MovedFollows
<1>8. ASSUME NEW e \in AllEdges, NEW window \in Windows, PostLink(e, window)
      PROVE  r \in links'
  BY <1>4, <1>8 DEF PostLink
<1>9. QED
  BY <1>1, <1>6, <1>7, <1>8 DEF Next, Transaction, Movement

\* The row of an item that lost its owner ends at the turn that took it.
LEMMA LostRowIsClosed ==
    ASSUME IInv, NarratorInv, Commit,
           NEW r \in Active(saved.links), r \notin links', r.since <= turn'
    PROVE  /\ Closed(r, turn') \in links' /\ Closed(r, turn').until = turn'
           /\ Closed(r, turn').edge = r.edge
           /\ turn' \in Nat /\ turn' >= 1
<1>1. /\ links' = Flushed /\ turn' = At /\ ~tx.doomed /\ tx.kind # "none"
  BY DEF Commit
<1>2. Closed(r, At) \in links'
  BY <1>1, FlushedFollows DEF RowsRemain, Active
<1>3. r \in Rows
  BY DEF Active, IInv, SavedInv, TableOK, RowsOK
<1>4. r.since \in Nat /\ At \in Nat /\ r.since <= At /\ r.made \in Nat /\ r.made < At
  BY <1>1, <1>3, RowParts, AtFacts, SavedRowsAreOlder DEF IInv, Turns
<1>5. Closed(r, At).until = At /\ Closed(r, At).edge = r.edge
  BY <1>3, <1>4 DEF Closed, Rows
<1>6. QED
  BY <1>1, <1>2, <1>4, <1>5

\* A set of turns has a last one.
LEMMA MaxOfBounded ==
    ASSUME NEW S, S # {}, NEW t \in Int, \A e \in S: e \in Int /\ e <= t
    PROVE  Max(S) \in S /\ \A e \in S: Max(S) >= e
<1> DEFINE D == {t - e: e \in S}
<1>1. D \subseteq Nat /\ D # {}
  <2>1. PICK e \in S: TRUE
    OBVIOUS
  <2>2. t - e \in D
    BY <2>1
  <2>3. \A d \in S: t - d \in Nat
    OBVIOUS
  <2> QED
    BY <2>2, <2>3
<1>2. PICK u \in D: \A v \in D: u <= v
  <2> HIDE DEF D
  <2> QED
    BY <1>1, HasLeast
<1>3. PICK x \in S: u = t - x
  OBVIOUS
<1>4. ASSUME NEW e \in S PROVE x >= e
  <2>1. t - e \in D /\ x \in Int /\ e \in Int
    OBVIOUS
  <2>2. u <= t - e
    BY <1>2, <2>1
  <2> QED
    BY <1>3, <2>1, <2>2
<1>5. \E y \in S: \A e \in S: y >= e
  BY <1>4
<1> HIDE DEF D
<1> QED
  BY <1>5 DEF Max

LEMMA LookedBack ==
    ASSUME NEW at \in Nat, at >= 1, NEW t, t \in at + 1..at + LookbackTurns
    PROVE  t \in Int /\ t >= 2 /\ t - LookbackTurns <= at /\ at <= t - 1
  OBVIOUS

LEMMA LostStep ==
    ASSUME IInv, NarratorInv, [Next]_vars, Idle'
    PROVE  LostItemsAreShown
<1> SUFFICES ASSUME NEW i \in Items, NEW r \in Active(saved.links),
                    r.edge.type = "carried_by", r.edge.from = i, r.since <= turn',
                    Owners(i)' = {}, saved' # saved,
                    NEW t, t \in turn' + 1..turn' + LookbackTurns
             PROVE  /\ \A list \in OrphanedItems(t)':
                          \/ i \in list
                          \/ /\ Cardinality(list) = OrphanedLimit
                             /\ \A j \in list: LostTurn(j, t)' >= turn'
                    /\ \/ LastOwners(i, t)' \cap {s.edge.to: s \in Active(saved.links)} # {}
                       \/ \E s \in RecentlyClosed(i, t)': s.by = "client" /\ s.until > turn'
  BY DEF LostItemsAreShown
<1> DEFINE lost == Closed(r, turn')
           gone == RecentlyClosed(i, t)'
<1>1. IInv' /\ NarratorInv'
  BY NextIsConsistent, NarratorStep
<1>2. r.edge \in OwnerEdges /\ r.until = Open
  <2>1. r.edge \in AllEdges /\ r.until = Open
    BY RowParts DEF IInv, SavedInv, TableOK, RowsOK, Active
  <2>2. QED
    BY <2>1 DEF AllEdges, SocialEdges, OwnerEdges, TrackingEdges, LocationEdges,
                Edges, Support, Conflict
<1>3. r \notin links'
  <2> SUFFICES ASSUME r \in links' PROVE FALSE
    OBVIOUS
  <2>1. r.edge.to \in Owners(i)'
    BY <1>2 DEF Owners, Found, Active
  <2>2. QED
    BY <2>1
<1>4. Commit
  BY <1>3, OwnersStay
<1>5. /\ lost \in links' /\ lost.until = turn' /\ lost.edge = r.edge
      /\ turn' \in Nat /\ turn' >= 1
  BY <1>3, <1>4, LostRowIsClosed
<1> HIDE DEF lost
<1>6. t \in Int /\ t >= 2 /\ t - LookbackTurns <= turn' /\ turn' <= t - 1
  BY <1>5, LookedBack
<1>7. lost \in gone
  BY <1>2, <1>5, <1>6 DEF RecentlyClosed, Active, Open
<1>8. i \in Orphans(t)'
  BY <1>7 DEF Orphans
<1>9. \A j: \A q \in RecentlyClosed(j, t)': q \in links' /\ q.until # Open
                                          /\ q.until \in Int /\ q.until <= t
                                          /\ q.by \in {"turn", "client"}
  BY <1>1, <1>6, RowParts DEF RecentlyClosed, IInv, TypeOK, Turns, Open, Active
<1>10. LostTurn(i, t)' \in Int /\ LostTurn(i, t)' >= turn'
       /\ \E q \in gone: q.until = LostTurn(i, t)'
  <2> DEFINE ends == {q.until: q \in gone}
  <2>1. /\ turn' \in ends /\ \A e \in ends: e \in Int /\ e <= t
        /\ LostTurn(i, t)' = Max(ends)
    BY <1>5, <1>7, <1>9 DEF LostTurn
  <2>2. \A e \in ends: \E q \in gone: q.until = e
    OBVIOUS
  <2> HIDE DEF ends, gone
  <2>3. Max(ends) \in ends /\ \A e \in ends: Max(ends) >= e
    BY <1>6, <2>1, MaxOfBounded
  <2>4. QED
    BY <2>1, <2>2, <2>3
<1>11. ASSUME NEW list \in OrphanedItems(t)', i \notin list
       PROVE  /\ Cardinality(list) = OrphanedLimit
              /\ \A j \in list: LostTurn(j, t)' >= turn'
  <2>1. /\ Cardinality(list) = OrphanedLimit /\ list \subseteq Orphans(t)'
        /\ \A j \in list: LostTurn(i, t)' <= LostTurn(j, t)'
    BY <1>6, <1>8, <1>11 DEF OrphanedItems, Latest, Shown
  <2>2. ASSUME NEW j \in list PROVE LostTurn(j, t)' >= turn'
    <3> DEFINE ends == {q.until: q \in RecentlyClosed(j, t)'}
    <3>1. PICK q \in RecentlyClosed(j, t)': TRUE
      BY <2>1, <2>2 DEF Orphans
    <3>2. /\ q.until \in ends /\ \A e \in ends: e \in Int /\ e <= t
          /\ LostTurn(j, t)' = Max(ends)
      BY <1>9 DEF LostTurn
    <3> HIDE DEF ends
    <3>3. Max(ends) \in Int
      BY <1>6, <3>2, MaxOfBounded
    <3>4. QED
      BY <1>5, <1>10, <2>1, <2>2, <3>2, <3>3
  <2>3. QED
    BY <2>1, <2>2
<1>12. CASE LostTurn(i, t)' = turn'
  <2>1. r.edge.to \in LastOwners(i, t)'
    BY <1>5, <1>7, <1>12 DEF LastOwners, gone
  <2>2. QED
    BY <1>11, <2>1
<1>13. CASE LostTurn(i, t)' # turn'
  <2>1. PICK q \in gone: q.until = LostTurn(i, t)'
    BY <1>10
  <2>2. q.until > turn'
    BY <1>5, <1>10, <1>13, <2>1
  <2>3. EndedBy(links', turn')
    BY <1>1 DEF NarratorInv, TableFollows, IInv, Idle, At
  <2>4. q.by = "client"
    BY <1>5, <1>9, <2>2, <2>3 DEF EndedBy
  <2>5. QED
    BY <1>11, <2>2, <2>4
<1>14. QED
  BY <1>12, <1>13

\* Whatever batches, movements, clean-ups, links of clients and failed turns
\* came before, the pack of a turn tells one story (places without a gap, nobody
\* in two of them, an item with two owners only as one turn wrote it or a client
\* added), and an item that a turn leaves without an owner is among the orphaned
\* items of the turns after it, or they are all of that turn or later
\* (_list_orphaned_items_for_context), with an owner it had when it was lost
\* unless a client claims a later one.
THEOREM NarratorCorrect == Spec => NarratorSeesTheWorld
<1>1. Init => IInv /\ NarratorInv
  BY InitIsConsistent, InitFollows
<1>2. IInv /\ NarratorInv /\ [Next]_vars => IInv' /\ NarratorInv'
  BY NextIsConsistent, NarratorStep
<1>3. IInv /\ NarratorInv => (Idle /\ pending => StoryIsCoherent)
  BY StoryHolds
<1>4. IInv /\ NarratorInv /\ [Next]_vars => [Idle' => LostItemsAreShown]_vars
  BY LostStep
<1>5. QED
  BY <1>1, <1>2, <1>3, <1>4, PTL DEF Spec, NarratorSeesTheWorld

HIDE LookbackAssumption
-----------------------------------------------------------------------------
(***************************************************************************)
(* Commands that go back.                                                  *)
(***************************************************************************)
USE CommandsAssumption

Turn == Inputs \cup {U!Failed}

\* A snapshot holds the turns up to its own, as they still are.
SnapshotsAreOfThePast ==
    \A t \in U!Turns :
        snapshots[t] # U!None =>
            /\ t <= Len(committed)
            /\ snapshots[t].world = SubSeq(committed, 1, t)

CommandsInv ==
    /\ alive \in BOOLEAN
    /\ committed \in Seq(Turn) /\ Len(committed) <= CommandTurns
    /\ corrections \subseteq U!Corrections
    /\ snapshots = [t \in U!Turns |-> snapshots[t]]
    /\ SnapshotsAreOfThePast
    /\ replay \in [input : Inputs, replaced : U!Turns] \cup {U!None}
    /\ replay # U!None => Len(committed) < CommandTurns

\* The first t turns, and how an append and a shorter past leave them.
LEMMA FirstTurns ==
    ASSUME NEW S, NEW s \in Seq(S), NEW t \in 0..Len(s)
    PROVE  /\ SubSeq(s, 1, t) \in Seq(S) /\ Len(SubSeq(s, 1, t)) = t
           /\ \A i \in 1..t : SubSeq(s, 1, t)[i] = s[i]
<1>1. Len(s) \in Nat /\ \A i \in 1..t : s[i] \in S
  BY LenProperties, ElementOfSeq
<1> QED
  BY <1>1, SubSeqProperties

LEMMA FirstTurnsOfLonger ==
    ASSUME NEW S, NEW s \in Seq(S), NEW e \in S, NEW t \in 0..Len(s)
    PROVE  SubSeq(Append(s, e), 1, t) = SubSeq(s, 1, t)
<1>1. /\ Append(s, e) \in Seq(S) /\ Len(Append(s, e)) = Len(s) + 1 /\ Len(s) \in Nat
      /\ \A i \in 1..Len(s) : Append(s, e)[i] = s[i]
  BY AppendProperties, LenProperties
<1> DEFINE a == Append(s, e)
<1>2. a \in Seq(S) /\ t \in 0..Len(a) /\ \A i \in 1..t : a[i] = s[i]
  BY <1>1
<1> HIDE DEF a
<1>3. /\ SubSeq(a, 1, t) \in Seq(S) /\ Len(SubSeq(a, 1, t)) = t
      /\ \A i \in 1..t : SubSeq(a, 1, t)[i] = s[i]
  BY <1>2, FirstTurns
<1>4. SubSeq(a, 1, t) = SubSeq(s, 1, t)
  BY <1>3, FirstTurns, SeqEqual
<1> QED
  BY <1>4 DEF a

LEMMA FirstTurnsOfFirst ==
    ASSUME NEW S, NEW s \in Seq(S), NEW t \in 0..Len(s), NEW u \in 0..t
    PROVE  SubSeq(SubSeq(s, 1, t), 1, u) = SubSeq(s, 1, u)
<1> DEFINE a == SubSeq(s, 1, t)
<1>1. a \in Seq(S) /\ Len(a) = t /\ \A i \in 1..t : a[i] = s[i]
  BY FirstTurns
<1>2. u \in 0..Len(s) /\ u \in 0..Len(a)
  BY <1>1, LenProperties
<1> HIDE DEF a
<1>3. /\ SubSeq(a, 1, u) \in Seq(S) /\ Len(SubSeq(a, 1, u)) = u
      /\ \A i \in 1..u : SubSeq(a, 1, u)[i] = a[i]
  BY <1>1, <1>2, FirstTurns
<1>4. SubSeq(s, 1, u) \in Seq(S) /\ Len(SubSeq(s, 1, u)) = u
      /\ \A i \in 1..u : SubSeq(s, 1, u)[i] = s[i]
  BY <1>2, FirstTurns
<1>5. SubSeq(a, 1, u) = SubSeq(s, 1, u)
  BY <1>1, <1>3, <1>4, SeqEqual
<1> QED
  BY <1>5 DEF a


\* The step relation of CommandsGoBack.
GoesBack ==
    /\ corrections \subseteq corrections'
    /\ \/ Len(committed') = Len(committed) + 1 /\ U!IsPrefix(committed, committed')
       \/ U!IsPrefix(committed', committed)
    /\ replay = U!None /\ replay' # U!None => Len(committed') < Len(committed)
    /\ said' \notin {said, U!None} =>
          /\ said'.command \in {"undo", "rollback"} =>
                said'.affected = (Len(committed') + 1)..Len(committed)
          /\ said'.command = "undo" => Len(committed') < Len(committed)

LEMMA InitCommands == ASSUME U!Init PROVE CommandsInv
<1>1. /\ alive = TRUE /\ committed = <<>> /\ corrections = {} /\ replay = U!None
      /\ snapshots = [t \in U!Turns |-> IF t = 0 THEN U!Dump ELSE U!None]
  BY DEF U!Init
<1>2. committed \in Seq(Turn) /\ Len(committed) = 0
  BY <1>1, EmptySeq
<1>3. SnapshotsAreOfThePast
  <2>1. SUFFICES ASSUME NEW t \in U!Turns, snapshots[t] # U!None
                 PROVE  /\ t <= Len(committed)
                        /\ snapshots[t].world = SubSeq(committed, 1, t)
    BY DEF SnapshotsAreOfThePast
  <2>2. t = 0 /\ snapshots[t] = U!Dump
    BY <1>1, <2>1
  <2>3. snapshots[t].world = committed
    BY <2>2 DEF U!Dump
  <2>4. committed = SubSeq(committed, 1, 0)
    BY <1>2, SubSeqFull
  <2> QED
    BY <1>2, <2>2, <2>3, <2>4
<1>4. snapshots = [t \in U!Turns |-> snapshots[t]]
  BY <1>1
<1>5. alive \in BOOLEAN
  BY <1>1, Zenon
<1> QED
  BY <1>1, <1>2, <1>3, <1>4, <1>5 DEF CommandsInv

LEMMA PrefixOfItself ==
    ASSUME NEW s \in Seq(Turn) PROVE U!IsPrefix(s, s)
  BY SubSeqFull, LenProperties DEF U!IsPrefix

\* What the newest snapshot at or before a turn is.
LEMMA NewestSnapshot ==
    ASSUME CommandsInv, NEW target \in Int,
           target < Len(committed), U!SnapshotsAtOrBefore(target) # {}
    PROVE  /\ U!SnapshotAtOrBefore(target) \in U!Turns
           /\ U!SnapshotAtOrBefore(target) < Len(committed)
           /\ U!SnapshotAtOrBefore(target) \in 0..Len(committed)
           /\ snapshots[U!SnapshotAtOrBefore(target)] # U!None
           /\ snapshots[U!SnapshotAtOrBefore(target)].world
                 = SubSeq(committed, 1, U!SnapshotAtOrBefore(target))
<1> DEFINE T == U!SnapshotsAtOrBefore(target)
           t == U!SnapshotAtOrBefore(target)
<1>1. T \subseteq 0..CommandTurns
  BY DEF U!SnapshotsAtOrBefore, U!Turns
<1>2. \E x \in T : \A y \in T : y <= x
  <2> HIDE DEF T
  <2> QED
    BY <1>1, HasGreatest DEF T
<1>3. t \in T
  BY <1>2 DEF U!SnapshotAtOrBefore
<1> HIDE DEF t
<1>4. t \in U!Turns /\ t <= target /\ snapshots[t] # U!None
  BY <1>3 DEF U!SnapshotsAtOrBefore
<1>5. Len(committed) \in Nat
  BY LenProperties DEF CommandsInv
<1>6. t \in Nat /\ t < Len(committed)
  BY <1>4, <1>5 DEF U!Turns
<1>7. t \in 0..Len(committed)
  BY <1>5, <1>6
<1>8. snapshots[t].world = SubSeq(committed, 1, t)
  BY <1>4 DEF CommandsInv, SnapshotsAreOfThePast
<1> QED
  BY <1>4, <1>6, <1>7, <1>8 DEF t

\* A restore leaves the turns up to the snapshot and the snapshots of those.
LEMMA Restored ==
    ASSUME CommandsInv, NEW t \in U!Turns,
           t < Len(committed), t \in 0..Len(committed),
           snapshots[t].world = SubSeq(committed, 1, t),
           NEW preserved, U!RestoreSnapshotInPlace(t, preserved)
    PROVE  /\ committed' \in Seq(Turn) /\ Len(committed') = t
           /\ Len(committed') < Len(committed) /\ Len(committed') <= CommandTurns
           /\ Len(committed') < CommandTurns
           /\ U!IsPrefix(committed', committed)
           /\ snapshots' = [s \in U!Turns |-> snapshots'[s]]
           /\ SnapshotsAreOfThePast'
           /\ corrections' = preserved
<1>0. committed \in Seq(Turn) /\ Len(committed) \in Nat /\ Len(committed) <= CommandTurns
  BY LenProperties DEF CommandsInv
<1>1. /\ committed' = SubSeq(committed, 1, t) /\ corrections' = preserved
      /\ snapshots' = [s \in U!Turns |-> IF s > t THEN U!None ELSE snapshots[s]]
  BY DEF U!RestoreSnapshotInPlace
<1>2. committed' \in Seq(Turn) /\ Len(committed') = t
  BY <1>0, <1>1, FirstTurns
<1>3. U!IsPrefix(committed', committed)
  BY <1>0, <1>1, <1>2 DEF U!IsPrefix
<1>4. SnapshotsAreOfThePast'
  <2>1. SUFFICES ASSUME NEW s \in U!Turns, snapshots'[s] # U!None
                 PROVE  /\ s <= Len(committed')
                        /\ snapshots'[s].world = SubSeq(committed', 1, s)
    BY DEF SnapshotsAreOfThePast, U!Turns
  <2>2. s <= t /\ snapshots'[s] = snapshots[s] /\ s \in 0..t
    BY <1>1, <2>1 DEF U!Turns
  <2>3. snapshots[s].world = SubSeq(committed, 1, s)
    BY <2>1, <2>2 DEF CommandsInv, SnapshotsAreOfThePast
  <2>4. SubSeq(committed', 1, s) = SubSeq(committed, 1, s)
    BY <1>0, <1>1, <2>2, FirstTurnsOfFirst
  <2> QED
    BY <1>2, <2>2, <2>3, <2>4
<1> QED
  BY <1>0, <1>1, <1>2, <1>3, <1>4

\* One more turn, with or without a snapshot of it.
LEMMA OneMoreTurn ==
    ASSUME CommandsInv, NEW e \in Turn,
           committed' = Append(committed, e), Len(committed) < CommandTurns,
           NEW rules, U!MaybeCaptureSnapshot(committed', rules)
    PROVE  /\ committed' \in Seq(Turn) /\ Len(committed') <= CommandTurns
           /\ Len(committed') = Len(committed) + 1
           /\ U!IsPrefix(committed, committed')
           /\ snapshots' = [s \in U!Turns |-> snapshots'[s]]
           /\ SnapshotsAreOfThePast'
<1>0. committed \in Seq(Turn) /\ Len(committed) \in Nat
  BY LenProperties DEF CommandsInv
<1>1. committed' \in Seq(Turn) /\ Len(committed') = Len(committed) + 1
  BY <1>0, AppendProperties
<1>2. \A t \in 0..Len(committed) : SubSeq(committed', 1, t) = SubSeq(committed, 1, t)
  BY <1>0, FirstTurnsOfLonger
<1>3. U!IsPrefix(committed, committed')
  <2>1. SubSeq(committed', 1, Len(committed)) = committed
    BY <1>0, <1>2, SubSeqFull
  <2> QED
    BY <1>0, <1>1, <2>1 DEF U!IsPrefix
<1>4. \/ UNCHANGED snapshots
      \/ snapshots' = [snapshots EXCEPT ![Len(committed')] =
                          [world |-> committed', corrections |-> rules]]
  BY DEF U!MaybeCaptureSnapshot
<1>5. snapshots' = [s \in U!Turns |-> snapshots'[s]]
  BY <1>4 DEF CommandsInv
<1>6. ASSUME NEW s \in U!Turns, snapshots'[s] # U!None
      PROVE  /\ s <= Len(committed')
             /\ snapshots'[s].world = SubSeq(committed', 1, s)
  <2>1. CASE snapshots'[s] = snapshots[s]
    <3>1. s <= Len(committed) /\ snapshots[s].world = SubSeq(committed, 1, s)
      BY <1>6, <2>1 DEF CommandsInv, SnapshotsAreOfThePast
    <3>2. s \in 0..Len(committed) /\ s <= Len(committed')
      BY <1>0, <1>1, <3>1 DEF U!Turns
    <3> QED
      BY <1>2, <2>1, <3>1, <3>2
  <2>2. CASE snapshots'[s] # snapshots[s]
    <3>1. s = Len(committed')
          /\ snapshots'[s] = [world |-> committed', corrections |-> rules]
      BY <1>4, <2>2 DEF CommandsInv
    <3>2. SubSeq(committed', 1, s) = committed' /\ Len(committed') \in Nat
      BY <1>1, <3>1, SubSeqFull, LenProperties
    <3> QED
      BY <3>1, <3>2
  <2> QED
    BY <2>1, <2>2
<1>7. SnapshotsAreOfThePast'
  BY <1>6 DEF SnapshotsAreOfThePast, U!Turns
<1> QED
  BY <1>0, <1>1, <1>3, <1>5, <1>7

\* No turn is added, and a snapshot is taken of the turns there are, or not.
LEMMA SameTurns ==
    ASSUME CommandsInv, committed' = committed,
           NEW rules, U!MaybeCaptureSnapshot(committed, rules)
    PROVE  /\ committed' \in Seq(Turn) /\ Len(committed') <= CommandTurns
           /\ U!IsPrefix(committed', committed)
           /\ snapshots' = [s \in U!Turns |-> snapshots'[s]]
           /\ SnapshotsAreOfThePast'
<1>0. committed \in Seq(Turn) /\ Len(committed) \in Nat /\ Len(committed) <= CommandTurns
  BY LenProperties DEF CommandsInv
<1>4. \/ UNCHANGED snapshots
      \/ snapshots' = [snapshots EXCEPT ![Len(committed)] =
                          [world |-> committed, corrections |-> rules]]
  BY DEF U!MaybeCaptureSnapshot
<1>5. snapshots' = [s \in U!Turns |-> snapshots'[s]]
  BY <1>4 DEF CommandsInv
<1>6. ASSUME NEW s \in U!Turns, snapshots'[s] # U!None
      PROVE  /\ s <= Len(committed)
             /\ snapshots'[s].world = SubSeq(committed, 1, s)
  <2>1. CASE snapshots'[s] = snapshots[s]
    BY <1>6, <2>1 DEF CommandsInv, SnapshotsAreOfThePast
  <2>2. CASE snapshots'[s] # snapshots[s]
    <3>1. s = Len(committed)
          /\ snapshots'[s] = [world |-> committed, corrections |-> rules]
      BY <1>4, <2>2 DEF CommandsInv
    <3> QED
      BY <1>0, <3>1, SubSeqFull
  <2> QED
    BY <2>1, <2>2
<1>7. SnapshotsAreOfThePast'
  BY <1>6 DEF SnapshotsAreOfThePast, U!Turns
<1> QED
  BY <1>0, <1>5, <1>7, PrefixOfItself

LEMMA RunTurnStep ==
    ASSUME CommandsInv, NEW input \in Inputs, U!RunTurn(input)
    PROVE  CommandsInv' /\ GoesBack
<1>1. /\ input \in Turn /\ committed' = Append(committed, input)
      /\ Len(committed) < CommandTurns
      /\ U!MaybeCaptureSnapshot(committed', corrections)
      /\ UNCHANGED <<alive, corrections, replay, said>> /\ replay = U!None
  BY DEF U!RunTurn, U!CommittedTurn, Turn
<1>2. alive' \in BOOLEAN
  BY <1>1, Zenon DEF CommandsInv
<1>3. CommandsInv'
  BY <1>1, <1>2, OneMoreTurn, Zenon DEF CommandsInv
<1> QED
  BY <1>1, <1>3, OneMoreTurn DEF GoesBack

LEMMA SnapshotStep ==
    ASSUME CommandsInv,
           U!CreateSessionSnapshot \/ U!DeleteSession
    PROVE  CommandsInv' /\ GoesBack
<1>1. /\ committed' = committed /\ UNCHANGED <<corrections, replay, said>>
      /\ U!MaybeCaptureSnapshot(committed, corrections)
  BY DEF U!CreateSessionSnapshot, U!DeleteSession, U!MaybeCaptureSnapshot, U!Dump,
         U!CommittedTurn
<1>2. alive' \in BOOLEAN
  BY Zenon DEF CommandsInv, U!CreateSessionSnapshot, U!DeleteSession
<1>3. CommandsInv'
  BY <1>1, <1>2, SameTurns, Zenon DEF CommandsInv
<1> QED
  BY <1>1, <1>3, SameTurns DEF GoesBack

LEMMA UndoStep ==
    ASSUME CommandsInv, U!HandleUndo
    PROVE  CommandsInv' /\ GoesBack
<1> DEFINE t == U!SnapshotAtOrBefore(U!TargetOfUndo)
<1>0. Len(committed) \in Nat
  BY LenProperties DEF CommandsInv
<1>1. /\ t \in U!Turns /\ t < Len(committed) /\ t \in 0..Len(committed)
      /\ snapshots[t].world = SubSeq(committed, 1, t)
      /\ U!RestoreSnapshotInPlace(t, corrections)
  <2>1. /\ U!TargetOfUndo \in Int /\ U!TargetOfUndo < Len(committed)
        /\ U!SnapshotsAtOrBefore(U!TargetOfUndo) # {}
        /\ U!RestoreSnapshotInPlace(t, corrections)
    BY <1>0 DEF U!HandleUndo, U!TargetOfUndo, U!CommittedTurn
  <2> QED
    BY <2>1, NewestSnapshot
<1>2. /\ UNCHANGED <<alive, replay>> /\ replay = U!None
      /\ said' = [command |-> "undo",
                  affected |-> (Len(committed') + 1)..Len(committed)]
  BY DEF U!HandleUndo, U!Said, U!Command, U!CommittedTurn
<1> HIDE DEF t
<1>3. alive' \in BOOLEAN
  BY <1>2, Zenon DEF CommandsInv
<1>4. CommandsInv'
  BY <1>1, <1>2, <1>3, Restored, Zenon DEF CommandsInv
<1> QED
  BY <1>1, <1>2, <1>4, Restored DEF GoesBack

LEMMA RollbackStep ==
    ASSUME CommandsInv, NEW requested \in U!Turns,
           U!HandleRollback(requested)
    PROVE  CommandsInv' /\ GoesBack
<1>0. /\ Len(committed) \in Nat /\ committed \in Seq(Turn)
      /\ UNCHANGED <<alive, replay>> /\ replay = U!None
  BY LenProperties DEF CommandsInv, U!HandleRollback, U!Command
<1>1. alive' \in BOOLEAN
  BY <1>0, Zenon DEF CommandsInv
<1>2. CASE /\ U!Said("rollback", U!CommittedTurn, U!CommittedTurn)
           /\ UNCHANGED <<committed, corrections, snapshots>>
  <2>1. said' = [command |-> "rollback", affected |-> (Len(committed) + 1)..Len(committed)]
    BY <1>2 DEF U!Said, U!CommittedTurn
  <2>2. U!MaybeCaptureSnapshot(committed, corrections)
    BY <1>2 DEF U!MaybeCaptureSnapshot
  <2>3. CommandsInv'
    BY <1>0, <1>1, <1>2, <2>2, SameTurns, Zenon DEF CommandsInv
  <2> QED
    BY <1>0, <1>2, <2>1, <2>3, PrefixOfItself DEF GoesBack
<1>3. CASE /\ requested < U!CommittedTurn
           /\ U!SnapshotsAtOrBefore(requested) # {}
           /\ U!RestoreSnapshotInPlace(U!SnapshotAtOrBefore(requested), corrections)
           /\ U!Said("rollback", U!CommittedTurn, Len(committed'))
  <2> DEFINE t == U!SnapshotAtOrBefore(requested)
  <2>1. /\ t \in U!Turns /\ t < Len(committed) /\ t \in 0..Len(committed)
        /\ snapshots[t].world = SubSeq(committed, 1, t)
        /\ U!RestoreSnapshotInPlace(t, corrections)
    <3>1. requested \in Int /\ requested < Len(committed)
      BY <1>3 DEF U!Turns, U!CommittedTurn
    <3> QED
      BY <1>3, <3>1, NewestSnapshot
  <2>2. said' = [command |-> "rollback",
                 affected |-> (Len(committed') + 1)..Len(committed)]
    BY <1>3 DEF U!Said, U!CommittedTurn
  <2> HIDE DEF t
  <2>3. CommandsInv'
    BY <1>0, <1>1, <2>1, Restored, Zenon DEF CommandsInv
  <2> QED
    BY <1>0, <2>1, <2>2, <2>3, Restored DEF GoesBack
<1> QED
  BY <1>2, <1>3 DEF U!HandleRollback

LEMMA CorrectionStep ==
    ASSUME CommandsInv, NEW rule \in Rules,
           U!HandleFixrule(rule) \/ U!HandleFair(rule)
    PROVE  CommandsInv' /\ GoesBack
<1>1. PICK command \in {"fixrule", "fair"} : U!AddCorrection(command, rule)
  BY DEF U!HandleFixrule, U!HandleFair
<1>2. /\ corrections' = corrections \cup {[rule |-> rule]}
      /\ U!MaybeCaptureSnapshot(committed, corrections')
      /\ said'.command = command /\ UNCHANGED <<alive, committed, replay>>
  BY <1>1 DEF U!AddCorrection
<1>3. corrections' \subseteq U!Corrections
  <2>1. [rule |-> rule] \in U!Corrections
    BY DEF U!Corrections
  <2> QED
    BY <1>2, <2>1 DEF CommandsInv
<1>4. alive' \in BOOLEAN
  BY <1>2, Zenon DEF CommandsInv
<1>5. CommandsInv'
  BY <1>2, <1>3, <1>4, SameTurns, Zenon DEF CommandsInv
<1> QED
  BY <1>2, <1>5, SameTurns DEF GoesBack

LEMMA RetconStep ==
    ASSUME CommandsInv, NEW input \in Inputs,
           U!RetconRestores(input)
    PROVE  CommandsInv' /\ GoesBack
<1> DEFINE t == U!SnapshotAtOrBefore(U!TargetOfUndo)
           preserved == corrections \cup {[disputed |-> Len(committed)]}
<1>0. Len(committed) \in Nat /\ Len(committed) <= CommandTurns
  BY LenProperties DEF CommandsInv
<1>1. /\ t \in U!Turns /\ t < Len(committed) /\ t \in 0..Len(committed)
      /\ snapshots[t].world = SubSeq(committed, 1, t)
      /\ U!RestoreSnapshotInPlace(t, preserved)
  <2>1. /\ U!TargetOfUndo \in Int /\ U!TargetOfUndo < Len(committed)
        /\ U!SnapshotsAtOrBefore(U!TargetOfUndo) # {}
        /\ U!RestoreSnapshotInPlace(t, preserved)
    BY <1>0 DEF U!RetconRestores, U!TargetOfUndo, U!CommittedTurn
  <2> QED
    BY <2>1, NewestSnapshot
<1>2. /\ UNCHANGED alive /\ said' = U!None
      /\ replay' = [input |-> input, replaced |-> Len(committed)]
  BY DEF U!RetconRestores, U!CommittedTurn
<1>3. alive' \in BOOLEAN
  BY <1>2, Zenon DEF CommandsInv
<1>4. Len(committed) \in U!Turns
  BY <1>0 DEF U!Turns
<1>5. preserved \subseteq U!Corrections /\ corrections \subseteq preserved
  BY <1>4 DEF CommandsInv, U!Corrections, U!Disputes
<1>6. replay' \in [input : Inputs, replaced : U!Turns]
  BY <1>2, <1>4
<1> HIDE DEF t, preserved
<1>7. CommandsInv'
  BY <1>1, <1>3, <1>5, <1>6, Restored, Zenon DEF CommandsInv
<1> QED
  BY <1>1, <1>2, <1>5, <1>7, Restored DEF GoesBack

LEMMA ReplayStep ==
    ASSUME CommandsInv, U!RetconReplays \/ U!RetconFails
    PROVE  CommandsInv' /\ GoesBack
<1>0. /\ replay # U!None /\ replay' = U!None /\ UNCHANGED <<alive, corrections>>
      /\ Len(committed) < CommandTurns
  BY DEF U!RetconReplays, U!RetconFails, CommandsInv
<1>1. alive' \in BOOLEAN
  BY <1>0, Zenon DEF CommandsInv
<1>2. CASE U!RetconReplays
  <2>1. /\ committed' = Append(committed, replay.input)
        /\ U!MaybeCaptureSnapshot(committed', corrections)
        /\ said'.command = "retcon"
    BY <1>2 DEF U!RetconReplays
  <2>2. replay.input \in Turn
    BY <1>0 DEF CommandsInv, Turn
  <2>3. CommandsInv'
    BY <1>0, <1>1, <2>1, <2>2, OneMoreTurn, Zenon DEF CommandsInv
  <2> QED
    BY <1>0, <2>1, <2>2, <2>3, OneMoreTurn DEF GoesBack
<1>3. CASE U!RetconFails
  <2>1. /\ committed' = committed \/ committed' = Append(committed, U!Failed)
        /\ UNCHANGED <<snapshots, said>>
    BY <1>3 DEF U!RetconFails
  <2>2. /\ U!MaybeCaptureSnapshot(committed, corrections)
        /\ U!MaybeCaptureSnapshot(committed', corrections)
    BY <2>1 DEF U!MaybeCaptureSnapshot
  <2>3. CASE committed' = committed
    <3>1. CommandsInv'
      BY <1>0, <1>1, <2>2, <2>3, SameTurns, Zenon DEF CommandsInv
    <3> QED
      BY <1>0, <2>1, <2>2, <2>3, <3>1, SameTurns DEF GoesBack
  <2>4. CASE committed' = Append(committed, U!Failed)
    <3>1. U!Failed \in Turn
      BY DEF Turn
    <3>2. CommandsInv'
      BY <1>0, <1>1, <2>2, <2>4, <3>1, OneMoreTurn, Zenon DEF CommandsInv
    <3> QED
      BY <1>0, <2>1, <2>2, <2>4, <3>1, <3>2, OneMoreTurn DEF GoesBack
  <2> QED
    BY <2>1, <2>3, <2>4
<1> QED
  BY <1>2, <1>3

LEMMA WhyStep ==
    ASSUME CommandsInv, U!HandleWhy
    PROVE  CommandsInv' /\ GoesBack
<1>1. /\ UNCHANGED <<alive, committed, corrections, snapshots, replay>>
      /\ said'.command = "why" /\ U!MaybeCaptureSnapshot(committed, corrections)
  BY DEF U!HandleWhy, U!MaybeCaptureSnapshot
<1>2. alive' \in BOOLEAN
  BY <1>1, Zenon DEF CommandsInv
<1>3. CommandsInv'
  BY <1>1, <1>2, SameTurns, Zenon DEF CommandsInv
<1> QED
  BY <1>1, <1>3, SameTurns DEF GoesBack

LEMMA CommandsStep ==
    ASSUME CommandsInv, [U!Next]_(U!vars)
    PROVE  CommandsInv' /\ [GoesBack]_(U!vars)
<1>1. CASE UNCHANGED U!vars
  <2>1. /\ UNCHANGED <<alive, committed, corrections, snapshots, replay, said>>
        /\ U!MaybeCaptureSnapshot(committed, corrections)
    BY <1>1 DEF U!vars, U!MaybeCaptureSnapshot
  <2>2. alive' \in BOOLEAN
    BY <2>1, Zenon DEF CommandsInv
  <2> QED
    BY <1>1, <2>1, <2>2, SameTurns, Zenon DEF CommandsInv
<1> QED
  BY <1>1, RunTurnStep, SnapshotStep, UndoStep, RollbackStep, CorrectionStep,
     RetconStep, ReplayStep, WhyStep DEF U!Next

LEMMA CommandTypes == ASSUME CommandsInv PROVE U!TypeOK
<1>1. Len(committed) \in U!Turns
  BY LenProperties DEF CommandsInv, U!Turns
<1>2. ASSUME NEW t \in U!Turns, snapshots[t] # U!None
      PROVE  Len(snapshots[t].world) = t
  <2>1. t \in 0..Len(committed) /\ snapshots[t].world = SubSeq(committed, 1, t)
    BY <1>1, <1>2 DEF CommandsInv, SnapshotsAreOfThePast, U!Turns
  <2> QED
    BY <2>1, FirstTurns DEF CommandsInv
<1> QED
  BY <1>1, <1>2, Zenon DEF CommandsInv, U!TypeOK, Turn

\* However turns, snapshots, rules and commands follow each other, and where a
\* retcon breaks off: a step adds one turn or goes back to where the session
\* once was, as far as the command reports, and no correction is lost
\* (handle_undo, handle_rollback, _handle_retcon, restore_snapshot_in_place).
THEOREM CommandsCorrect == U!Spec => CommandsGoBack
<1>1. U!Init => CommandsInv
  BY InitCommands
<1>2. CommandsInv /\ [U!Next]_(U!vars) => CommandsInv' /\ [GoesBack]_(U!vars)
  BY CommandsStep
<1> QED
  BY <1>1, <1>2, PTL DEF U!Spec, CommandsGoBack, U!CommandsGoBack, GoesBack

\* The graph's variables keep their types beside those of the commands: no
\* link ends before it begins, which ck_links_valid_turn_window would abort
\* the turn for, and a snapshot is as long as the turn it is named for.
THEOREM TypesCorrect == Spec /\ U!Spec => []AllTypesOK
<1>1. U!Init => CommandsInv
  BY InitCommands
<1>2. CommandsInv /\ [U!Next]_(U!vars) => CommandsInv'
  BY CommandsStep
<1>3. TypeOK /\ CommandsInv => AllTypesOK
  BY CommandTypes DEF AllTypesOK
<1> QED
  BY <1>1, <1>2, <1>3, TypeCorrect, PTL DEF U!Spec
=============================================================================

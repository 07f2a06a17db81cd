------------------------------- MODULE Economy -------------------------------
(***************************************************************************)
(* The economic operations that are read off a turn once it is applied     *)
(* (derive_turn_operations, economy_services.py): from links of items that *)
(* were carried, from patches of an object's cash, stock and staff, and    *)
(* from the events the narrator told, in three passes.                     *)
(*                                                                         *)
(* Patches are compared with the state before the turn, however many there *)
(* are; cash that is spent is matched with the obligations it could have   *)
(* settled.  An operation that looks like an earlier one of the turn is    *)
(* left out, and the obligation it settles is no part of its looks.        *)
(* What the operations do to the state is decided in domain/, which is not *)
(* in src/.  Amounts are whole numbers, and an obligation has one.         *)
(***************************************************************************)
EXTENDS Integers, Sequences, FiniteSets, Functions

CONSTANTS Entities, Nobody,
          Items,
          Bases,   \* states before the turn: cash, stock, staff, owners, obligations
          Patches, \* patches of objects: None where a value is not patched
          Told,    \* semantic events
          MaxActs  \* bound on what happens in the turn

VARIABLES base,    \* the state before the turn
          carried, \* who carries an item: the links a SELECT finds, and the ones
                   \* closed and added since the last flush
          ops,     \* the operations that were applied
          events,  \* the events that were told
          pass,    \* what derive_turn_operations is reading
          at,      \* index of the operation or event it reads
          givers,  \* pending_previous_holders
          todo,    \* what a patch changed that is not recorded yet
          owed,    \* obligations that its cash may still settle
          left,    \* what is left of that cash
          ledger   \* the operations derived so far

turnVars == <<base, carried, ops, events>>
readVars == <<pass, at, givers, todo, owed, left, ledger>>
vars == <<turnVars, readVars>>

None == -1

Supported ==
    {"buy", "sell", "transfer", "loan", "repay", "hire", "fire", "pay_wage",
     "charge_rent", "restock", "craft", "collect_tax", "distribute_profit"}
-----------------------------------------------------------------------------
(***************************************************************************)
(* The operations.                                                         *)
(***************************************************************************)

Operation(type, actor, to, business, asset, amount, quantity) ==
    [type |-> type, actor |-> actor, to |-> to, business |-> business,
     asset |-> asset, amount |-> amount, quantity |-> quantity]

\* An operation with where it was read; an obligation it settles.
Entry(operation, source, obligation) ==
    [looks |-> operation, source |-> source, obligation |-> obligation]

Recorded(operation) == \E n \in DOMAIN ledger : ledger[n].looks = operation

\* Mutant: what looks like an earlier operation is another one.
AppendAlways(entry) == ledger' = Append(ledger, entry)

\* _append_operation
AppendOperation(entry) ==
    ledger' = IF Recorded(entry.looks) THEN ledger ELSE Append(ledger, entry)
-----------------------------------------------------------------------------
(***************************************************************************)
(* What a patch of an object says, compared with the state before.         *)
(***************************************************************************)

Updates == {i \in DOMAIN ops : ops[i].op = "object.update"}
Update(i) == ops[i].update

Cash(u) == IF u.cash = None THEN 0 ELSE u.cash - base.cash[u.object]
Stock(u) == IF u.stock = None THEN 0 ELSE u.stock - base.stock[u.object]
Size(n) == IF n < 0 THEN -n ELSE n

\* _matching_obligations, by due date, larger ones first; debts before wages
\* before shares.
Rank == [debt |-> 1, wage |-> 2, profit_share |-> 3, tax |-> 1]

Before(a, b) ==
    \/ Rank[a.type] < Rank[b.type]
    \/ /\ Rank[a.type] = Rank[b.type]
       /\ \/ a.due < b.due
          \/ a.due = b.due /\ a.amount > b.amount
          \/ a.due = b.due /\ a.amount = b.amount /\ a.key < b.key

Foremost(obligations) ==
    {o \in obligations : \A p \in obligations : ~Before(p, o)}

\* Cash that leaves pays debts first, then wages, then shares; cash that comes
\* in was taxes.
Concerned(u) ==
    {o \in base.obligations :
        \/ Cash(u) < 0 /\ o.type \in {"debt", "wage", "profit_share"} /\ o.debtor = u.object
        \/ Cash(u) > 0 /\ o.type = "tax" /\ o.creditor = u.object}

Settlement(o) ==
    CASE o.type = "tax" ->
            Operation("collect_tax", o.creditor, o.debtor, Nobody, "none", o.amount, 0)
      [] o.type = "debt" ->
            Operation("repay", o.debtor, o.creditor, Nobody, "none", o.amount, 0)
      [] o.type = "wage" ->
            Operation("pay_wage", o.debtor, o.creditor, o.debtor, "none", o.amount, 0)
      [] o.type = "profit_share" ->
            Operation("distribute_profit", o.debtor, o.creditor, o.debtor, "none", o.amount, 0)

\* What a new employee is owed already.
Wage(object, e) ==
    LET wages == {o \in base.obligations :
                     o.type = "wage" /\ o.debtor = object /\ o.creditor = e}
    IN  IF wages = {} THEN 0 ELSE (CHOOSE o \in Foremost(wages) : TRUE).amount

Hire(object, e) == Operation("hire", object, e, object, "none", Wage(object, e), 0)
Fire(object, e) == Operation("fire", object, e, object, "none", 0, 0)

Came(u) == UNION {staff \ base.staff[u.object] : staff \in u.staff}
Went(u) == UNION {base.staff[u.object] \ staff : staff \in u.staff}

\* restock and sell
Trade(u) ==
    CASE Cash(u) < 0 /\ Stock(u) > 0 ->
            {Operation("restock", u.object, Nobody, u.object, "stock", -Cash(u), Stock(u))}
      [] Cash(u) > 0 /\ Stock(u) < 0 ->
            {Operation("sell", u.object, Nobody, Nobody, "stock", Cash(u), -Stock(u))}
      [] OTHER -> {}

Changes(u) ==
    {Hire(u.object, e) : e \in Came(u)} \cup {Fire(u.object, e) : e \in Went(u)}
        \cup Trade(u)
-----------------------------------------------------------------------------
Init ==
    /\ base \in Bases
    /\ carried = [x \in Items |->
                     [found |-> {base.owner[x]} \ {Nobody}, closed |-> {}, added |-> {}]]
    /\ ops = <<>> /\ events = <<>>
    /\ pass = "turn"
    /\ at = 1
    /\ givers = [x \in Items |-> Nobody]
    /\ todo = {} /\ owed = {} /\ left = 0
    /\ ledger = <<>>

Happens == pass = "turn" /\ Len(ops) + Len(events) < MaxActs

\* Closed links are logged one by one, in the order they were created in, which
\* within a transaction is any order.
Closes(x, holders) ==
    IF holders = {} THEN <<>>
    ELSE <<[op |-> "link.close", item |-> x, holders |-> holders]>>
Creates(x, holders) ==
    IF holders = {} THEN <<>>
    ELSE <<[op |-> "link.create", item |-> x, holder |-> CHOOSE e \in holders : TRUE]>>

\* An item changes hands: the links of all others are closed.  Neither a link
\* that the batch has added nor that it has closed one is seen before a flush; a
\* link that is there is not created, and two new ones of an edge fail the batch.
HandOver(x, e) ==
    /\ Happens
    /\ e \notin carried[x].added
    /\ LET others == carried[x].found \ {e}
           new == {e} \ carried[x].found
       IN  /\ ops' = ops \o Closes(x, others) \o Creates(x, new)
           /\ carried' = [carried EXCEPT ![x].closed = @ \cup others,
                                         ![x].added = @ \cup new]
    /\ UNCHANGED <<base, events, readVars>>

PutDown(x, e) ==
    /\ Happens
    /\ e \in carried[x].found
    /\ ops' = ops \o Closes(x, {e})
    /\ carried' = [carried EXCEPT ![x].closed = @ \cup {e}]
    /\ UNCHANGED <<base, events, readVars>>

AfterFlush(c) ==
    [found |-> (c.found \ c.closed) \cup c.added, closed |-> {}, added |-> {}]

\* The creation of an object flushes.
CreateObject ==
    /\ Happens
    /\ ops' = Append(ops, [op |-> "object.create"])
    /\ carried' = [x \in Items |-> AfterFlush(carried[x])]
    /\ UNCHANGED <<base, events, readVars>>

Patch(u) ==
    /\ Happens
    /\ ops' = Append(ops, [op |-> "object.update", update |-> u])
    /\ UNCHANGED <<base, carried, events, readVars>>

\* An event is told, or created by an operation of the patch.
Tell(e) ==
    /\ Happens
    /\ \/ events' = Append(events, e) /\ UNCHANGED ops
       \/ ops' = Append(ops, [op |-> "event.create", event |-> e]) /\ UNCHANGED events
    /\ UNCHANGED <<base, carried, readVars>>
-----------------------------------------------------------------------------
(***************************************************************************)
(* derive_turn_operations                                                  *)
(***************************************************************************)

NextPass(from, upTo, next) ==
    /\ pass = from /\ at > upTo
    /\ pass' = next
    /\ at' = 1
    /\ UNCHANGED <<turnVars, givers, todo, owed, left, ledger>>

BeginDerivation ==
    /\ pass = "turn"
    /\ pass' = "links"
    /\ UNCHANGED <<turnVars, at, givers, todo, owed, left, ledger>>

Reads(name) ==
    /\ at <= Len(ops)
    /\ ops[at].op = name

\* The first pass: links.  Who carried an item is who was last closed, or its
\* owner before the turn.
ReadClosedLink ==
    /\ pass = "links" /\ Reads("link.close")
    /\ \E last \in ops[at].holders : givers' = [givers EXCEPT ![ops[at].item] = last]
    /\ at' = at + 1
    /\ UNCHANGED <<turnVars, pass, todo, owed, left, ledger>>

Giver(x) == IF givers[x] # Nobody THEN givers[x] ELSE base.owner[x]

Transfer(x, from, to) == Operation("transfer", from, to, Nobody, x, 0, 1)

ReadCreatedLink ==
    /\ pass = "links" /\ Reads("link.create")
    /\ LET x == ops[at].item
       IN  /\ AppendOperation(Entry(Transfer(x, Giver(x), ops[at].holder), at, None))
           /\ givers' = [givers EXCEPT ![x] = Nobody]
    /\ at' = at + 1
    /\ UNCHANGED <<turnVars, pass, todo, owed, left>>

SkipOther ==
    /\ \/ Reads("object.create") /\ pass \in {"links", "changes"}
       \/ pass = "links" /\ (Reads("event.create") \/ Reads("object.update"))
       \/ pass = "changes" /\ (Reads("link.close") \/ Reads("link.create"))
    /\ at' = at + 1
    /\ UNCHANGED <<turnVars, pass, givers, todo, owed, left, ledger>>

\* _normalize_operation_payload: an operation that an event carries as it is.
Structured(e) ==
    Operation(e.type, e.source, e.target, e.business, e.item, e.amount, e.quantity)

\* The second pass: events that were created, and patches, each against the
\* state before the turn.
ReadCreatedEvent ==
    /\ pass = "changes" /\ Reads("event.create")
    /\ IF ops[at].event.type \in Supported
       THEN AppendOperation(Entry(Structured(ops[at].event), at, None))
       ELSE UNCHANGED ledger
    /\ at' = at + 1
    /\ UNCHANGED <<turnVars, pass, givers, todo, owed, left>>

ReadUpdate ==
    /\ pass = "changes" /\ Reads("object.update")
    /\ todo' = Changes(Update(at))
    /\ owed' = Concerned(Update(at))
    /\ left' = Size(Cash(Update(at)))
    /\ pass' = "update"
    /\ UNCHANGED <<turnVars, at, givers, ledger>>

\* Staff and trade; no two of them look alike.
Record(operation) ==
    /\ pass = "update"
    /\ operation \in todo
    /\ AppendOperation(Entry(operation, at, None))
    /\ todo' = todo \ {operation}
    /\ UNCHANGED <<turnVars, pass, at, givers, owed, left>>

\* Mutant: what is owed is settled by whatever is left.
Affords(o) == left > 0
\* What is too large for what is left is passed over, and the next one tried.
Payable(o) == o.amount > 0 /\ left > 0 /\ o.amount <= left

Settle(o) ==
    /\ pass = "update" /\ todo = {}
    /\ o \in Foremost(owed)
    /\ owed' = owed \ {o}
    /\ IF Payable(o)
       THEN /\ left' = left - o.amount
            /\ AppendOperation(Entry(Settlement(o), at, o.key))
       ELSE UNCHANGED <<left, ledger>>
    /\ UNCHANGED <<turnVars, pass, at, givers, todo>>

EndUpdate ==
    /\ pass = "update" /\ todo = {} /\ owed = {}
    /\ pass' = "changes"
    /\ at' = at + 1
    /\ UNCHANGED <<turnVars, givers, todo, owed, left, ledger>>

\* The last one: events.  A promise of an item counts as handing it over.
OperationTold(e) ==
    CASE e.type = "debt" ->
            {Operation("loan", e.source, e.target, Nobody, e.item, e.amount, e.quantity)}
      [] e.type \in {"gift", "item_transfer", "promise"} ->
            IF e.item = "none" THEN {}
            ELSE {Operation("transfer", e.source, e.target, Nobody, e.item,
                            e.amount, e.quantity)}
      [] OTHER -> IF e.type \in Supported THEN {Structured(e)} ELSE {}

ReadEvent ==
    /\ pass = "events" /\ at <= Len(events)
    /\ IF OperationTold(events[at]) = {} THEN UNCHANGED ledger
       ELSE \E operation \in OperationTold(events[at]) :
                AppendOperation(Entry(operation, None, None))
    /\ at' = at + 1
    /\ UNCHANGED <<turnVars, pass, givers, todo, owed, left>>

Next ==
    \/ \E x \in Items, e \in Entities : PutDown(x, e) \/ HandOver(x, e)
    \/ CreateObject
    \/ \E u \in Patches : Patch(u)
    \/ \E e \in Told : Tell(e)
    \/ BeginDerivation
    \/ ReadClosedLink \/ ReadCreatedLink \/ SkipOther
    \/ NextPass("links", Len(ops), "changes")
    \/ ReadCreatedEvent \/ ReadUpdate
    \/ (\E operation \in todo : Record(operation))
    \/ (\E o \in owed : Settle(o))
    \/ EndUpdate
    \/ NextPass("changes", Len(ops), "events")
    \/ ReadEvent
    \/ NextPass("events", Len(events), "derived")

Spec == Init /\ [][Next]_vars
-----------------------------------------------------------------------------
LedgerOf(i) == {ledger[n] : n \in {m \in DOMAIN ledger : ledger[m].source = i}}
Settled(i) == {o \in base.obligations : \E p \in LedgerOf(i) : p.obligation = o.key}

AmountOf(obligations) ==
    SumFunctionOnSet([o \in base.obligations |-> o.amount], obligations)

NothingIsRecordedTwice ==
    \A m, n \in DOMAIN ledger : ledger[m].looks = ledger[n].looks => m = n

\* A patch settles no more than it spends or takes in, and nothing that another
\* one has settled; what it leaves open, unless an operation that looks like it
\* is recorded, could not be paid of what those before it had left.
SettlementsAreCovered ==
    \A i \in Updates :
        LET u == Update(i)
            covered == {o \in Concerned(u) : o.amount > 0 /\ Recorded(Settlement(o))}
        IN  /\ Settled(i) \subseteq covered
            /\ AmountOf(Settled(i)) <= Size(Cash(u))
            /\ \A j \in Updates \ {i} : Settled(i) \cap Settled(j) = {}
            /\ \A o \in Concerned(u) \ covered : o.amount > 0 =>
                  o.amount > Size(Cash(u)) - AmountOf({p \in covered : Before(p, o)})

Made(x) == {i \in DOMAIN ops : ops[i].op = "link.create" /\ ops[i].item = x}
Holders(indices) == {ops[i].holder : i \in indices}

\* A flush lies between the two operations.
Flushes(j, i) == \E k \in j..i : ops[k].op = "object.create"

\* Of those who got the item before the last flush that i can see, the last.
GotLast(x, i) ==
    LET before == {j \in Made(x) : j < i /\ Flushes(j, i)}
    IN  {j \in before : \A k \in before : ~Flushes(j, k)}

\* Who may have given the item: its owner before the turn, or whoever got it last
\* before the batch of operation i.  A second gift of a batch may again be the
\* first owner's.
MayGive(x, i) ==
    (IF GotLast(x, i) = {} \/ \E j \in Made(x) : j < i /\ ~Flushes(j, i)
     THEN {base.owner[x]} ELSE {})
    \cup Holders(GotLast(x, i))

\* Whoever gave an item had got it last, whoever put it down in between, as far as
\* the operations of a batch see each other; and whoever carries it after the turn
\* has it of somebody.
TransfersFollowItems ==
    \A x \in Items :
        /\ \A i \in Made(x) : \E giver \in MayGive(x, i) :
              Recorded(Transfer(x, giver, ops[i].holder))
        /\ \A e \in AfterFlush(carried[x]).found \ {base.owner[x]} :
              \E n \in DOMAIN ledger :
                  /\ ledger[n].looks.type = "transfer" /\ ledger[n].looks.asset = x
                  /\ ledger[n].looks.to = e

\* Whoever came or went is recorded, and by a patch nobody else.
StaffIsAccountedFor ==
    \A i \in Updates :
        LET u == Update(i)
            named(type) == {p.looks.to : p \in {q \in LedgerOf(i) : q.looks.type = type}}
        IN  /\ \A e \in Came(u) : Recorded(Hire(u.object, e))
            /\ \A e \in Went(u) : Recorded(Fire(u.object, e))
            /\ named("hire") \subseteq Came(u) /\ named("fire") \subseteq Went(u)

\* However the operations of a turn are told, in links, patches and events,
\* the ledger made of them is sound.
LedgerIsSound ==
    pass = "derived" =>
        /\ NothingIsRecordedTwice
        /\ SettlementsAreCovered /\ TransfersFollowItems /\ StaffIsAccountedFor
=============================================================================

--------------------------- MODULE MCCallbackMemory ---------------------------
(***************************************************************************)
(* Small instances of what a session keeps beside the graph: callbacks and *)
(* entity memories; windows of consequences; the cache of synthesized      *)
(* profiles; the ledger of a turn's economy.  The parts share no state:    *)
(* the variable part, one of Parts, says which of them a behaviour is      *)
(* about.  A behaviour about callbacks tells one of the Stories: a sword   *)
(* passes between the player and an NPC, they ally, which either end can   *)
(* tell, or both things happen to the player.  A longer turn of the        *)
(* economy is about who carries the sword alone.                           *)
(***************************************************************************)
EXTENDS SessionRecords, TLC

CONSTANTS sword, player, npc, swordOfPlayer, swordOfNpc, alliance, allianceBack,
          Parts

MCObjects == {sword, player, npc}
MCFacts == {swordOfPlayer, swordOfNpc, alliance, allianceBack}
MCDerived == MCFacts \ {swordOfNpc}
MCHidden == {allianceBack}
MCLists == [pinned_facts |-> {alliance, swordOfPlayer},
            relationship_facts |-> {alliance, allianceBack}]
MCAnchors == [f \in MCFacts |->
    CASE f = swordOfPlayer -> {sword, player}
      [] f = swordOfNpc -> {sword, npc}
      [] OTHER -> {npc, player}]
MCGrounds == [f \in MCFacts |->
    IF f \in {alliance, allianceBack} THEN {alliance, allianceBack} ELSE {f}]
MCRivals == [f \in MCFacts |->
    CASE f = swordOfPlayer -> {swordOfNpc}
      [] f = swordOfNpc -> {swordOfPlayer}
      [] OTHER -> {}]

\* Room for one: the sword first, or the alliance.
MCCut(first) ==
    [set \in SUBSET MCFacts |->
        IF Cardinality(set) <= 1 THEN set
        ELSE IF first \in set THEN {first} ELSE {CHOOSE f \in set : TRUE}]
MCCuts == {MCCut(f) : f \in {swordOfPlayer, alliance}}

MCStories == [sword |-> {swordOfPlayer, swordOfNpc},
              alliance |-> {alliance, allianceBack},
              player |-> {swordOfPlayer, alliance}]

VARIABLE part

MCReaders == {sword, npc}

\* The shop owes a debt, a wage and either a larger debt or one like the first,
\* and is owed a tax.
Owes(key, type, debtor, creditor, amount, due) ==
    [key |-> key, type |-> type, debtor |-> debtor, creditor |-> creditor,
     amount |-> amount, due |-> due]

Before(more) ==
    [cash |-> [e \in {"shop"} |-> 3], stock |-> [e \in {"shop"} |-> 1],
     staff |-> [e \in {"shop"} |-> {"npc"}],
     owner |-> [x \in {"sword"} |-> "shop"],
     obligations |-> {Owes(1, "debt", "shop", "player", 2, 2),
                      Owes(2, "wage", "shop", "npc", 1, 1),
                      Owes(3, "tax", "npc", "shop", 1, 1), more}]

PatchTo(cash, stock, staff) ==
    [object |-> "shop", cash |-> cash, stock |-> stock, staff |-> staff]

Event(type, from, to, item, amount, quantity) ==
    [type |-> type, source |-> from, target |-> to, business |-> Nobody,
     item |-> item, amount |-> amount, quantity |-> quantity]

MCBases == {Before(Owes(4, "debt", "shop", "npc", 3, 1)),
            Before(Owes(5, "debt", "shop", "player", 2, 3))}
MCPatches == {PatchTo(0, -1, {}), PatchTo(1, 2, {{"player"}}),
              PatchTo(5, 0, {}), PatchTo(4, -1, {{}}), PatchTo(2, -1, {})}

\* The last one looks like a settlement.
MCTold == {Event("gift", "player", "npc", "sword", 0, 1),
           Event("promise", "player", "npc", "none", 0, 0),
           Event("debt", "player", "npc", "none", 2, 0),
           Event("repay", "shop", "player", "none", 2, 0)}

MCVars == <<vars, part, windowVars, cacheVars, economyVars>>

MCInit ==
    /\ part \in Parts
    /\ Init /\ Q!Init /\ C!Init /\ E!Init
    /\ part # "cache" => redisUp
    /\ part # "economy" => \A o \in base.obligations : o.key # 5

MCNext ==
    /\ UNCHANGED part
    /\ \/ /\ part \in DOMAIN MCStories
          /\ Next
          /\ \A f \in links' \cup UNION {log'[n].stated : n \in Turns} : f \in MCStories[part]
          /\ UNCHANGED <<windowVars, cacheVars, economyVars>>
       \/ /\ part \in {"windows", "signals"}
          /\ Q!Next
          /\ UNCHANGED IF part = "windows" THEN <<world, signals>> ELSE <<windows>>
          /\ UNCHANGED <<vars, cacheVars, economyVars>>
       \/ part = "cache" /\ C!Next /\ UNCHANGED <<vars, windowVars, economyVars>>
       \/ /\ part \in {"economy", "items"}
          /\ E!Next
          /\ IF part = "economy" THEN Len(ops') + Len(events') <= 3
             ELSE /\ events' = <<>>
                  /\ \A i \in DOMAIN ops' :
                        ops'[i].op \in {"link.close", "link.create", "object.create"}
          /\ UNCHANGED <<vars, windowVars, cacheVars>>

MCSpec == MCInit /\ [][MCNext]_MCVars
=============================================================================

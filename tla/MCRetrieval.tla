------------------------------ MODULE MCRetrieval ------------------------------
(***************************************************************************)
(* Small instances of the search index, of the patches whose objects are   *)
(* looked for in it, of the prompt that is made from what is found, and of *)
(* the texts that are kept for it.  They share no state here: the variable *)
(* part says which a behaviour is about.                                   *)
(***************************************************************************)
EXTENDS Retrieval, TLC

VARIABLE part

Memory(id, seen, similarity) ==
    [source |-> id, field |-> "relevant_memories", category |-> "relevant_memory",
     class |-> "none", seen |-> seen, priority |-> "med",
     similarity |-> similarity, importance |-> 60, weight |-> -1,
     anchored |-> FALSE, turn |-> 1, status |-> "active"]

Link(id, category, status) ==
    [source |-> id, field |-> "relevant_links", category |-> category,
     class |-> "none", seen |-> 0, priority |-> "none",
     similarity |-> 20, importance |-> -1, weight |-> 45,
     anchored |-> TRUE, turn |-> 1, status |-> status]

Strings(world, state, constitution) ==
    [world_prompt |-> world, state_summary |-> state, constitution |-> constitution]

MCOthers == {Memory(10, 3, 60), Memory(11, 1, 30),
             Link(12, "one_hop_link", "active"),
             Link(13, "relevant_link", "stale")}
MCFixes == {Strings(0, 0, 0), Strings(2, 1, 3)}

\* An NPC, an item and the player, all described alike.
Object(sort, brief, here, status) ==
    [sort |-> sort, brief |-> brief, here |-> here, desc |-> "d1",
     fact |-> "nothing", status |-> status]

ObjectIds == {"o1", "o2", "o3", "o4", "o5", "o6", "o7"}
Objects(npc) ==
    [o \in ObjectIds |-> CASE o = "o1" -> npc
                           [] o = "o2" -> Object("item", FALSE, FALSE, "active")
                           [] o = "o3" -> Object("player", FALSE, TRUE, "active")
                           [] OTHER -> [sort |-> "none"]]
Dead == Objects(Object("npc", TRUE, TRUE, "inactive"))

Create(ref, sort, brief, unique, fact) ==
    [op |-> "create", ref |-> ref, sort |-> sort, brief |-> brief,
     unique |-> unique, desc |-> "d1", fact |-> fact]
Update(target, desc, fact, status) ==
    [op |-> "update", target |-> target,
     values |-> [desc |-> desc, fact |-> fact, status |-> status]]

Guard(ref) == Create(ref, "npc", FALSE, FALSE, "f1")
Passer == Create("r2", "npc", TRUE, FALSE, "nothing")
Sword == Create("r2", "item", FALSE, FALSE, "nothing")
OwnSword == Create("r1", "item", FALSE, TRUE, "nothing")
Learns(o) == Update(o, "keep", "f1", "keep")
Dies == Update("o1", "keep", "nothing", "inactive")
Reworded == Update("o2", "d2", "f1", "keep")
RewordedRef == Update("r1", "d2", "keep", "keep")

MCPopulation ==
    {Dead} \cup
    {Objects(Object("npc", b, h, "active")) : b, h \in BOOLEAN} \cup
    {Objects(Object("npc", b, TRUE, "offstage")) : b \in BOOLEAN}

MCPatches == {
    <<Guard("r1"), RewordedRef>>, <<Guard("r1"), Sword>>,
    <<Guard("r1"), Passer>>, <<Guard("r1"), Dies>>,
    <<Guard("r1"), Guard("r2"), Guard("r3")>>, <<OwnSword, Guard("r3"), Sword>>,
    <<Learns("o1"), Guard("r1")>>, <<Dies, Guard("r1")>>,
    <<Dies, Passer>>, <<Passer, Learns("o1")>>, <<Passer, Passer>>,
    <<Reworded, Sword>>, <<Sword, Reworded>>, <<OwnSword, Sword>>,
    <<Learns("o3"), Learns("o1")>>, <<Learns("o1"), Dies>>,
    <<RewordedRef, Guard("r1")>>}

MCArrivals == {[Object("npc", FALSE, FALSE, "active") EXCEPT !.fact = "f1"]}

MCVars == <<vars, part, promptVars, textVars, objectVars>>

NoPack ==
    /\ pass = "start" /\ step = 1 /\ room = 0 /\ overflow = 0
    /\ pack = NoBatch /\ fixed = NoBatch /\ chosen = {} /\ rest = {}

\* Field by field all turns are told in short, whatever they cost in full.
OneCost == \A t \in Turns \ Directors : pack.cost[<<t, "full">>] = pack.cost[<<t, "compact">>]

MCInit ==
    /\ Init
    /\ part \in {"index", "prompt", "texts", "patches"}
    /\ source.profile.words = source.profile.facts
    /\ part # "index" => source.chronicle = [snippet |-> NoText,
                                             prose |-> source.profile.words]
    /\ IF part = "prompt" THEN B!Init /\ (pack.mode # "unified" => OneCost) ELSE NoPack
    /\ T!Init /\ (part # "texts" => prompt = "p1")
    /\ O!Init /\ (part # "patches" => objects = Dead)

MCNext ==
    /\ UNCHANGED part
    /\ \/ part = "index" /\ Next /\ UNCHANGED <<promptVars, textVars, objectVars>>
       \/ part = "prompt" /\ B!Next /\ UNCHANGED <<vars, textVars, objectVars>>
       \/ part = "texts" /\ T!Next /\ UNCHANGED <<vars, promptVars, objectVars>>
       \/ part = "patches" /\ O!Next /\ UNCHANGED <<vars, promptVars, textVars>>

MCSpec == MCInit /\ [][MCNext]_MCVars

Symmetry == Permutations(Texts)
================================================================================

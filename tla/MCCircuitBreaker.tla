--------------------------- MODULE MCCircuitBreaker ---------------------------
(***************************************************************************)
(* Small instances, for TLC, of the parts that live in one server process: *)
(* the circuit breaker of a provider, the planning of one turn with its    *)
(* model calls, the background threads.                                    *)
(* They share no state: the variable part, which Init chooses, says which  *)
(* of them a behaviour is about.                                           *)
(***************************************************************************)
EXTENDS ServerProcess

CONSTANTS t1, t2, t3

ThreeThreads == {t1, t2, t3}

TwoThreads == {t1, t2}

VARIABLE part

Raw(kind, ref, refs, tag, name) ==
    [op |-> kind, ref |-> ref, refs |-> refs, tag |-> tag, name |-> name]

RawOps == {
    Raw("object.create", "tb", <<>>, "", "lamp"),
    Raw("object.create", "", <<>>, "", "door"),
    Raw("object.create", "", <<>>, "", ""),
    Raw("npc.update", "", <<"npc">>, "death", ""),
    Raw("object.update", "", <<"quest">>, "status_active", ""),
    Raw("link.create", "", <<"player", "quest">>, "tracking_quest", ""),
    Raw("link.create", "", <<"npc", "tb">>, "knows", ""),
    Raw("link.delete", "", <<"npc", "tb">>, "knows", ""),
    Raw("player.move", "", <<"inn">>, "", ""),
    Raw("event.create", "", <<>>, "death", "npc"),
    Raw("npc.update", "", <<"tb">>, "death", ""),
    Raw("link.create", "", <<"npc", "inn">>, "located_in", ""),
    Raw("replace", "", <<"npc">>, "", "")}

Event(type, requires, subject, hint) ==
    [type |-> type, requires |-> requires, subject |-> subject,
     target |-> "", hint |-> hint]
EventSets == {{}, {Event("death", TRUE, "npc", "")},
              {Event("death", TRUE, "", "npc")},
              {Event("death", TRUE, "", "lamp")},
              {Event("death", FALSE, "npc", "")},
              {Event("move", TRUE, "player", "inn")}}

FactSets == {{}, {[kind |-> "relationship", anchors |-> {"npc"}]},
             {[kind |-> "debt", anchors |-> {"quest"}]}}

Answer(ops, events, facts) ==
    [form |-> "good", ops |-> ops, events |-> events, facts |-> facts]

MCAnswers ==
    {[form |-> "bad", ops |-> <<>>, events |-> {}, facts |-> {}]}
    \cup {Answer(s, e, f) : s \in {<<>>} \cup {<<a>> : a \in RawOps},
                            e \in EventSets, f \in FactSets}
    \cup {Answer(<<a, b>>, e, {}) : a, b \in RawOps, e \in {{}, {Event("death", TRUE, "", "lamp")}}}
    \cup {Answer(<<a, b, c>>, {}, {}) : a, b, c \in RawOps}
    \cup {Answer(<<a, a, a, a>>, {}, {}) : a \in RawOps}

MCAutoRef == <<"ta", "tb", "tc", "td">>

MCVars == <<vars, part, planningVars, workersVars>>

MCInit ==
    /\ part \in {"breaker", "planning", "workers"}
    /\ Init /\ P!Init /\ W!Init
    /\ part # "planning" => planner = "legacy"

MCNext ==
    /\ UNCHANGED part
    /\ \/ part = "breaker" /\ Next
          /\ UNCHANGED <<planningVars, workersVars>>
       \/ part = "planning" /\ P!Next
          /\ UNCHANGED <<vars, workersVars>>
       \/ part = "workers" /\ W!Next
          /\ UNCHANGED <<vars, planningVars>>

MCSpec == /\ MCInit /\ [][MCNext]_MCVars
          /\ part = "breaker" => Fairness
          /\ part = "workers" => W!Fairness
=============================================================================

---------------------------- MODULE SessionRecords ----------------------------
(***************************************************************************)
(* What is kept of a session beside the graph: callbacks and entity        *)
(* memories; windows of consequences; the cache of synthesized profiles;   *)
(* the ledger of a turn's economy.  They share no state, and together they *)
(* do what Spec /\ Q!Spec /\ C!Spec /\ E!Spec says.                        *)
(***************************************************************************)
EXTENDS CallbackMemory, Sequences

CONSTANTS Keys, Budget, Span, MaxDepth, Shows, WindowObjects, Refs,
          Readers, Names, MaxEntries, Ttl, Backoff, Clients,
          Entities, Nobody, Items, Bases, Patches, Told, MaxActs

VARIABLES now, windows, picked, applied, world, signals, reminded, settled, opened, granted,
          l1, l2, client, retryIn, redisUp, op, served,
          base, carried, ops, events, pass, at, givers, todo, owed, left, ledger

Q == INSTANCE ConsequenceWindows WITH
        turn <- now, told <- reminded, Objects <- WindowObjects
C == INSTANCE TwoTierCache
E == INSTANCE Economy

ASSUME WindowsAssumption ==
    /\ IsFiniteSet(Keys) /\ Budget \in Nat
    /\ Span \in Nat /\ MaxDepth \in Nat
    /\ Shows \subseteq Nat

\* A thread that makes a client finds a number that no other thread holds.
ASSUME CacheAssumption ==
    /\ Ttl \in Nat /\ Backoff \in Nat /\ MaxEntries \in Nat \ {0}
    /\ IsFiniteSet(Readers) /\ IsFiniteSet(Clients)
    /\ Cardinality(Readers) < Cardinality(Clients)
    /\ 0 \notin Clients

\* An obligation has a key of its own.
ASSUME EconomyAssumption ==
    /\ Nobody \notin Entities
    /\ \A b \in Bases :
          /\ b.owner \in [Items -> Entities \cup {Nobody}]
          /\ IsFiniteSet(b.obligations)
          /\ \A o \in b.obligations : {o.amount, o.due} \subseteq Int /\ o.key \in Nat
          /\ \A o, p \in b.obligations : o.key = p.key => o = p
          /\ \A u \in Patches : {u.cash, b.cash[u.object]} \subseteq Int

windowVars == <<now, windows, picked, applied, world, signals,
                reminded, settled, opened, granted>>
cacheVars == <<l1, l2, client, retryIn, redisUp, op, served>>
economyVars == <<base, carried, ops, events,
                 pass, at, givers, todo, owed, left, ledger>>

\* See ConsequenceWindows.
RemindersAreLimited == Q!TypeOK /\ Q!RemindersAreLimited

\* See TwoTierCache.
CacheIsSafe == []C!TypeOK /\ C!CacheIsSafe

\* See Economy.
LedgerIsSound == E!LedgerIsSound
=============================================================================

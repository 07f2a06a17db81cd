----------------------------- MODULE TwoTierCache -----------------------------
(***************************************************************************)
(* The cache of synthesized profile texts (cache_backend.py): a bounded    *)
(* in-process tier with expiry in front of Redis, whose client is shared,  *)
(* dropped on the first error and not tried again for a while.             *)
(*                                                                         *)
(* Values are kept by their age alone.  One tick of the clock is longer    *)
(* than a Redis call (socket timeouts are seconds, the time to live is an  *)
(* hour): time does not pass inside an operation, everything else may      *)
(* happen between two of its steps.                                        *)
(***************************************************************************)
EXTENDS Integers, Sequences

CONSTANTS Readers,    \* request threads
          Names,      \* cache keys
          MaxEntries, \* of the first tier
          Ttl,        \* ttl_seconds
          Backoff,    \* _REDIS_RETRY_BACKOFF_SECONDS
          Clients     \* numbers for Redis clients, more than there are Readers

VARIABLES l1,     \* _l1, the least recently used entry first
          l2,     \* what Redis holds for each key
          client, \* _redis_client, a number, or 0
          retryIn,\* time until _redis_next_retry_at
          redisUp,
          op,     \* what each thread is in the middle of
          served  \* history: the age of the value served last

vars == <<l1, l2, client, retryIn, redisUp, op, served>>

None == [left |-> 0, age |-> 0]
Idle == [at |-> "idle", do |-> "none", by |-> 0, key |-> {}, age |-> 0]
\* Ages are told apart up to one more than any value should reach.
Oldest == 2 * Ttl + 1

TypeOK ==
    /\ Len(l1) <= MaxEntries
    /\ \A i \in DOMAIN l1 : /\ l1[i].key \in Names
                            /\ l1[i].left \in 0..Ttl
                            /\ l1[i].age \in 0..Oldest
    /\ l2 \in [Names -> [left : 0..Ttl, age : 0..Oldest]]
    /\ client \in Clients \cup {0}
    /\ retryIn \in 0..Backoff
    /\ redisUp \in BOOLEAN
    /\ \A t \in Readers :
          /\ op[t].at \in {"idle", "look", "connect", "call", "fill", "delete",
                           "mark"}
          /\ op[t].key \subseteq Names
          /\ op[t].by \in Clients \cup {0}
    /\ served \in 0..Oldest

Init ==
    /\ l1 = <<>>
    /\ l2 = [k \in Names |-> None]
    /\ client = 0
    /\ retryIn = 0
    /\ redisUp \in BOOLEAN
    /\ op = [t \in Readers |-> Idle]
    /\ served = 0
-----------------------------------------------------------------------------
\* A key has one entry at most (OrderedDict).
PlacesOf(entries, k) == {i \in DOMAIN entries : entries[i].key = k}

Removed(entries, i) ==
    SubSeq(entries, 1, i - 1) \o SubSeq(entries, i + 1, Len(entries))

Without(entries, k) ==
    IF PlacesOf(entries, k) = {} THEN entries
    ELSE Removed(entries, CHOOSE i \in PlacesOf(entries, k) : TRUE)

Live(k) == {i \in DOMAIN l1 : l1[i].key = k /\ l1[i].left > 0}

\* _set_l1: a new entry is the most recently used one and lives a full time
\* to live, however old its value is.
SetL1(k, age) ==
    LET grown == Append(Without(l1, k), [key |-> k, left |-> Ttl, age |-> age])
    IN  IF Len(grown) > MaxEntries THEN Tail(grown) ELSE grown

Begin(t, what, keys) ==
    op' = [op EXCEPT ![t] = [Idle EXCEPT !.at = "look", !.do = what, !.key = keys]]

End(t) == op' = [op EXCEPT ![t] = Idle]

GoTo(t, step) == op' = [op EXCEPT ![t].at = step]

\* get, its first part: a live entry is served, an expired one thrown away.
GetL1(t, k) ==
    /\ op[t] = Idle
    /\ \/ \E i \in Live(k) : /\ l1' = Append(Without(l1, k), l1[i])
                             /\ served' = l1[i].age
                             /\ UNCHANGED op
       \/ Live(k) = {} /\ l1' = Without(l1, k) /\ Begin(t, "get", {k})
          /\ UNCHANGED served
    /\ UNCHANGED <<l2, client, retryIn, redisUp>>

\* set: a text just synthesized goes to the first tier, then to Redis.
Set(t, k) ==
    /\ op[t] = Idle
    /\ l1' = SetL1(k, 0)
    /\ Begin(t, "set", {k})
    /\ UNCHANGED <<l2, client, retryIn, redisUp, served>>

Clear(t) ==
    /\ op[t] = Idle
    /\ l1' = <<>>
    /\ Begin(t, "clear", {})
    /\ UNCHANGED <<l2, client, retryIn, redisUp, served>>

-----------------------------------------------------------------------------
(***************************************************************************)
(* The Redis client.                                                       *)
(***************************************************************************)

\* _get_redis_client before its lock; a thread without a client is done.
LookForClient(t) ==
    /\ op[t].at = "look"
    /\ IF client # 0
       THEN op' = [op EXCEPT ![t].at = "call", ![t].by = client]
       ELSE IF retryIn > 0 THEN End(t) ELSE GoTo(t, "connect")
    /\ UNCHANGED <<l1, l2, client, retryIn, redisUp, served>>

Unused(n) == n # client /\ \A t \in Readers : op[t].by # n

\* Mutant: the client is not looked at again under the lock.
ConnectUnchecked(t) ==
    /\ op[t].at = "connect"
    /\ LET new == CHOOSE n \in Clients : Unused(n)
       IN  IF redisUp
           THEN /\ client' = new
                /\ op' = [op EXCEPT ![t].at = "call", ![t].by = new]
                /\ retryIn' = 0
           ELSE End(t) /\ retryIn' = Backoff /\ UNCHANGED client
    /\ UNCHANGED <<l1, l2, redisUp, served>>

\* Under the lock, the client looked at again.
Connect(t) ==
    /\ op[t].at = "connect"
    /\ LET new == CHOOSE n \in Clients : Unused(n)
           mine == IF client # 0 THEN client ELSE new
       IN  IF client # 0 \/ (retryIn = 0 /\ redisUp)
           THEN /\ client' = mine
                /\ op' = [op EXCEPT ![t].at = "call", ![t].by = mine]
                /\ UNCHANGED retryIn
           ELSE /\ End(t)
                /\ retryIn' = IF retryIn > 0 THEN retryIn ELSE Backoff
                /\ UNCHANGED client
    /\ UNCHANGED <<l1, l2, redisUp, served>>

\* A call on a client fails: Redis is down, or the client was closed by the
\* thread that dropped it.
CallFails(t) ==
    /\ op[t].at \in {"call", "delete"}
    /\ ~redisUp \/ op[t].by # client
    /\ GoTo(t, "mark")
    /\ UNCHANGED <<l1, l2, client, retryIn, redisUp, served>>

\* _mark_redis_client_unavailable: a client that was replaced already costs
\* its successor nothing.
MarkUnavailable(t) ==
    /\ op[t].at = "mark"
    /\ IF client \in {0, op[t].by}
       THEN client' = 0 /\ retryIn' = Backoff
       ELSE UNCHANGED <<client, retryIn>>
    /\ End(t)
    /\ UNCHANGED <<l1, l2, redisUp, served>>
-----------------------------------------------------------------------------
(***************************************************************************)
(* The second tier.                                                        *)
(***************************************************************************)

\* get, the answer of Redis: the value, nothing, or what cannot be parsed.
RedisGet(t) ==
    /\ op[t].at = "call" /\ op[t].do = "get" /\ redisUp
    /\ \/ End(t)
       \/ \E k \in op[t].key :
             /\ l2[k].left > 0
             /\ op' = [op EXCEPT ![t].at = "fill", ![t].age = l2[k].age]
    /\ UNCHANGED <<l1, l2, client, retryIn, redisUp, served>>

\* get, its last part: the value found is kept in the first tier too.
FillL1(t) ==
    /\ op[t].at = "fill"
    /\ \E k \in op[t].key : l1' = SetL1(k, op[t].age)
    /\ served' = op[t].age
    /\ End(t)
    /\ UNCHANGED <<l2, client, retryIn, redisUp>>

\* set with its expiry; a value that cannot be serialized stays local.
RedisSet(t) ==
    /\ op[t].at = "call" /\ op[t].do = "set" /\ redisUp
    /\ \/ UNCHANGED l2
       \/ \E k \in op[t].key : l2' = [l2 EXCEPT ![k] = [left |-> Ttl, age |-> 0]]
    /\ End(t)
    /\ UNCHANGED <<l1, client, retryIn, redisUp, served>>

\* clear finds the keys and deletes them in a second call.
RedisScan(t) ==
    /\ op[t].at = "call" /\ op[t].do = "clear" /\ redisUp
    /\ op' = [op EXCEPT ![t].at = "delete",
                        ![t].key = {k \in Names : l2[k].left > 0}]
    /\ UNCHANGED <<l1, l2, client, retryIn, redisUp, served>>

RedisDelete(t) ==
    /\ op[t].at = "delete" /\ redisUp
    /\ l2' = [k \in Names |-> IF k \in op[t].key THEN None ELSE l2[k]]
    /\ End(t)
    /\ UNCHANGED <<l1, client, retryIn, redisUp, served>>
-----------------------------------------------------------------------------
Smaller(a, b) == IF a < b THEN a ELSE b
Less(n) == IF n = 0 THEN 0 ELSE n - 1
Aged(e) == [e EXCEPT !.left = Less(@), !.age = Smaller(@ + 1, Oldest)]

Tick ==
    /\ \A t \in Readers : op[t] = Idle
    /\ l1' = [i \in DOMAIN l1 |-> Aged(l1[i])]
    /\ l2' = [k \in Names |-> IF l2[k].left <= 1 THEN None ELSE Aged(l2[k])]
    /\ retryIn' = Less(retryIn)
    /\ UNCHANGED <<client, redisUp, op, served>>

RedisToggle ==
    /\ redisUp' = ~redisUp
    /\ UNCHANGED <<l1, l2, client, retryIn, op, served>>

Next ==
    \/ \E t \in Readers :
          \/ \E k \in Names : GetL1(t, k) \/ Set(t, k)
          \/ Clear(t)
          \/ LookForClient(t) \/ Connect(t) \/ CallFails(t) \/ MarkUnavailable(t)
          \/ RedisGet(t) \/ FillL1(t)
          \/ RedisSet(t)
          \/ RedisScan(t) \/ RedisDelete(t)
    \/ Tick
    \/ RedisToggle

Spec == Init /\ [][Next]_vars
-----------------------------------------------------------------------------
\* A text may be served after its time to live, because a refill of the first
\* tier starts the time anew, but never after twice that time.  And of all the
\* threads that find no client, or whose calls fail late, none replaces a
\* client in use, and only one whose call on it failed drops it.
CacheIsSafe ==
    /\ [](served <= 2 * Ttl)
    /\ [][client # 0 /\ client' # client =>
            /\ client' = 0
            /\ \E t \in Readers : op[t].at = "mark" /\ op[t].by = client]_vars
=============================================================================

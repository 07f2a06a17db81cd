# A verification project for the narrative engine

This directory holds TLA+ models of the backend in `src/`, TLC configurations
that check them on small instances, and TLAPS proofs of what matters most for
instances of any size. The repository keeps one directory flat (`crud_*.py`,
`*_services.py`, Alembic migrations) and leaves out several packages its modules
import (`application/turn_services.py`, `domain/*`, `persistence/*`, the outbox
runtime, `snapshots.py`). What those packages do is modelled only as far as the
code in `src/` shows it, and marked external in the map of `PROJECT.json`.

1. [Inventory](#1-inventory)
2. [Modules](#2-modules)
3. [Runs: what each shows, bounds, fairness](#3-runs)
4. [Proofs](#4-proofs)
5. [Disagreements found](#5-disagreements-found)
6. [What is not modelled](#6-what-is-not-modelled)
7. [Plan](#7-plan)

Parse a module with `tlasany M.tla`, check a run with
`tlc -config X.cfg MCM.tla`, check proofs with `tlapm MProofs.tla`.

## 1. Inventory

A *session* is one game: a row in `sessions` with a JSON state, its turns, its
objects (characters, items, quests, zones, facts, agendas ...), its links
between objects, and events in an outbox table. Sessions share nothing
(`ARCHITECTURE_DECISIONS.md`, ADR-001). Requests arrive on threads of a FastAPI
process; an outbox poller and other workers run beside them. All of them open
SQLAlchemy sessions with `autoflush=False` and `expire_on_commit=False`
(`db.py:272`) on PostgreSQL at READ COMMITTED, and they meet in the database.

Three kinds of lock are used. The *runtime lock* is a session-level advisory
lock on a connection of its own, held from the beginning of a turn to its end,
over several transactions. The *turn lock* is a transaction-level advisory lock
that, together with `SELECT ... FOR UPDATE` of the session row, serialises
single transactions. Outbox jobs mostly take none of them.

| Component | State | Operations | What is hard | What makes it correct |
|---|---|---|---|---|
| Turn lifecycle (`crud_shared.py`, `crud_turns_logic.py`) | `turn_index`, `turns` rows, `pending_turn`, clock, runtime lock | acquire, allocate, apply, fail, recover (automatic, timed, forced), internal turns, moves | planning takes seconds outside any transaction; crashes, lock connections lost, recovery racing the owner | indices used once and without holes, one open turn, verdicts are final, committed game time is kept, a live owner's turn is safe, the lock is let go, even by an unlock that fails |
| Circuit breaker (`resilience.py`) | state, failure count, probe flag and instants | ensure_available, mark_success, mark_failure | verdicts that arrive after the breaker moved on, probes that never report | backs off after every failure, one fresh probe, a healthy provider is let back in |
| World director (`crud_director.py`) | agendas, outbox events by dedupe key | world tick, agenda tick, scheduling, suppression | at-least-once delivery, death between the director turn and the close | an agenda is acted on once, none is stranded, chains end, failures back off |
| Patch operations, movement, graph health (`crud_patch_apply.py`, `crud_movement.py`, `crud_graph_ops.py`) | `links`, status of quests and NPCs, `applied_ops` | object.create/patch, link.create/close, travel, move, synthetic turn | a batch reads a database that does not see its own writes before a flush; expiring NPCs; reopened quests; links a client posts beside | a turn closes what contradicts it, whoever wrote that: feelings, earlier owners, tracking of quests that end; the player is in one place, the log replays to the links |
| Lore adaptation (`crud_lore_adaptation.py`) | `lore_adaptation` JSON, world constitution, jobs | upload, queue, process, answer, fill, restore | model calls outside transactions, timeouts handed to a queue, uploads that overlap | the newest upload wins, the player's answers stay, turns see published lore only, processing ends |
| Embedding index (`crud_entities.py`, `crud_embeddings_ops.py`, ...) | vectors by content hash, refresh events | inline refresh in a batch, refresh jobs, chronicle sync | read, embed, read again, write - with commits in between; a refresh rule that watches less than the text says | once nothing is left to do, an object is found by its current words and a turn by what it is told by, unless a job was overtaken as it wrote |
| Callback and entity memory (`crud_continuity.py`) | callback rows, entity memory rows, cooldowns | memory job of a turn: upsert, invalidate, rebuild; recall | jobs late, out of order, repeated, overtaken by turns; facts that two links keep true; lists with little room | what the narrator remembers is what the links say; cooldowns last unless a job writes over them |
| Endpoints for objects, links, claims, snapshots (`crud_entities.py`, `crud_core.py`) | the same tables | create, list, snapshot, scene | no runtime lock: they come between the attempts of a patch and the transactions of a command | what they change meets the properties of the parts it is in |
| Player commands (`command_services.py`) | corrections in the state, snapshots | undo, rollback, retcon, fixrule, fair, why | retcon restores in one transaction and replays in another; snapshots taken and sessions deleted in between | a session only adds turns or goes back to a snapshot, and keeps its corrections |
| Consequences (`crud_consequences.py`) | windows by intent key, how often each was shown | materialize, suppress, select due, apply results, expire; structural signals | the same key used again for a window that was shown, resolved or expired | nothing is shown more often than it was asked for, the turns that resolve it apart |
| Planning (`crud_planning.py`) | the draft, one repair, an open transaction or none | coerce, order, check, repair, degrade | references between operations; repairs that are checked less than drafts; model calls of many seconds | an operation never uses an object before it is created; what the story requires is in the patch; no call holds a transaction |
| Context (`crud_context.py`) | narrative spine, chunks of the world prompt | lists for the narrator, scores, fitting under a cap, spine and chunk updates | tokens counted item by item, spent, exchanged and cut back; texts made while others commit | lists agree with the graph; the pack fits and wastes nothing; the spine tells every turn |
| Memory facts and review (`crud_embeddings_ops.py`, `memory_services.py`) | facts, events, reports | promote, supersede, review | supersession and its callback rows; one session that fails in a review of all | one active fact per slot; the review goes on |
| Claims (`crud_claims.py`, part of `crud_patch_apply.py`) | claims, heard/asserted links | create, reword, hear, forget, list | a claim reworded after somebody heard it; links a client writes unchecked | an NPC knows a claim in the words it learnt it in |
| Economy (`economy_services.py`) | the operations derived from a turn | transfers, staff, trade, settlements, told events | operations that look like earlier ones; cash matched with obligations; closes logged by a batch that does not see its own links | the ledger holds what the turn's links, patches and events say, and settles nothing twice |
| Profiles (`crud_profiles.py`), external answers of a patch (`crud_shared.py`) | texts of objects and their cache, answers fetched for a patch | synthesize, build, decide whether to refresh; roll back, fetch, apply again | texts, vectors and verdicts are fetched outside the transaction that needs them, while others change objects | the vector is of the object as it is; a creation becomes the right object; the attempts end |
| Two-tier cache (`cache_backend.py`) | LRU with expiry, Redis, a shared client | get, set, clear | clear racing refill, Redis that fails, threads that replace the client | nothing is served after twice its life; a client in use is dropped only by one whose call on it failed |
| Background workers (`background_workers.py`) | set of threads, shutdown flag | start, wait | a thread registered and not started, a review that raises | the review survives its failures, shutdown ends, and reports that none is left only when none runs |
| Telemetry, shell, data shapes, migrations | - | - | - | not modelled, see section 6 |

Interactions. A handler takes the runtime lock, allocates a turn, lets a
language model plan it (through the circuit breaker), and applies the plan: the
patch operations change the graph and write vectors, the turn row and the
`pending_turn` mark are closed, and events are left in the outbox, all in one
transaction. The outbox poller then runs the memory job of the turn, the
refresh jobs of the index, the director's ticks (which take the runtime lock and
play turns of their own) and queued lore. Every other mutation recovers an
abandoned turn in passing. The hazards of `PROJECT.json` name the lines where
these meet.

## 2. Modules

| Module | Models | Notes |
|---|---|---|
| `GameClock` | `_normalize_time_payload`, `_clear_pending_turn_locked` (time) | pure operators on day and minute: a step forward with carry and cap, a step back |
| `TurnLog` | - | abstract: what a session promises about its turn history |
| `TurnLifecycle` | locks, allocation, recovery, one-transaction turns | extends `GameClock`, implements `TurnLog` |
| `CircuitBreaker` | `_SimpleCircuitBreaker` of `resilience.py` | one action per method, ages instead of instants |
| `WorldDirector` | `crud_director.py` and the outbox delivery it relies on | |
| `WorldGraph` | link and status operations, movement, graph health, `applied_ops` | batches of operations, flushes explicit |
| `LoreAdaptation` | `crud_lore_adaptation.py` | one action per transaction |
| `EmbeddingIndex` | inline vectors, refresh jobs, chronicle sync | |
| `CallbackMemory` | the memory job of a turn and callback cooldowns | |
| `TurnPlanning`, `PatchContracts` | `crud_planning.py`: planners, calls, the one repair; coercion, order and contracts of a patch | operators in `PatchContracts`, protocol in `TurnPlanning` |
| `BackgroundWorkers` | `background_workers.py`, the memory review of `memory_services.py`, shutdown | one action per step of a thread |
| `PlayerCommands` | `command_services.py`, snapshots of `crud_entities.py` | the snapshot repository is external |
| `ClaimKnowledge` | `crud_claims.py`, the claim rules of `crud_patch_apply.py`, knowledge lists of `crud_context.py` | |
| `NarratorView` | the lists `crud_context.py` reads from the graph | extends `WorldGraph`: composed with it |
| `PromptBudget` | fitting a context pack under its cap, in both ways | |
| `PromptTexts` | narrative spine, world-prompt chunks | |
| `ObjectPatches` | objects created and changed by a patch, profile texts, vectors, de-duplication, the retry loop | |
| `ConsequenceWindows` | `crud_consequences.py` | |
| `TwoTierCache` | `cache_backend.py` | |
| `Economy` | `derive_turn_operations` of `economy_services.py` | |
| `ServerProcess` | - | composition of `CircuitBreaker`, `TurnPlanning` (`P`) and `BackgroundWorkers` (`W`): one server process |
| `GraphAndClaims` | - | composition of `WorldGraph` and `ClaimKnowledge` (`K`): one session |
| `GraphAndCommands` | - | composition of `NarratorView`, thus `WorldGraph`, and `PlayerCommands` (`U`): one session |
| `Retrieval` | - | composition of `EmbeddingIndex`, `PromptBudget` (`B`), `PromptTexts` (`T`) and `ObjectPatches` (`O`): what is found for a turn and made of it |
| `SessionRecords` | - | composition of `CallbackMemory`, `ConsequenceWindows` (`Q`), `TwoTierCache` (`C`) and `Economy` (`E`): what is kept beside the graph |
| `MC*` | - | model values, symmetry and definitions for TLC; see *parts* below |
| `*Proofs` | - | theorems, section 4 |

**Compositions.** A composition extends one component and INSTANCEs the others
with variables of their own, so that it does what the conjunction of their
specifications says. The components in one share no state (two names had to be
changed for that: the `world` of `PlayerCommands` is `committed`, the `told` of
`ConsequenceWindows` is `reminded`; `Retrieval` renames `phase`, `rows`, `tx` and
`MaxFailures` of the modules it instantiates by WITH). It also holds the
assumptions on the constants of the components it instantiates and the names of
their properties, which the MC module and the proofs both refer to.

**Parts.** The components of a composition are checked in one run: a variable
`part` of the MC module, which Init chooses and nothing changes, says which of
them a behaviour is about. The variables of the other parts stay at an initial
state, so that the states of the parts add up and do not multiply; the theorems
know no parts. `MCCircuitBreaker` (on `ServerProcess`) has the parts breaker,
planning and workers; `MCPlaces` (on `GraphAndCommands`) graph and commands;
`MCSocial` (on `GraphAndClaims`) graph and claims; `MCCallbackMemory` (on
`SessionRecords`) callbacks, windows, cache and economy; `MCRetrieval` (on
`Retrieval`) index, prompt, texts and patches.

### How states and actions correspond to the code

**One transaction, one action.** Where the code holds the turn lock or the row
lock for a whole transaction, the transaction is one action; its guard is the
conjunction of the early returns and of the conditions that raise, because a
transaction that raises rolls back. Where the code works outside transactions,
or in a transaction that takes no lock, the reading part and the writing part
are separate actions and others run in between: planning in `TurnLifecycle`,
director turn and close in `WorldDirector`, analysis in `LoreAdaptation`, read,
embed, recheck and write in `EmbeddingIndex`, read and flush in
`CallbackMemory`. `WorldGraph` goes below a transaction: each operation of a
batch is an action, because a SELECT there sees only what has been flushed.

**`TurnLifecycle`.** `rt` is the owner of the runtime lock as PostgreSQL knows
it; `pc` and `mine` are what a handler believes. `HoldsInContext` reads `pc`
and not `rt`: the context variable of `_session_turn_runtime_lock` survives the
loss of its connection. `leaked` is a lock whose unlock raised: the code logs that
and gives the connection back to the pool, lock and all (`crud_shared.py:930`,
`db.py:260`); `RecycleConnection` is the pool that gets rid of the connection in
the end. `rows` holds the status of each turn row, `clock` the
in-game time, `advanced` (history) whether the pending turn moved it.
`FinalizeTurn` stands for `apply_turn_plan`, which is external. `MovePlayer`,
`InternalTurn` and `ApplyPendingGraphOps` are the turns allocated and closed in
one transaction. A step of game time that would reach the day cap is guarded
away (`RecoveredClock.day < DayCap`): at the cap recovery is not exact, which
`RewindUndoesAdvance` states as its condition.

**`CircuitBreaker`.** Only ages up to `reset_timeout` are compared by the code,
so ages stop there and the model is finite without losing a behaviour. A call
in flight is a `regular` one or a `probe`; `Abandon` is a call whose verdict
never comes (`GeneratorExit`, a thread killed).

**`WorldDirector`.** `outbox` maps dedupe keys to events. `Delivered` is the
external outbox runtime: an event stays due until it is acknowledged or has had
its attempts. `handler` is the agenda tick that has committed its director turn
and not yet the close; `DieBeforeClose` is a process that dies there.

**`WorldGraph`.** One link type for each way the code treats a type (support,
conflict, preserved at death, owner, tracking, location). `tx.fresh` and
`tx.dirty` are the links added and closed since the last flush; `Flush` may
happen between any two operations, as the code flushes in some operations and
not in others. `ledger` replays all `applied_ops`. `PostLink` is the endpoint: a
link of any type, with any valid window, in a synthetic turn that closes nothing.
Each row says which turn made it and whether a client did (history), which is
what the properties tell apart: a turn of the story ends what contradicts it,
whoever wrote that, and what a client adds later may stand beside it.

**`LoreAdaptation`.** `lore` is the JSON state, `request` its processing id,
`stable` the state restored after a failure. `Vanish` is a request or a job
that dies; it is bounded by `MaxLosses`.

**`EmbeddingIndex`.** A vector is represented by the text it embeds. A profile is
made of *words*, which the refresh rule of its type watches, and *facts*, which it
tells and the rule does not watch: scalars of zones, items, factions and quests,
and the `ctx_*` fields. A turn is told by the snippet its planner wrote, if there
is one, and by its prose otherwise; a PATCH changes the prose only, and a turn
without a text loses its vector. `events` counts refresh events, which carry no
dedupe key. All interleavings of the unlocked transactions are in the model:
`late` marks a job that others overtook between its last look and its write,
`overtaken` (history) the vectors such a job wrote.

**`CallbackMemory`.** A fact is named after the link that states it; `Grounds` are
the links any of which keeps it true, its own and for mutual feelings the one back.
Only the facts in `Derived` are stated when their link is created: of owners, the
player alone. `PostLink` is the endpoint, which closes no rival. `log` is what
`ai_json` says of each turn; `job` holds what the running memory job read and will
write. `CommitSync` writes a row only if the job changed it, as SQLAlchemy's unit of
work does. An entity memory has several lists, each of the facts it is for that the
narrator may see, and each with room for `MaxBullets`; which of too many it takes
is any of `Cuts`. `fresh` (history) are the facts that were stated and have been
true since; `erased` the callbacks whose last use a job wrote over. A callback may
be used at any time, also while a job runs.

**`TurnPlanning`.** One action for each thing a planner does between two model
calls, `step` naming the call that is waited for; `tx` is the transaction that
reading opens by autobegin. An answer is any of a set of raw patches with events
and facts; `Coerced`, the contracts and the order are the operators of
`PatchContracts` and are applied to it as the code does, before the repair and
after it. The topological sort is given by what it returns: an operation goes
when nothing unsorted is in front of it, the first to have become free goes
first, and what is in a cycle goes last (`Released`, `Queued`,
`ToposortPatchOps`). The debug planner is not held to the order, as in the code.

**`BackgroundWorkers`.** A thread is registered, started, ends its target and
leaves the registry in four steps; the wait for shutdown looks at the set and
then joins for a slice. A report is the version of the rows it was made from.

**`PlayerCommands`.** `world` is the sequence of the inputs of the turns, a
snapshot the prefix it was taken of. A retcon restores in one action and replays
in another. External, and assumed: a restore removes newer snapshots, and a turn
may or may not capture one.

**`NarratorView`.** No variables: the lists of a pack as operators of the
committed graph, evaluated where a pack is built, between allocation and
application. Scores are data, so a list with a limit is any set that fits it; a
list in order of time shows the latest. The orphaned items and the inventory have
their limits too.

**`ClaimKnowledge`.** `tx` is the batch with what it has not flushed; `told` is the
history of the words each actor learnt a claim in, taken as its link is written by
an operation, and `amended` of those that the same batch changed before it
flushed the link. A client may write heard and asserted links itself, of which
nothing is checked.

**`PromptBudget`.** One action per choice of the fitting: by one score a
required item, a filling item, a longer variant, an item the final guard throws
out; field by field a field opened, an item tried, a field closed. Weights are in
hundredths, sizes in units of the smallest item; ties are broken either way.

**`PromptTexts`.** A model call and the write that follows are two actions, and
turns, snapshots, restores and other indexers come between them. Updates of the
spine do not overlap, because a plan holds the runtime lock.

**`ObjectPatches`.** An object is what texts and de-duplication tell apart:
sort, description, facts, whether it is ephemeral, in the player's zone, and its
status. One action is one operation of the patch; `tx.db` is what a SELECT
finds. `RollbackForPreparation` throws the attempt away, `PrepareText`,
`PrepareVectors` and `PrepareVerdict` fetch what it lacked, outside any
transaction, and the patch is applied again to the rows as they are by then. The
arbiter and the synthesizer are switched on; `ctx_last_touched_turn` is left out.
There is an id for every row there will be (`IdsAreLeft`, a bound of the instance).
A refresh job that commits the first vector of an object while an attempt inserts
one makes the attempt fail; that overlap belongs to `EmbeddingIndex`.

**`ConsequenceWindows`.** The turn pipeline is external: it is taken to select
once per turn, to show some of what was selected, and to report results before
it stores new intents. `granted` is the history of what was asked for, `told` of the
turns that showed the window, `settled` of those of them that also resolved it,
which the code does not count as shown, and `opened` of the times an intent made
the window or opened it again.

**`TwoTierCache`.** Values are kept by their age. Each operation is split where
it leaves the lock or calls Redis; `client` is the shared client's identity.

**`Economy`.** One action is one operation of the turn or one event it tells. A
hand-over logs the close of every owner that its SELECT finds, and then the new
one; `carried` is who is found, and who was closed and added since the last flush,
which the creation of an object brings about. So a second hand-over of one batch
finds the first owner again. After
`BeginDerivation` one action is one step of the three passes that make the ledger:
`pass` and `at` say what is read, `givers` is `pending_previous_holders`, and
between `ReadUpdate` and `EndUpdate` a patch is taken apart: `todo` is what of
staff and trade is not recorded yet, in any order, `owed` the obligations still
to be tried, in the code's order, `left` the cash still unspent.
Obligations have one amount and no related asset; amounts are whole numbers.

## 3. Runs

Every passing run ends within three minutes on two workers; the largest has 2.2
million distinct states.

| Run (module, properties) | Shows |
|---|---|
| `lifecycle` (`MCTurnLifecycle`: `TypeOK`, `SessionMatchesItsRows`, `PlanningTurnIsProtected`, `VerdictsAreFinal`, `CommittedTimeIsKept`, `ImplementsTurnLog`, `RuntimeLockIsFreed`) | three handlers, four turns, crashes anywhere, up to two lock connections lost: the history keeps its promises and `TurnLog` is implemented whether or not exclusion is lost; a live handler's turn is taken only after a loss; the runtime lock is let go in the end, also after an unlock that failed |
| `breaker` (`MCCircuitBreaker`: `OneFreshProbe`, `BackoffAfterFailure`, `HealthyProviderIsServed`) | three threads: back-off, one fresh probe; a healthy provider is served again |
| - planning (`PlanIsSound`, `StoryMatchesPatch`, `CallsHoldNoTransaction`) | whatever the models answer, a plan that is handed over is all of an answer in an order that works (creations before use, the operations on one target as they were answered), with nothing only the server may write and no move of the player; it agrees with its story; and no call finds a transaction open |
| - workers (`ShutdownIsOrderly`; `AllTypesOK` is of all three parts) | the review outlives its failures, and shutdown comes to an end with a true report |
| `director` (`MCWorldDirector`: `AgendaRunsAreSound`, `BacksOffAfterFailure`, `RunsSettle`) | no agenda is stranded or acted on more often than processes died, chains end, failures back off; runs settle |
| `graph_social` (`MCSocial`: `FlipIsClean`, `GoneNpcIsAlone`, `LogReplays`) | feelings that flip, NPCs that leave and return, links a client posts: a friendship and a hostility in one direction are of one turn, or a client added the later; the log replays to the links |
| - claims (`KnowledgeIsHeard`) | a claim that is uttered, heard, reworded, closed, overheard and posted in any order is known in the words it was learnt in, unless the same batch changed them |
| `graph_places` (`MCPlaces`: `AllTypesOK`, `PlayerIsSomewhere`, `NothingIsLeftOver`, `NarratorSeesTheWorld`) | the player is in exactly one zone, no link ends before it begins; a turn that hands an item over, or ends a quest, leaves no earlier link beside it, whoever wrote that; the narrator's limited lists tell one story, and a lost item is shown as long as promised unless items lost since fill the list |
| - commands (`CommandsGoBack`) | turns, snapshots, corrections and commands that fail half way: the session only grows by a turn or goes back |
| `graph_accept_and_finish` (`MCWorldGraph`: `EndingClosesTracking`) | violation, section 5 |
| `lore` (`MCLoreAdaptation`: `TurnsRunOnPublishedLore`, `NewestUploadWins`, `PlayerAnswersStay`, `ProcessingEnds`) | overlapping uploads and fills; as long as nothing was lost, processing ends |
| `lore_orphaned` (`ProcessingIsProcessed`) | violation, section 5 |
| `index` (`MCRetrieval`: `IndexIsCurrent`, `ChangesAreFollowed`) | the words of an object and what a turn is told by change only with a vector or an event; whatever overlaps, the index settles on them, but for a vector that a job wrote over after it had been overtaken |
| - prompt and texts (`PromptIsSound`) | a pack of any of these sizes fits and wastes no room; the spine skips no more turns than failures cost it, chunks are of one prompt |
| - patches (`AppliedPatchIsSound`) | vectors tell the objects as they are; a creation is never a dead object (unless the patch itself made it so), a new one beside a twin only if the patch had dealt with that twin before, and an old one the patch had not dealt with only if it is a twin or the arbiter said so; nothing is asked twice for one patch, so that the attempts end |
| `index_links_in_batch` (`MCEmbeddingIndex`: `ContextIsCurrent`) | violation, section 5 |
| `callbacks` (`MCCallbackMemory`: `MemoryMatchesTheWorld`, `OnlyOverlapsDisturb`) | memory jobs in any order, failing, repeated, overtaken, links a client posts, lists with little room; a callback is used again too early only if a job wrote over its last use |
| - windows (`RemindersAreLimited`), cache (`CacheIsSafe`), economy (`LedgerIsSound`) | a window opened again is not told of beyond what was granted, but for one turn that resolves it each time it was opened; no text outlives two lifetimes and no thread drops another's client; the ledger settles what was paid and once, follows the items as far as the operations of a batch see each other, accounts for the staff |
| `callbacks_overlap` (`CallbacksRest`) | violation, section 5 |

Every property of a passing run is shown to matter by a mutant of the code's
model (kept in the module, marked *Mutant*) that breaks it.

**Bounds and why they are enough.** `MaxTurn` in `TurnLifecycle`: four turns after
the one a session starts with let an index be used, abandoned, recovered and two
more be allocated with a late failure outstanding; a third handler adds a
recovering bystander. Two lost lock connections give three handlers that each
believe they have the lock. `Scale` = 600 minutes makes the third step cross
midnight. The proofs remove these bounds. `CircuitBreaker` needs three threads for
a late verdict, a probe and a newcomer; `FailMax` = `ResetTimeout` = 2 separates
the first failure from the tripping one and a fresh probe from a stale one.
`WorldDirector`: two agendas compete for a limit of one, two attempts and one
crash give a repetition and a final failure, three turns a back-off that is waited
for. `WorldGraph`: three operations are create, contradict and close; two turns
are needed for a link of an earlier turn; `graph_places` has three turns of two
operations so that a link that begins in the future is met before and at its turn,
and a quest can end in one turn, reopen in the next and end again.
`LoreAdaptation`: three uploads of two texts give a stale job, its successor and a
repetition of the first text. `EmbeddingIndex`: two texts alternate, so a vector
can become right again by accident and wrong once more; two changes and one batch
of several operations change a text between any two steps of a job, and one failed
attempt gives an event delivered again; two workers run jobs of one kind or of two
side by side. `CallbackMemory`: three turns give a fact begun, ended and begun
again while an older job is outstanding, and one repetition a job that runs again
after a failure or a PATCH. Behaviours tell one of three stories: a sword between
the player and an NPC (whose ownership is no fact), an alliance that either end
tells, or both kinds for the player, whose lists have room for one (`MaxBullets` =
1), so that what is cut matters.

`TurnPlanning`: plans of two operations of every kind in every order, three of
every kind, and four alike to pass `MaxPatchOps` = 3. `BackgroundWorkers`: the
review and one other thread, two sessions (one fails, one does not), two versions
of the rows, a wait of two slices. `PlayerCommands`: two turns and two inputs, so
that a replay differs from what it replaces. `NarratorView`: a list limit of 2, an
inventory and a list of orphaned items of one, with two items, and a look-back of
2 turns in three. `WorldGraph`: clients post links in windows that are over, open
and yet to come. `ClaimKnowledge`: one claim, two texts, two zones, three turns of
two operations: told, reworded and told again on either side of a flush, and a
link that is posted before or after. `PromptBudget`: turns 1 to 3, one of them the
director's, four other items, costs 1, 2, 4 under caps 3, 5, 8: every item is at
some time the one too many. Packs that are fitted field by field never hold a turn
in full; there a full turn costs what the short one does (`OneCost`).
`PromptTexts`: a cadence of two in six turns gives three updates, of which two may
fail; two indexers meet two prompts. `ObjectPatches`: one NPC in seven conditions,
an item, the player, seventeen patches of two or three operations, each answer and
failure of the three services, and one object that arrives or text that is evicted
meanwhile, which is what an attempt can find changed. `ConsequenceWindows`: one
key (keys only compete for the budget, which is one), windows of two turns, up to
two shows in three turns. `TwoTierCache`: two readers, two names for one entry, a
life of two ticks, three clients in a row. `Economy`: one shop with debts of which
two may be alike, one item, and three acts, among them an event that looks like a
settlement; or six of which all are hand-overs, put-downs and creations, so that a
second hand-over comes before and after a flush.

`CHECK_DEADLOCK FALSE` is set where the bounds (turns, operations, uploads,
changes) let a run stop.

**Fairness.** `TurnLifecycle`: weak fairness of the work of each handler that
holds the lock - its model calls carry timeouts and its exceptions lead to the
`finally` block. An unlock can fail, and then only the pool ends the connection
that has the lock: `pool_recycle` opens one anew that is too old when it is next
handed out (`db.py:266`). Fairness of `RecycleConnection` is strong, since
handlers that are given the connection meanwhile take the lock on it again; it is
the one promise that rests on the pool. Requests need not arrive.
`CircuitBreaker`: time passes, and a thread that keeps asking is answered.
`BackgroundWorkers`: threads are scheduled (a target need not end).
`WorldDirector`: the poller keeps delivering what is due. `LoreAdaptation`: each
request or job that has started goes on; `ProcessingEnds` is promised as long as
nothing was lost, because a lost request is exactly what the finding is about.

## 4. Proofs

TLAPS checks the following for every value of the constants that satisfies the
named assumptions of the modules: sets of clients, threads, objects, facts and
texts of any size (finite where a cardinality counts), any bound, any threshold.
The assumptions stand in the component's module, or in the composition for a
component it instantiates, and TLC evaluates them in every run. Unless a
theorem says otherwise, its hypothesis is the component's `Spec`; what holds of
`Spec` holds of the specification with fairness.

Theorems that state a property of a run, with the module that proves them:

| Proofs | Theorems (property) |
|---|---|
| `TurnLifecycleProofs` | `TypeCorrect` (`TypeOK`), `RowsCorrect` (`SessionMatchesItsRows`), `ProtectionCorrect` (`PlanningTurnIsProtected`), `VerdictsCorrect` (`VerdictsAreFinal`), `CommittedTimeCorrect` (`CommittedTimeIsKept`), `HistoryCorrect` (`ImplementsTurnLog`) |
| `SessionProofs` | on the graph: `PlacesCorrect` (`PlayerIsSomewhere`), `HandoverCorrect` (`NothingIsLeftOver`), `FlipCorrect` (`FlipIsClean`), `LogCorrect` (`LogReplays`), `GoneCorrect` (`GoneNpcIsAlone`), `TypeCorrect`; on the rest: `KnowledgeCorrect` (`KnowledgeIsHeard`), `NarratorCorrect` (`NarratorSeesTheWorld`), `CommandsCorrect` (`CommandsGoBack`), `TypesCorrect` (`AllTypesOK` of `MCPlaces`) |
| `ProcessProofs` | `ProbesCorrect` (`OneFreshProbe`), `BackoffCorrect` (`BackoffAfterFailure`), `PlanCorrect` (`PlanIsSound`), `StoryCorrect` (`StoryMatchesPatch`), `CallsCorrect` (`CallsHoldNoTransaction`), `ShutdownCorrect` (the safety parts of `ShutdownIsOrderly`), `TypesCorrect` (`AllTypesOK` of `MCCircuitBreaker`) |
| `WorldDirectorProofs` | `AgendasCorrect` (`AgendaRunsAreSound`), `BackoffCorrect` (`BacksOffAfterFailure`) |
| `LoreAdaptationProofs` | `PublishedCorrect` (`TurnsRunOnPublishedLore`), `NewestCorrect` (`NewestUploadWins`), `AnswersCorrect` (`PlayerAnswersStay`) |
| `RetrievalProofs` | `IndexCorrect` (`IndexIsCurrent`), `ChangesCorrect` (`ChangesAreFollowed`), `PatchesCorrect` (`AppliedPatchIsSound`), `PromptCorrect` (`PromptIsSound`, of which `TextsCorrect` is the part about the spine and the chunks and `PacksCorrect` the part about the pack) |
| `SessionRecordsProofs` | `MemoryCorrect` (`MemoryMatchesTheWorld`), `RestCorrect` (`OnlyOverlapsDisturb`), `RemindersCorrect` (`RemindersAreLimited`), `CacheCorrect` (`CacheIsSafe`), `LedgerCorrect` (`LedgerIsSound`) |
| `SumTheorems` | lemmas about least numbers and about sums over finite sets, which other proofs cite |

**Hypotheses beyond `Spec`.** `CommittedTimeCorrect` and `HistoryCorrect` take
`AdvanceModes \subseteq {TRUE}`: every caller in `src/` advances the clock, and
section 5 says what becomes of a turn that does not. No other theorem about a
property of a run has a hypothesis beside `Spec`.

**`TurnLifecycleProofs`.** The calendar first: `AdvanceIsExact` (below the day
cap a step adds exactly its minutes and yields a valid instant) and
`RewindUndoesAdvance` (recovery undoes the step of allocation) are linear
arithmetic over `\div` and `%`, with quotient and remainder named. The inductive
invariant joins the type invariant, the shape of the history (rows up to
`turn_index` exist, the open row is the pending one and the newest), what a
planning handler owns (`mine` is at most the newest index and its row is never
`none`; without lock losses the lock and the pending turn are the handler's),
and that an advanced pending turn has its minutes on the clock, which makes
going back exact. Ownership is needed because a late `FailTurn` writes only if
`pending` still is `mine`: without it, a step of a handler with a forgotten turn
could close another's. `HistoryCorrect` is the refinement: each step is a step of
`TurnLog` or a stutter.

**`SessionProofs`.** *Graph*: a property of the graph between batches has to be
known of two tables: the links a batch works on and the committed ones it goes
back to. `BatchInv` says of the first, and `SavedInv` of the second, what makes a
table sound (`TableOK`): one row per active edge, one location per object, the
player is somewhere, feelings or owners that rule each other out were made by one
turn, or the later by a client (`MayCoexist`), no row was made later than now; and
that a tracked quest that is over was not tracked before it ended. The link a
batch adds is not a row before the flush, nor is the one it closes gone; so
`FreshInv` says that whatever a new edge cannot stand beside is already marked as
closed, and `LedgerInv` that the ledger is the active links without `tx.dirty` and
with `tx.fresh`, which is what makes the log replay although the batch reads a
database behind its writes. `GoneInv` says that an NPC made inactive in this batch
has had its ties closed.

*Claims* (`KnowledgeInv`): a claim somebody has a link to has been made; between
two turns nothing is pending and all rows were made by earlier turns; whoever has
a link, flushed or not, learnt the text as it stands, or is on the list of those
whose batch changed it; what a patch lets one hear is no later than any other link
to the claim that was there when it did (a client may write an earlier one
afterwards); what is being heard was first uttered this turn. *Narrator*
(`NarratorInv`): the graph's invariant says nothing of closed rows, and a rollback
goes back to saved ones, so what the lists need is stated of both tables, with the
turn that counts for each: a place of the player that a turn ended is followed by
one that a turn began, whatever clients claim; and a batch removes no row, it only
closes some. *Commands* (`CommandsInv`): each snapshot holds the turns up to its
own as they still are, which is what makes a restore a step back; a replay that is
due leaves room for its turn. `BelowIsWellFounded` picks first turns and newest
snapshots.

**`ProcessProofs`.** *Breaker*: no probe is younger than the one the breaker
waits for, and the cool-down counts from the last failure. *Planning*
(`PlanningInv`): a plan ends planning, a transaction is open only when planning
has ended, a repair is the first one. `SortInv` adds that what is handed over is
a coerced answer, sorted, that passed validation and does not move the player.
It rests on facts about the order: the operations that are free go in the order
in which they became free, this is a strict order of a finite set, ranks in
such an order are a bijection (`OrderIsComplete`), so that sorting loses nothing
and repeats nothing; and an operation that uses a reference becomes free only
when the last creation it waits for is out (`LastCreationReleases`).
`CreationsComeFirst` says in addition that a patch in which every temporary
reference has a creation is never judged uncertain. *Workers* (`WorkersInv`):
whoever was taken on and has not left is on the list; after shutdown nobody is
about to start; an all-clear is given only when none runs; the review is in its
loop only while its thread runs.

**`WorldDirectorProofs`.** A tick that is pending is the one its agenda waits
for, unless the agenda is closed, and only a closed agenda's tick is done with;
a running agenda has its event; between the director turn and the close nobody
else touches the agenda. `TurnsAreAccountedFor` is what makes the count
inductive: an agenda that is closed, or in the handler, has run at most once more
than processes died, every other one no more often than that. `OpenHasWaited`
gives `BackoffCorrect`.

**`LoreAdaptationProofs`.** `LoreIsBacked`: the state that turns may run on - the
state it will go back to, while an upload is processed - has blocking gaps, or
no lore, or the constitution made from its text. For that, the request being
processed must have the text the player sees (`RequestHasItsText`), and a state
that does not await answers has no gaps (`GapsOK`); each gap is open, answered
by the player or by the model, and not two of these.

**`RetrievalProofs`.** *Index*: a batch knows the words of the object or has
written their vector (`BatchSound`), which is what `ChangesCorrect` needs beside
the types. `IndexCorrect` needs that what is not current is seen to
(`ProfileFollowed`, `ChronicleFollowed`): a vector of other words has an event, or
a worker that will look at the words again, or was written by a job that had been
overtaken; and a worker about to write what has changed since its last look is
marked as late. Of the chronicle it may also have a successor, since every PATCH
leaves an event. That is all the code promises; nothing about which jobs overlap
is assumed. *Texts*: the spine has passed over no more turns than failures have
paid for, and this is inductive only together with the turns an update would lose
if it came now (`StoryInv`), of the spine that stands and of the one a snapshot
keeps; a turn that is planned can be committed without losing any; the chunks that
an indexer holds are of one prompt (`ChunksInv`). *Patches*: outside an attempt
vectors tell their objects, and answers are for requests that were made
(`StoreInv`, `StageInv`). `AttemptInv` is about an attempt under way, of which
nothing is committed: rows neither vanish nor change their sort; a row that no
operation so far was about is as committed, for the patch and for a SELECT
(`AloneStay`); one that is gone and that a SELECT still finds alive went by an
update of this patch; the names are known, so that what earlier operations were
about stays what it is; each creation so far is justified (`CreationsAreOK`); what
is not told yet is what the operation at hand is about to tell. What has been
asked for a patch is among the answers, and a request is made only for something
that is not (`NothingIsAskedTwice`). *Packs*: first, sums over a finite set
(`SumTheorems`): the recursive function that stands behind `SumFunctionOnSet`
exists, and the sum does not depend on the order that CHOOSE takes
(`SumOfOneMore`, `SumOfTheSame`). Both are shown by a least part of the set for
which they fail (`LeastPart`), as induction over sets is out of reach. `PackInv`
says then of each pass what it has done and what it owes: `CountInv` balances what
is spent and what is left, and after each pass what it promises stays true under
the later ones (nothing more fits; the previous turn is told if it ever could be,
of whose two variants one is best because `Precedes` goes one way); `SizeInv` says
that only an empty pack may be too large, with `FittedFits` for the fixed texts;
`FieldsInv` that a field that was closed short of its due has nothing left that
fits, and that what is chosen later only takes room away (`DueStays`). The
assumptions on the constants say that each record is offered once and is no turn,
which keys of the database tables give.

**`SessionRecordsProofs`.** *Memories*: a row, or an entity memory, may disagree
with the links only if some turn's job is still in the outbox, or running, that
*decides* the fact: the turn stated it, or ended a link that is gone. The running
job's own plan may disagree only if the outbox has such a turn, because the job
decides all facts of its turn as it reads them (`WhatSyncLeaves`). Hence nothing
is wrong once nothing is due. The endpoint's links only ground facts, so that what
is `fresh` stays true (`FreshIsTrue`). What a list of an entity memory holds is
what it may hold, cut to its room, of the rows it was rebuilt from. *Rest*: a
callback that was used, and is not `erased`, may be used again one cooldown later
and not before; a running job writes the cooldowns it read, and what was used
meanwhile is marked as erased when it does. *Windows* (`WindowInv`): a window was
told of as often as it counts shows and as turns resolved it while they showed it,
of which there was one at most for each time it was opened (`CountsAgree`); its
most is no more than what was granted; and until results are applied what was
picked this turn is still due. *Cache* (`CacheInv`): remaining life and age of an
entry make at most two lifetimes in the first tier and one in the second, and a
thread about to fill the first holds a text no older than one. *Ledger*: who had
an item can be told of the log of operations alone, in which creations of objects
are the flushes: `GiversAt` is who got it last before the last flush, or the owner
before the turn. While the turn is told, `LinksOK` says of each item (`BatchOK`)
that whoever a SELECT finds had it at the last flush, that the links added since
have closed all of them, and that whoever the log remembers as closed
(`Remembered`), or that it remembers nobody (`Forgotten`), agrees with that
(`Fits`) at each operation that gives the item. While they are read,
`pending_previous_holders` is what the log remembers (`GiversOK`), so that the
giver is one who had it. Of the patch that is read, `Accounting` balances: some of
the obligations that concern it and are no longer open are paid, each of them
recorded, and with what is left of the cash they make all of it; each other one
could not be paid of what those before it had left. The order of the obligations
is total (`OneComesFirst`), and that is what keeps the last part true while later
ones are paid. Once a patch is read it is `Accounted` for good, as entries are
only added; and as each entry is there once and is of one patch, no two patches
settle the same (`SettledOnce`). The assumption is that obligations have keys of
their own.

**What the proofs found.** Attempts that failed for a good reason changed the
models: two cases of the planner's next step overlapped, so that the CASE chose
silently; the review of `BackgroundWorkers` needs at least one version of its
rows; a batch has at least one operation; objects of two types have two ids; a
union in `NarratorView` was read in another way by the two parsers. The order of a
patch's operations was a recursion and is now defined by what it is, so that it
can be proved about. Fitting field by field was a fold over a ranked sequence that
broke ties for the code; it is now one step per item, ties broken either way. The
ledger was made by folds in one action; it is now made in the code's steps. What
was said of it was true only as long as no told event looked like a settlement or
a hire, because then the patch's own entry is left out: it now asks for an entry
that looks so, whoever it is of, and says of each obligation that was passed over
what was left when its turn came. What `AppliedPatchIsSound` said of creations was
too strong: a patch may change an object and change it back, or create two alike,
and the code compares with what SELECTs find. It is restated in terms of what the
patch had dealt with before, and the run has a patch that needs it.

**Left to TLC.** Liveness under fairness, which is out of this prover's reach:
`RuntimeLockIsFreed`, `HealthyProviderIsServed`, `RunsSettle`,
`ProcessingEnds`, and that shutdown comes to an end in `ShutdownIsOrderly`.
Every safety invariant and every action property of the runs is stated by a
theorem. All theorems are about the models, under the abstractions that the
modules' headers and section 2 name.

## 5. Disagreements found

Four runs show the code doing something else than a document or comment of the
repository says; `PROJECT.json` quotes the lines.

- `graph_accept_and_finish`: a quest accepted and completed in one batch stays
  tracked (`crud_patch_apply.py:1947`).
- `lore_orphaned`: a request that dies between its two transactions leaves lore
  processing for ever (`crud_lore_adaptation.py:1975`).
- `index_links_in_batch`: the link context is that of the links before the batch
  (`crud_patch_apply.py:3113`).
- `callbacks_overlap`: a memory job erases a cooldown written while it ran
  (`crud_continuity.py:1344`).

More is shown by the same modules with other constants or without an exception that
a property makes:

- `EmbeddingIndex` without `overtaken` in `IndexIsCurrent`. A refresh
  job compares the text and then writes, in a transaction that locks neither
  session nor object, and overwrites the vector of a batch that commits in
  between (`crud_entities.py:932`). With two workers a chronicle sync that read
  the turn before a PATCH writes after the sync of the PATCH
  (`crud_turns_logic.py:1035`), although "patched turns need a fresh chronicle
  rebuild from the authoritative turn row" (`crud_turns_logic.py:1196`).
- `TurnLifecycle` with `AdvanceModes = BOOLEAN` violates `CommittedTimeIsKept`:
  recovery takes one time step back whether or not the turn added one
  (`crud_shared.py:641`). Latent: no caller in `src/` passes
  `advance_time=False`.

What the code does and no document speaks of, met while modelling. The
properties are stated so that they allow it; whoever maintains the code may
want to change it.

- *Commands.* A retcon reports the latest turn as affected even when the snapshot
  before it lies further back and more turns go; a replay that fails leaves the
  retconned turn gone (`command_services.py:254`).
- *Context.* A unified pack may exceed its cap by the keys of its empty lists. A
  spine update that fails, or a turn without a pack, makes the spine pass over a
  turn for good. The second look at the world prompt reads an object the session
  keeps over the commit, so it cannot see a change (`crud_context.py:522`).
- *Economy.* Two obligations alike, paid at once, are recorded as one although
  both amounts are taken; cash spent on stock settles debts as well; two patches
  of one object in a turn are both compared with the state before it; a transfer
  repeated in a turn is dropped, and one told without a quantity is counted beside
  the link's; the promise of an item counts as its transfer. A second hand-over of
  an item in a batch that was not flushed in between finds the first owner again
  (`crud_patch_apply.py:2070`): the log closes that one twice, the ledger has the
  item go from that one to both, and both links stay active.
- *Runtime lock.* An unlock that raises is logged, and `close()` gives the
  connection back to the pool with the lock (`crud_shared.py:930-942`,
  `db.py:260-268`), although the log says that it is released "when the connection
  closes". Until the pool ends the connection a session answers 409, but for
  requests that are given that connection.
- *Links.* The endpoint takes any link (`crud_entities.py:1596-1806`): a second
  owner of an item, a feeling beside its opposite, the tracking of a quest that
  has ended, a link to a claim that nobody there could hear. It closes nothing. A
  later turn of the story does, and what the narrator is told in between is what
  the client wrote.
- *Claims.* A claim whose first listener is not flushed yet may still be reworded
  by the same batch (`crud_patch_apply.py:415-437`): the check for an audience is
  a SELECT.
- *Consequences.* A window that one turn shows and resolves is not counted as
  shown (`crud_consequences.py:538-541`); opened again with the same key it may be
  told of once more than was asked.
- *Memories.* An ownership is a fact only when the player is the owner
  (`crud_continuity.py:911-916`): the return of an item to an NPC restates
  nothing, and the older row stays inactive. A list of an entity memory holds six
  facts and says nothing of those it has no room for
  (`crud_continuity.py:2198-2222`).
- *Index.* Scalar facts of zones, items, factions and quests, and the `ctx_*`
  fields, are part of a profile's text and change it with neither a vector nor an
  event (`crud_profiles.py:377-392`, `506-539`; `crud_patch_apply.py:491`, `554`,
  `3261`). A turn that is told by its snippet stays indexed by it when a PATCH
  rewrites its prose (`crud_turns_logic.py:1034-1056`, `1186`).
- *Objects.* `AppliedPatchIsSound` asks for facts of characters only, as the
  refresh rules of other types watch none. `ctx_last_touched_turn` is part of
  `data`, thus of a text and of the synthesizer's key, so that every touch is
  another text (`crud_profiles.py:124`). A creation is compared with what SELECTs
  find: not with the one before it in the batch, nor with an object whose first
  vector is still to be written, and with one that the batch has just made
  inactive. A lasting creation that is merged into an ephemeral NPC leaves it
  ephemeral, and one merged into an NPC offstage leaves it there.
- *Memory facts.* `_apply_same_turn_causal_links` looks rows up by fact key,
  without the session, and keeps one row per key (`crud_embeddings_ops.py:841`):
  the link may be added to a row of the same key that is over.

## 6. What is not modelled

- Packages that are not in the repository, beyond what `src/` shows of them: the
  turn pipeline, the economy's policy (`domain/`), projections of memories, the
  review's rules, snapshots.
- Memory facts (`_store_memory_candidates` in `crud_embeddings_ops.py`): what
  becomes of a fact that is stated again, which facts share a slot and which
  supersede others is decided by `domain/memory_policy` and the rows are found by
  `persistence/`, neither of which is in the repository. A model would check its
  own assumptions about them.
- The repair of a player without a location (planned), bundles of memories and
  the choice of memory blocks for a prompt in `crud_continuity.py`.
- Texts: the words of prompts, summaries, translations, log lines, prices of
  models; the prompt sections of `crud_planning.py`; ranking, reaction hints and
  the reformulation of queries in `crud_context.py`.
- The queue of consequences in `state_json`, which the runtime no longer reads,
  except as a source of windows; how triggers match tags and flags.
- Migrations: they run once, before the program starts. The constraints they
  leave (one active edge, one active `located_in`, windows, singletons) are
  guards of the models.
- Telemetry, routing, settings and wiring (`main.py`, `session_services.py`,
  `run.py` ...): no protocol another part depends on. Where they decide a
  behaviour (autoflush, `expire_on_commit`) the models have it.
- Databases other than PostgreSQL: without advisory locks the code falls back
  on a timeout only; `TurnLifecycle` models the PostgreSQL branch.
- In each module, what its header and its note in `PROJECT.json` say.

## 7. Plan

Modelled, in this order: `GameClock`, `TurnLog`, `TurnLifecycle`;
`CircuitBreaker`; `WorldDirector`; `WorldGraph`; `LoreAdaptation`;
`EmbeddingIndex`; `CallbackMemory`; then `TurnPlanning`, `BackgroundWorkers`,
`PlayerCommands`, `NarratorView`, `ClaimKnowledge`, `PromptBudget`,
`PromptTexts`, `ConsequenceWindows`, `TwoTierCache`, `Economy`, `ObjectPatches`;
then the five compositions, to which the proofs refer.

Next to model: `LocationRepair`; the bundles of `CallbackMemory` and its facts
with context objects (the hazard at `crud_continuity.py:1655`). Abstract
specifications worth stating: an outbox that runs each due job at least once
(for `WorldDirector`, `EmbeddingIndex`, `CallbackMemory`); a set of memories that
follows the links.

Theorems next: the abstract outbox, with the three modules that implement it.

-------------------------- MODULE BackgroundWorkers --------------------------
(***************************************************************************)
(* The daemon threads of a server process (background_workers.py), from    *)
(* the start of the application to its shutdown (main.py), and the one     *)
(* that is always there: the memory review, which every few minutes        *)
(* rebuilds the reports of all sessions in one transaction                 *)
(* (memory_services.py).                                                   *)
(*                                                                         *)
(* The derivation of a report from memory rows is library code; what       *)
(* matters here is which rows a report was made from, as a version number. *)
(***************************************************************************)
EXTENDS Integers, FiniteSets

CONSTANTS Workers,    \* threads
          Loop,       \* the one that runs run_review_loop
          Sessions,
          MaxVersion, \* bound on the changes of a session's memory
          Slices      \* join slices that fit into the timeout of the wait

VARIABLES workers,  \* _workers
          thread,   \* "new", "added", "running", "leaving" or "gone"
          shutdown, \* _shutdown_requested
          wait,     \* [at, left]: wait_for_background_workers
          rows,     \* the version of each session's turns and memories
          reports,  \* the version each published report was made from
          review    \* [at, todo, written]: the review loop and its transaction

vars == <<workers, thread, shutdown, wait, rows, reports, review>>

TypeOK ==
    /\ workers \subseteq Workers
    /\ thread \in [Workers -> {"new", "added", "running", "leaving", "gone"}]
    /\ shutdown \in BOOLEAN
    /\ wait.at \in {"none", "look", "join", "clear", "late"}
    /\ wait.left \in 0..Slices
    /\ rows \in [Sessions -> 0..MaxVersion]
    /\ reports \in [Sessions -> 0..MaxVersion]
    /\ review.at \in {"off", "check", "list", "session", "commit", "sleep"}
    /\ review.todo \subseteq Sessions
    /\ review.written \in [Sessions -> 0..MaxVersion]

\* The lifespan begins with allow_new_workers.
Init ==
    /\ workers = {}
    /\ thread = [w \in Workers |-> "new"]
    /\ shutdown = FALSE
    /\ wait = [at |-> "none", left |-> Slices]
    /\ rows = [s \in Sessions |-> 1]
    /\ reports = [s \in Sessions |-> 0]
    /\ review = [at |-> "off", todo |-> {}, written |-> reports]

reviewVars == <<rows, reports, review>>
-----------------------------------------------------------------------------
(***************************************************************************)
(* The registry.                                                           *)
(***************************************************************************)

IsAlive(w) == thread[w] \in {"running", "leaving"}

\* _cleanup_finished_workers_locked: a thread not started yet is not alive.
CleanupFinishedWorkers == {w \in workers : IsAlive(w)}

\* start_background_worker, under its lock: none is taken on after shutdown.
\* The lifespan starts the workers one after the other.
Register(w) ==
    /\ thread[w] = "new"
    /\ \A v \in Workers : thread[v] # "added"
    /\ workers' = CleanupFinishedWorkers \cup (IF shutdown THEN {} ELSE {w})
    /\ thread' = [thread EXCEPT ![w] = IF shutdown THEN "gone" ELSE "added"]
    /\ UNCHANGED <<shutdown, wait, reviewVars>>

\* worker.start(), after the lock.
StartThread(w) ==
    /\ thread[w] = "added"
    /\ thread' = [thread EXCEPT ![w] = "running"]
    /\ review' = IF w = Loop THEN [review EXCEPT !.at = "check"] ELSE review
    /\ UNCHANGED <<workers, shutdown, wait, rows, reports>>

\* The target of another worker returns or raises.
TargetEnds(w) ==
    /\ w # Loop /\ thread[w] = "running"
    /\ thread' = [thread EXCEPT ![w] = "leaving"]
    /\ UNCHANGED <<workers, shutdown, wait, reviewVars>>

\* _runner's finally: the thread takes itself out, then it ends.
RunnerLeaves(w) ==
    /\ thread[w] = "leaving"
    /\ workers' = workers \ {w}
    /\ thread' = [thread EXCEPT ![w] = "gone"]
    /\ UNCHANGED <<shutdown, wait, reviewVars>>

\* The lifespan ends, which had started them all: begin_shutdown, then the
\* wait.
BeginShutdown ==
    /\ ~shutdown
    /\ \A w \in Workers : thread[w] \notin {"new", "added"}
    /\ shutdown' = TRUE
    /\ wait' = [wait EXCEPT !.at = "look"]
    /\ UNCHANGED <<workers, thread, reviewVars>>

\* wait_for_background_workers, one look under the lock.
WaitLooks ==
    /\ wait.at = "look"
    /\ workers' = CleanupFinishedWorkers
    /\ wait' = [wait EXCEPT !.at = IF CleanupFinishedWorkers = {} THEN "clear"
                                   ELSE IF wait.left = 0 THEN "late"
                                   ELSE "join"]
    /\ UNCHANGED <<thread, shutdown, reviewVars>>

\* It joins each of them for a slice of the time; only ended threads cost none.
WaitJoins ==
    /\ wait.at = "join"
    /\ \E left \in 0..wait.left :
          /\ left = wait.left => \A w \in Workers : ~IsAlive(w)
          /\ wait' = [wait EXCEPT !.at = "look", !.left = left]
    /\ UNCHANGED <<workers, thread, shutdown, reviewVars>>
-----------------------------------------------------------------------------
(***************************************************************************)
(* The memory review.                                                      *)
(***************************************************************************)

\* Turns go on meanwhile.
Remember(s) ==
    /\ rows[s] < MaxVersion
    /\ rows' = [rows EXCEPT ![s] = @ + 1]
    /\ UNCHANGED <<workers, thread, shutdown, wait, reports, review>>

\* run_review_loop looks at shutdown before each round.
LoopChecks ==
    /\ review.at = "check"
    /\ IF shutdown
       THEN /\ review' = [review EXCEPT !.at = "off"]
            /\ thread' = [thread EXCEPT ![Loop] = "leaving"]
       ELSE review' = [review EXCEPT !.at = "list"] /\ UNCHANGED thread
    /\ UNCHANGED <<workers, shutdown, wait, rows, reports>>

\* run_review_once: one transaction over all sessions, or the ones there were
\* when it listed them.
RunReviewOnce ==
    /\ review.at = "list"
    /\ \E listed \in SUBSET Sessions :
          review' = [at |-> IF listed = {} THEN "commit" ELSE "session",
                     todo |-> listed, written |-> reports]
    /\ UNCHANGED <<workers, thread, shutdown, wait, rows, reports>>

\* build_review_report: everything in it is derived from the rows as they are.
BuildReviewReport(s) == rows[s]

\* The rows derived for one session - obligations, conflicts, report,
\* evaluation, profile - are written together.
ReviewSession(s) ==
    /\ review.at = "session" /\ s \in review.todo
    /\ review' = [at |-> IF review.todo = {s} THEN "commit" ELSE "session",
                  todo |-> review.todo \ {s},
                  written |-> [review.written EXCEPT ![s] = BuildReviewReport(s)]]
    /\ UNCHANGED <<workers, thread, shutdown, wait, rows, reports>>

CommitReview ==
    /\ review.at = "commit"
    /\ reports' = review.written
    /\ review' = [review EXCEPT !.at = "sleep"]
    /\ UNCHANGED <<workers, thread, shutdown, wait, rows>>

\* Mutant: a review that fails takes the loop with it.
ReviewKillsLoop ==
    /\ review.at \in {"list", "session", "commit"}
    /\ review' = [review EXCEPT !.at = "off", !.todo = {}]
    /\ thread' = [thread EXCEPT ![Loop] = "leaving"]
    /\ UNCHANGED <<workers, shutdown, wait, rows, reports>>

\* One session that fails takes back the reports of them all; the loop logs
\* it and goes on.
ReviewFails ==
    /\ review.at \in {"list", "session", "commit"}
    /\ review' = [review EXCEPT !.at = "sleep", !.todo = {}]
    /\ UNCHANGED <<workers, thread, shutdown, wait, rows, reports>>

\* wait_for_shutdown: the time is over, or shutdown has begun.
LoopWakes ==
    /\ review.at = "sleep"
    /\ review' = [review EXCEPT !.at = "check"]
    /\ UNCHANGED <<workers, thread, shutdown, wait, rows, reports>>

\* The process has stopped.
Exited ==
    /\ wait.at \in {"clear", "late"}
    /\ \A w \in Workers : thread[w] = "gone"
    /\ UNCHANGED vars

Next ==
    \/ \E w \in Workers : \/ Register(w) \/ StartThread(w)
                          \/ TargetEnds(w) \/ RunnerLeaves(w)
    \/ BeginShutdown \/ WaitLooks \/ WaitJoins
    \/ \E s \in Sessions : Remember(s) \/ ReviewSession(s)
    \/ LoopChecks \/ RunReviewOnce \/ CommitReview \/ ReviewFails \/ LoopWakes
    \/ Exited

Spec == Init /\ [][Next]_vars

\* Threads are scheduled: a step of the loop, of a thread that ends and of
\* the wait is taken at some time.
Fairness ==
    /\ WF_vars(LoopChecks) /\ WF_vars(LoopWakes)
    /\ WF_vars(RunReviewOnce \/ CommitReview \/ ReviewFails
               \/ \E s \in Sessions : ReviewSession(s))
    /\ \A w \in Workers : WF_vars(RunnerLeaves(w)) /\ WF_vars(StartThread(w))
    /\ WF_vars(WaitLooks) /\ WF_vars(WaitJoins)
-----------------------------------------------------------------------------
\* The review survives its failures: it runs until shutdown.
ReviewRunsUntilShutdown ==
    [][thread[Loop] = "running" /\ thread'[Loop] # "running" => shutdown]_vars

\* The wait reports that no worker is left only when none runs any more.
NobodyIsLeftBehind == wait.at = "clear" => \A w \in Workers : ~IsAlive(w)

\* Moreover, after shutdown the review ends, and the wait ends too, although
\* other workers may not.
ShutdownIsOrderly ==
    /\ ReviewRunsUntilShutdown
    /\ []NobodyIsLeftBehind
    /\ shutdown ~> thread[Loop] = "gone"
    /\ shutdown ~> wait.at \in {"clear", "late"}
=============================================================================

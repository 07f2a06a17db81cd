------------------------ MODULE SessionRecordsProofs ------------------------
(***************************************************************************)
(* What is kept of a session beside the graph never says what it should    *)
(* not, for any number of facts, keys, threads and turns: the memories of  *)
(* facts, the reminders of consequences, the cache of texts, and the       *)
(* ledger that is derived of a turn.                                       *)
(***************************************************************************)
EXTENDS SessionRecords, SumTheorems, SequenceTheorems, TLAPS

-----------------------------------------------------------------------------
(***************************************************************************)
(* Callbacks and entity memories.  What the narrator knows of a fact may be *)
(* out of date, but never without a job that will put it right: a row that *)
(* says what is not so, or says nothing of what is, has a turn in the      *)
(* outbox, or running, whose job decides that very fact; and an entity     *)
(* memory that does not list what the rows say has one that rebuilds it.   *)
(* A running job may itself have read links that changed since; then the   *)
(* turn that changed them is still in the outbox.                          *)
(***************************************************************************)

\* The job of turn n, run with these links, leaves fact f right.
Decides(n, f) ==
    \/ f \in log[n].stated
    \/ ~Grounded(f, links) /\ Grounds[f] \cap log[n].changed # {}

\* The turns whose job is still to commit.
Due == IF job = NoJob THEN queue ELSE queue \cup {job.turn}

\* A row that is active, or is not, is wrong about its fact.
Amiss(active, f) ==
    \/ active /\ ~Grounded(f, links)
    \/ f \in fresh /\ ~active

JobOK ==
    job # NoJob =>
        /\ job.turn \in 1..turn
        /\ job.read \in [Facts -> Rows]
        /\ job.rows \in [Facts -> Rows]
        /\ \A f \in Facts: job.rows[f].active => job.rows[f].source # 0
        /\ job.memories \in [Touched(job.turn) -> Memories]

\* Only callbacks' cooldowns change while a job runs.
ReadIsCurrent ==
    job # NoJob => \A f \in Facts: job.read[f].active = callbacks[f].active

FreshIsTrue == \A f \in fresh: Grounded(f, links)

RowsAreFollowed ==
    \A f \in Facts: Amiss(callbacks[f].active, f) => \E n \in Due: Decides(n, f)

JobRowsAreFollowed ==
    job # NoJob =>
        \A f \in Facts: Amiss(job.rows[f].active, f) => \E n \in queue: Decides(n, f)

MemoriesAreFollowed ==
    \A o \in Objects, l \in DOMAIN Lists:
        memories[o][l] \notin Shortened(Visible(callbacks, o, l))
            => \E n \in Due: o \in Touched(n)

\* What the job writes of an object is of the rows it writes.
JobMemoriesAreOfItsRows ==
    job # NoJob =>
        \A o \in Touched(job.turn), l \in DOMAIN Lists:
            job.memories[o][l] \in Shortened(Visible(job.rows, o, l))

\* Where it changes a row of an object that it does not rebuild, another turn's
\* job rebuilds it.
JobChangesAreFollowed ==
    job # NoJob =>
        \A f \in Facts: job.rows[f].active # callbacks[f].active =>
            \A o \in Anchors[f]: o \in Touched(job.turn) \/ \E n \in queue: o \in Touched(n)

IInv ==
    /\ TypeOK
    /\ JobOK
    /\ ReadIsCurrent
    /\ FreshIsTrue
    /\ RowsAreFollowed
    /\ JobRowsAreFollowed
    /\ MemoriesAreFollowed
    /\ JobMemoriesAreOfItsRows
    /\ JobChangesAreFollowed
-----------------------------------------------------------------------------
USE AnchorsAssumption, RivalsAssumption, CooldownAssumption, BoundsAssumption

LEMMA InitHolds == Init => IInv
<1> SUFFICES ASSUME Init PROVE IInv
  OBVIOUS
<1>1. TypeOK
  BY DEF Init, TypeOK, Rows, Absent, Turns, Memories
<1>2. job = NoJob /\ Due = {}
  BY DEF Init, Due
<1>3. RowsAreFollowed /\ FreshIsTrue
  BY <1>2 DEF Init, RowsAreFollowed, Amiss, FreshIsTrue, Absent
<1>4. MemoriesAreFollowed
  <2> SUFFICES ASSUME NEW o \in Objects, NEW l \in DOMAIN Lists
               PROVE  memories[o][l] \in Shortened(Visible(callbacks, o, l))
    BY DEF MemoriesAreFollowed
  <2>1. memories[o][l] = {} /\ Visible(callbacks, o, l) = {}
    BY ListsAssumption DEF Init, Visible, Absent
  <2>2. Cardinality({}) = 0
    BY FS_EmptySet
  <2> QED
    BY <2>1, <2>2, ListsAssumption DEF Shortened
<1> QED
  BY <1>1, <1>2, <1>3, <1>4 DEF IInv, JobOK, ReadIsCurrent, JobRowsAreFollowed,
                                JobMemoriesAreOfItsRows, JobChangesAreFollowed

\* A turn that states or ends a fact touches all the objects of the fact.
LEMMA DecidedIsTouched ==
  ASSUME TypeOK, NEW n \in 1..turn, NEW f \in Facts, Decides(n, f)
  PROVE  Anchors[f] \subseteq Touched(n) /\ Anchors[f] # {}
<1>0. n \in Turns
  BY DEF TypeOK, Turns
<1>1. PICK g \in Grounds[f] : g \in log[n].stated \cup log[n].changed
  BY GroundsAssumption DEF Decides
<1>2. g \in Facts /\ Anchors[g] = Anchors[f] /\ Anchors[f] # {}
  BY GroundsAssumption
<1> QED
  BY <1>1, <1>2 DEF Touched

\* What the job of turn n writes.
LEMMA WhatSyncWrites ==
  ASSUME TypeOK, NEW n \in 1..turn
  PROVE  /\ Validated(n) \in [Facts -> Rows]
         /\ \A f \in Facts: Validated(n)[f].active => Validated(n)[f].source # 0
         /\ \A f \in Facts: Validated(n)[f].active <=>
                /\ Anchors[f] \cap Touched(n) = {} \/ Grounded(f, links)
                /\ f \in log[n].stated \/ callbacks[f].active
<1>0. n \in 1..MaxTurn /\ n \in 0..MaxTurn /\ n # 0
  BY DEF TypeOK
<1>1. Upserted(n) \in [Facts -> Rows]
  BY <1>0 DEF Upserted, Rows, TypeOK
<1>2. \A f \in Facts:
        /\ Upserted(n)[f].active <=> f \in log[n].stated \/ callbacks[f].active
        /\ Upserted(n)[f].active => Upserted(n)[f].source # 0
  <2> SUFFICES ASSUME NEW f \in Facts
               PROVE /\ Upserted(n)[f].active
                            <=> f \in log[n].stated \/ callbacks[f].active
                     /\ Upserted(n)[f].active => Upserted(n)[f].source # 0
    OBVIOUS
  <2>1. callbacks[f] \in Rows
    BY DEF TypeOK
  <2>2. CASE f \in log[n].stated
    <3>1. Upserted(n)[f] = [callbacks[f] EXCEPT !.active = TRUE, !.source = n]
      BY <2>2 DEF Upserted
    <3> QED
      BY <1>0, <2>1, <2>2, <3>1 DEF Rows
  <2>3. CASE f \notin log[n].stated
    BY <2>3 DEF Upserted, TypeOK
  <2> QED
    BY <2>2, <2>3
<1>3. Validated(n) \in [Facts -> Rows]
  BY <1>1 DEF Validated, Rows
<1>4. ASSUME NEW f \in Facts
      PROVE  /\ Validated(n)[f].active => Validated(n)[f].source # 0
             /\ Validated(n)[f].active <=>
                    /\ Anchors[f] \cap Touched(n) = {} \/ Grounded(f, links)
                    /\ f \in log[n].stated \/ callbacks[f].active
  <2>1. CASE Anchors[f] \cap Touched(n) # {} /\ ~Grounded(f, links)
    <3>1. Validated(n)[f] = [Upserted(n)[f] EXCEPT !.active = FALSE]
      BY <2>1 DEF Validated
    <3>2. ~Validated(n)[f].active
      BY <1>1, <3>1 DEF Rows
    <3> QED
      BY <2>1, <3>2
  <2>2. CASE ~(Anchors[f] \cap Touched(n) # {} /\ ~Grounded(f, links))
    <3>1. Validated(n)[f] = Upserted(n)[f]
      BY <2>2 DEF Validated
    <3> QED
      BY <1>2, <2>2, <3>1
  <2> QED
    BY <2>1, <2>2
<1> QED
  BY <1>3, <1>4

\* A fact the job leaves wrong was wrong before, and not for this job to decide.
LEMMA WhatSyncLeaves ==
  ASSUME TypeOK, FreshIsTrue, NEW n \in 1..turn, NEW f \in Facts,
         Amiss(Validated(n)[f].active, f)
  PROVE  Amiss(callbacks[f].active, f) /\ ~Decides(n, f)
<1>1. Validated(n)[f].active <=>
          /\ Anchors[f] \cap Touched(n) = {} \/ Grounded(f, links)
          /\ f \in log[n].stated \/ callbacks[f].active
  BY WhatSyncWrites
<1>2. Decides(n, f) => Anchors[f] \cap Touched(n) # {}
  BY DecidedIsTouched
<1>3. f \in log[n].stated => Decides(n, f)
  BY DEF Decides
<1>4. Grounded(f, links) /\ Decides(n, f) => f \in log[n].stated
  BY DEF Decides
<1>5. f \in fresh => Grounded(f, links)
  BY DEF FreshIsTrue
<1> QED
  BY <1>1, <1>2, <1>3, <1>4, <1>5 DEF Amiss

\* A row the job changes was wrong, or is of a fact its turn states.
LEMMA WhatSyncChanges ==
  ASSUME TypeOK, NEW n \in 1..turn, NEW f \in Facts,
         Validated(n)[f].active # callbacks[f].active
  PROVE  Amiss(callbacks[f].active, f) \/ Decides(n, f)
<1>1. Validated(n)[f].active <=>
          /\ Anchors[f] \cap Touched(n) = {} \/ Grounded(f, links)
          /\ f \in log[n].stated \/ callbacks[f].active
  BY WhatSyncWrites
<1>2. Validated(n)[f].active \in BOOLEAN /\ callbacks[f].active \in BOOLEAN
  BY WhatSyncWrites DEF TypeOK, Rows
<1>3. f \in log[n].stated => Decides(n, f)
  BY DEF Decides
<1> QED
  BY <1>1, <1>2, <1>3 DEF Amiss

\* The memories the job of turn n writes are those of the rows it writes.
LEMMA WhatSyncRebuilds ==
  ASSUME NEW n, NEW cut \in Cuts
  PROVE  /\ Rebuilt(n, cut) \in [Touched(n) -> Memories]
         /\ \A o \in Touched(n), l \in DOMAIN Lists:
                Rebuilt(n, cut)[o][l] \in Shortened(Visible(Validated(n), o, l))
<1>1. \A o, l: l \in DOMAIN Lists => Visible(Validated(n), o, l) \in SUBSET Facts
  BY ListsAssumption DEF Visible
<1>2. \A set \in SUBSET Facts: cut[set] \in Shortened(set) /\ cut[set] \in SUBSET Facts
  BY ListsAssumption DEF Shortened
<1> QED
  BY <1>1, <1>2 DEF Rebuilt, Memories

\* Rows that are active alike show the same.
LEMMA SameVisible ==
  ASSUME NEW o, NEW l \in DOMAIN Lists, NEW p, NEW q,
         \A f \in Facts: o \in Anchors[f] => (p[f].active <=> q[f].active)
  PROVE  Visible(p, o, l) = Visible(q, o, l)
BY ListsAssumption DEF Visible
-----------------------------------------------------------------------------
\* A turn, or a link of the endpoint, decides every fact whose link it closes
\* and every one it states, and owes a job.  What else is wrong was so before.
LEMMA DecidedOn ==
  ASSUME IInv, NEW stated \in SUBSET Facts, NEW changed \in SUBSET Facts,
         NEW newLinks \in SUBSET Facts, links \ newLinks \subseteq changed,
         Turn(stated, changed, newLinks), NEW n, n = turn + 1,
         NEW f \in Facts, NEW active \in BOOLEAN, Amiss(active, f)'
  PROVE  \/ Decides(n, f)'
         \/ /\ Amiss(active, f)
            /\ \A m \in 1..turn: Decides(m, f) => Decides(m, f)'
<1>0. /\ turn \in 0..MaxTurn /\ turn < MaxTurn /\ links' = newLinks
      /\ fresh' = {g \in fresh \cup stated: Grounded(g, newLinks)}
      /\ log' = [log EXCEPT ![turn + 1] = [stated |-> stated, changed |-> changed]]
      /\ log \in [Turns -> [stated: SUBSET Facts, changed: SUBSET Facts]]
  BY DEF IInv, TypeOK, Turn
<1>1. /\ log'[n].stated = stated /\ log'[n].changed = changed
  BY <1>0 DEF Turns
<1>2. \A m \in 1..turn: log'[m] = log[m]
  BY <1>0 DEF Turns
<1>3. f \in fresh => Grounded(f, links)
  BY DEF IInv, FreshIsTrue
<1>4. CASE f \in stated
  BY <1>1, <1>4 DEF Decides
<1>5. CASE f \notin stated /\ active /\ ~Grounded(f, newLinks)
  <2>1. CASE Grounded(f, links)
    <3>1. PICK g \in Grounds[f] : g \in links /\ g \notin newLinks
      BY <1>5, <2>1 DEF Grounded
    <3> QED
      BY <1>0, <1>1, <1>5, <3>1 DEF Decides
  <2>2. CASE ~Grounded(f, links)
    <3>1. Amiss(active, f)
      BY <1>5, <2>2 DEF Amiss
    <3>2. \A m \in 1..turn: Decides(m, f) => Decides(m, f)'
      BY <1>0, <1>2, <1>5, <2>2 DEF Decides
    <3> QED
      BY <3>1, <3>2
  <2> QED
    BY <2>1, <2>2
<1>6. CASE f \notin stated /\ f \in fresh' /\ ~active
  <2>1. f \in fresh /\ Grounded(f, links) /\ Grounded(f, newLinks)
    BY <1>0, <1>3, <1>6
  <2>2. Amiss(active, f)
    BY <1>6, <2>1 DEF Amiss
  <2>3. \A m \in 1..turn: Decides(m, f) => Decides(m, f)'
    BY <1>0, <1>2, <2>1 DEF Decides
  <2> QED
    BY <2>2, <2>3
<1> QED
  BY <1>0, <1>4, <1>5, <1>6 DEF Amiss

LEMMA TurnStep ==
  ASSUME IInv,
         NEW stated \in SUBSET Facts, NEW changed \in SUBSET Facts,
         NEW newLinks \in SUBSET Facts, links \ newLinks \subseteq changed,
         Turn(stated, changed, newLinks)
  PROVE  IInv'
<1>a. TypeOK /\ JobOK /\ ReadIsCurrent
  BY DEF IInv
<1>n. PICK n \in Nat : n = turn + 1
  BY <1>a DEF TypeOK
<1>b. /\ turn \in 0..MaxTurn /\ turn < MaxTurn /\ n \in 1..MaxTurn
      /\ queue \subseteq 1..turn
  BY <1>a, <1>n DEF TypeOK, Turn
<1>c. /\ turn' = n /\ links' = newLinks /\ queue' = queue \cup {n}
      /\ fresh' = {f \in fresh \cup stated: Grounded(f, newLinks)}
      /\ UNCHANGED <<job, callbacks, memories, used, erased, repeats>>
      /\ log' = [log EXCEPT ![n] = [stated |-> stated, changed |-> changed]]
  BY <1>n DEF Turn
<1>d. \A m \in 1..turn: log'[m] = log[m]
  BY <1>a, <1>n, <1>b, <1>c DEF TypeOK, Turns
<1>f. \A m \in 1..turn: Touched(m)' = Touched(m)
  BY <1>d DEF Touched
<1>1. TypeOK' /\ FreshIsTrue'
  BY <1>a, <1>n, <1>b, <1>c DEF TypeOK, Turns, FreshIsTrue
<1>2. JobOK' /\ ReadIsCurrent'
  BY <1>a, <1>n, <1>b, <1>c, <1>f DEF JobOK, ReadIsCurrent, NoJob
<1>g. Due \subseteq 1..turn /\ Due' = Due \cup {n}
  BY <1>a, <1>n, <1>b, <1>c DEF Due, JobOK
<1>h. ASSUME NEW f \in Facts, NEW active \in BOOLEAN, Amiss(active, f)'
      PROVE  \/ Decides(n, f)'
             \/ Amiss(active, f) /\ \A m \in 1..turn: Decides(m, f) => Decides(m, f)'
  BY <1>h, <1>n, DecidedOn
<1>3. RowsAreFollowed'
  <2> SUFFICES ASSUME NEW f \in Facts, Amiss(callbacks[f].active, f)'
               PROVE  \E m \in Due': Decides(m, f)'
    BY DEF RowsAreFollowed
  <2>1. callbacks[f].active \in BOOLEAN /\ callbacks'[f].active = callbacks[f].active
    BY <1>a, <1>c DEF TypeOK, Rows
  <2>2. CASE Decides(n, f)'
    BY <1>g, <2>2
  <2>3. CASE ~Decides(n, f)'
    <3>1. /\ Amiss(callbacks[f].active, f)
          /\ \A m \in 1..turn: Decides(m, f) => Decides(m, f)'
      BY <1>h, <2>1, <2>3 DEF Amiss
    <3>2. PICK m \in Due: Decides(m, f)
      BY <3>1 DEF IInv, RowsAreFollowed
    <3> QED
      BY <1>g, <3>1, <3>2
  <2> QED
    BY <2>2, <2>3
<1>4. JobRowsAreFollowed'
  <2> SUFFICES ASSUME job # NoJob, NEW f \in Facts, Amiss(job.rows[f].active, f)'
               PROVE  \E m \in queue': Decides(m, f)'
    BY <1>c DEF JobRowsAreFollowed, NoJob
  <2>1. job.rows[f].active \in BOOLEAN /\ job' = job
    BY <1>a, <1>c DEF JobOK, Rows
  <2>2. CASE Decides(n, f)'
    BY <1>c, <2>2
  <2>3. CASE ~Decides(n, f)'
    <3>1. /\ Amiss(job.rows[f].active, f)
          /\ \A m \in 1..turn: Decides(m, f) => Decides(m, f)'
      BY <1>h, <2>1, <2>3 DEF Amiss
    <3>2. PICK m \in queue: Decides(m, f)
      BY <3>1 DEF IInv, JobRowsAreFollowed
    <3> QED
      BY <1>b, <1>c, <3>1, <3>2
  <2> QED
    BY <2>2, <2>3
<1>5. MemoriesAreFollowed'
  <2> SUFFICES ASSUME NEW o \in Objects, NEW l \in DOMAIN Lists,
                      memories[o][l] \notin Shortened(Visible(callbacks, o, l))
               PROVE  \E m \in Due': o \in Touched(m)'
    BY <1>c DEF MemoriesAreFollowed, Visible
  <2>1. PICK m \in Due: o \in Touched(m)
    BY DEF IInv, MemoriesAreFollowed
  <2> QED
    BY <1>f, <1>g, <2>1
<1>j. job # NoJob => Touched(job.turn)' = Touched(job.turn)
  BY <1>a, <1>c, <1>f DEF JobOK
<1>6. JobMemoriesAreOfItsRows'
  BY <1>c, <1>j DEF IInv, JobMemoriesAreOfItsRows, Visible, NoJob
<1>7. JobChangesAreFollowed'
  BY <1>b, <1>c, <1>f, <1>j DEF IInv, JobChangesAreFollowed, NoJob
<1> QED
  BY <1>1, <1>2, <1>3, <1>4, <1>5, <1>6, <1>7 DEF IInv

\* A link that is there before anybody tells of it makes nothing wrong.
LEMMA PostStep ==
  ASSUME IInv, NEW g \in Facts, PostLink(g) PROVE IInv'
<1>1. /\ UNCHANGED <<turn, fresh, log, queue, job, callbacks, memories, used, erased,
                     repeats>>
      /\ links' = links \cup {g} /\ NoJob' = NoJob /\ Due' = Due
  BY DEF PostLink, Due, NoJob
<1>2. \A f: Grounded(f, links) => Grounded(f, links')
  BY <1>1 DEF Grounded
<1>3. \A f, active: Amiss(active, f)' => Amiss(active, f)
  BY <1>1, <1>2 DEF Amiss
<1>4. ASSUME NEW f, NEW n, FreshIsTrue, NEW active, Amiss(active, f)', Decides(n, f)
      PROVE  Decides(n, f)'
  <2>1. f \in fresh => Grounded(f, links) /\ Grounded(f, links')
    BY <1>2, <1>4 DEF FreshIsTrue
  <2> QED
    BY <1>1, <1>4, <2>1 DEF Amiss, Decides
<1>5. \A n: Touched(n)' = Touched(n)
  BY <1>1 DEF Touched
<1>6. TypeOK' /\ JobOK'
  BY <1>1, <1>5 DEF IInv, TypeOK, JobOK
<1>7. ReadIsCurrent' /\ FreshIsTrue' /\ FreshIsTrue
  BY <1>1, <1>2 DEF IInv, ReadIsCurrent, FreshIsTrue
<1>8. RowsAreFollowed'
  BY <1>1, <1>3, <1>4, <1>7 DEF IInv, RowsAreFollowed
<1>9. JobRowsAreFollowed'
  BY <1>1, <1>3, <1>4, <1>7 DEF IInv, JobRowsAreFollowed
<1>10. MemoriesAreFollowed'
  BY <1>1, <1>5 DEF IInv, MemoriesAreFollowed, Visible
<1>11. JobMemoriesAreOfItsRows'
  BY <1>1, <1>5 DEF IInv, JobMemoriesAreOfItsRows, Visible
<1>12. JobChangesAreFollowed'
  BY <1>1, <1>5 DEF IInv, JobChangesAreFollowed
<1> QED
  BY <1>6, <1>7, <1>8, <1>9, <1>10, <1>11, <1>12 DEF IInv

LEMMA PatchStep ==
  ASSUME IInv, NEW n \in Turns, PatchTurn(n) PROVE IInv'
<1>1. TypeOK'
  BY DEF IInv, TypeOK, PatchTurn
<1>2. /\ UNCHANGED <<turn, links, fresh, log, job, callbacks, memories>>
      /\ queue \subseteq queue' /\ NoJob' = NoJob
  BY DEF PatchTurn, NoJob
<1>3. Due \subseteq Due'
  BY <1>2 DEF Due
<1>4. \A m, f: Decides(m, f)' <=> Decides(m, f)
  BY <1>2 DEF Decides
<1>5. \A m: Touched(m)' = Touched(m)
  BY <1>2 DEF Touched
<1>6. JobOK' /\ ReadIsCurrent' /\ FreshIsTrue'
  BY <1>2, <1>5 DEF IInv, JobOK, ReadIsCurrent, FreshIsTrue
<1>7. RowsAreFollowed' /\ JobRowsAreFollowed'
  BY <1>2, <1>3, <1>4 DEF IInv, RowsAreFollowed, JobRowsAreFollowed, Amiss
<1>8. MemoriesAreFollowed'
  BY <1>2, <1>3, <1>5 DEF IInv, MemoriesAreFollowed, Visible
<1>9. JobMemoriesAreOfItsRows'
  BY <1>2, <1>5 DEF IInv, JobMemoriesAreOfItsRows, Visible
<1>10. JobChangesAreFollowed'
  BY <1>2, <1>5 DEF IInv, JobChangesAreFollowed
<1> QED
  BY <1>1, <1>6, <1>7, <1>8, <1>9, <1>10 DEF IInv

\* Using a callback changes nothing but how long it rests.
LEMMA UseStep ==
  ASSUME IInv, NEW g \in Facts, UseCallback(g) PROVE IInv'
<1>a. TypeOK
  BY DEF IInv
<1>b. /\ UNCHANGED <<turn, links, fresh, log, queue, job, memories, repeats>>
      /\ callbacks' = [callbacks EXCEPT ![g].until = RestsUntil(turn)]
      /\ used' = [used EXCEPT ![g] = turn] /\ erased' \subseteq erased
      /\ NoJob' = NoJob
  BY DEF UseCallback, NoJob
<1>c. RestsUntil(turn) \in 0..(MaxTurn + Cooldown)
  BY <1>a DEF TypeOK, RestsUntil
<1>d. callbacks' \in [Facts -> Rows]
  BY <1>a, <1>b, <1>c DEF TypeOK, Rows
<1>e. \A f \in Facts: /\ callbacks'[f].active = callbacks[f].active
                      /\ callbacks'[f].source = callbacks[f].source
  BY <1>a, <1>b DEF TypeOK, Rows
<1>1. TypeOK'
  BY <1>a, <1>b, <1>d, <1>e DEF TypeOK
<1>2. \A m, f: Decides(m, f)' <=> Decides(m, f)
  BY <1>b DEF Decides
<1>3. Due' = Due /\ \A m: Touched(m)' = Touched(m)
  BY <1>b DEF Touched, Due
<1>4. JobOK' /\ FreshIsTrue'
  BY <1>b, <1>3 DEF IInv, JobOK, FreshIsTrue
<1>5. ReadIsCurrent' /\ RowsAreFollowed'
  BY <1>b, <1>e, <1>2, <1>3 DEF IInv, ReadIsCurrent, RowsAreFollowed, Amiss
<1>6. JobRowsAreFollowed'
  BY <1>b, <1>2, <1>3 DEF IInv, JobRowsAreFollowed, Amiss
<1>7. \A o, l: l \in DOMAIN Lists => Visible(callbacks', o, l) = Visible(callbacks, o, l)
  BY <1>e, SameVisible
<1>8. MemoriesAreFollowed'
  BY <1>b, <1>3, <1>7 DEF IInv, MemoriesAreFollowed, Visible
<1>9. JobMemoriesAreOfItsRows'
  BY <1>b, <1>3 DEF IInv, JobMemoriesAreOfItsRows, Visible
<1>10. JobChangesAreFollowed'
  BY <1>b, <1>e, <1>3 DEF IInv, JobChangesAreFollowed
<1> QED
  BY <1>1, <1>4, <1>5, <1>6, <1>8, <1>9, <1>10 DEF IInv

\* A job that starts takes its turn out of the outbox and decides its facts:
\* what it will leave wrong is owed by another turn.
LEMMA BeginStep ==
  ASSUME IInv, NEW n \in Turns, BeginSync(n) PROVE IInv'
<1>a. TypeOK /\ n \in 1..turn /\ n # 0 /\ FreshIsTrue
  BY DEF IInv, TypeOK, BeginSync
<1>z. PICK cut \in Cuts:
         job' = [turn |-> n, read |-> callbacks,
                 rows |-> Validated(n), memories |-> Rebuilt(n, cut)]
  BY DEF BeginSync
<1>b. /\ job = NoJob /\ n \in queue /\ queue' = queue \ {n}
      /\ UNCHANGED <<turn, links, fresh, log, callbacks, memories, used, erased, repeats>>
  BY DEF BeginSync
<1>c. /\ job'.turn = n /\ job'.read = callbacks
      /\ job'.rows = Validated(n) /\ job'.memories = Rebuilt(n, cut)
  BY <1>z
<1>d. job' # NoJob'
  BY <1>a, <1>c DEF NoJob
<1>e. Due = queue /\ Due' = queue
  BY <1>b, <1>c, <1>d DEF Due
<1>f. \A m, f: Decides(m, f)' <=> Decides(m, f)
  BY <1>b DEF Decides
<1>g. \A m: Touched(m)' = Touched(m)
  BY <1>b DEF Touched
<1>1. TypeOK'
  BY <1>a, <1>b, <1>c DEF TypeOK
<1>2. JobOK'
  BY <1>a, <1>b, <1>c, <1>g, WhatSyncWrites, WhatSyncRebuilds DEF JobOK, TypeOK
<1>3. ReadIsCurrent' /\ FreshIsTrue'
  BY <1>b, <1>c DEF IInv, ReadIsCurrent, FreshIsTrue
<1>4. RowsAreFollowed'
  BY <1>b, <1>e, <1>f DEF IInv, RowsAreFollowed, Amiss
<1>5. JobRowsAreFollowed'
  <2> SUFFICES ASSUME NEW f \in Facts, Amiss(Validated(n)[f].active, f)
               PROVE  \E m \in queue': Decides(m, f)'
    BY <1>b, <1>c DEF JobRowsAreFollowed, Amiss
  <2>1. Amiss(callbacks[f].active, f) /\ ~Decides(n, f)
    BY <1>a, WhatSyncLeaves
  <2>2. PICK m \in queue: Decides(m, f)
    BY <1>e, <2>1 DEF IInv, RowsAreFollowed
  <2> QED
    BY <1>b, <1>f, <2>1, <2>2
<1>6. MemoriesAreFollowed'
  BY <1>b, <1>e, <1>g DEF IInv, MemoriesAreFollowed, Visible
<1>7. \A o \in Touched(n), l \in DOMAIN Lists:
          Rebuilt(n, cut)[o][l] \in Shortened(Visible(Validated(n), o, l))
  BY WhatSyncRebuilds
<1>8. ASSUME NEW f \in Facts, Validated(n)[f].active # callbacks[f].active,
             NEW o \in Anchors[f]
      PROVE  o \in Touched(n) \/ \E m \in queue': o \in Touched(m)
  <2>1. CASE Decides(n, f)
    BY <1>a, <2>1, DecidedIsTouched
  <2>2. CASE ~Decides(n, f)
    <3>1. Amiss(callbacks[f].active, f)
      BY <1>a, <1>8, <2>2, WhatSyncChanges
    <3>2. PICK m \in queue: Decides(m, f)
      BY <1>e, <3>1 DEF IInv, RowsAreFollowed
    <3>3. m \in 1..turn /\ m # n
      BY <1>a, <2>2, <3>2 DEF TypeOK
    <3> QED
      BY <1>a, <1>b, <3>2, <3>3, DecidedIsTouched
  <2> QED
    BY <2>1, <2>2
<1>9. JobMemoriesAreOfItsRows'
  BY <1>c, <1>g, <1>7 DEF JobMemoriesAreOfItsRows, Visible
<1>10. JobChangesAreFollowed'
  BY <1>b, <1>c, <1>g, <1>8 DEF JobChangesAreFollowed
<1> QED
  BY <1>1, <1>2, <1>3, <1>4, <1>5, <1>6, <1>9, <1>10 DEF IInv

LEMMA CommitStep == ASSUME IInv, CommitSync PROVE IInv'
<1>a. /\ TypeOK /\ JobOK /\ ReadIsCurrent /\ MemoriesAreFollowed
      /\ JobRowsAreFollowed /\ JobMemoriesAreOfItsRows /\ JobChangesAreFollowed
  BY DEF IInv
<1>b. /\ job # NoJob /\ job' = NoJob
      /\ UNCHANGED <<turn, links, fresh, log, queue, used, repeats>>
      /\ callbacks' = [f \in Facts |-> IF f \in Written THEN job.rows[f]
                                       ELSE callbacks[f]]
      /\ memories' = [o \in Objects |-> IF o \in DOMAIN job.memories
                                        THEN job.memories[o] ELSE memories[o]]
      /\ erased' \subseteq erased \cup Written
  BY DEF CommitSync
<1>c. DOMAIN job.memories = Touched(job.turn)
  BY <1>a, <1>b DEF JobOK
<1>d. \A o \in Objects: memories'[o] = IF o \in Touched(job.turn)
                                       THEN job.memories[o] ELSE memories[o]
  BY <1>b, <1>c
<1>e. callbacks' \in [Facts -> Rows]
  BY <1>a, <1>b DEF JobOK, TypeOK
<1>f. \A f \in Facts: /\ callbacks'[f].active = job.rows[f].active
                      /\ callbacks'[f].active => callbacks'[f].source # 0
  <2> SUFFICES ASSUME NEW f \in Facts
               PROVE /\ callbacks'[f].active = job.rows[f].active
                     /\ callbacks'[f].active => callbacks'[f].source # 0
    OBVIOUS
  <2>1. CASE f \in Written
    BY <1>a, <1>b, <2>1 DEF JobOK
  <2>2. CASE f \notin Written
    BY <1>a, <1>b, <2>2 DEF Written, ReadIsCurrent, TypeOK
  <2> QED
    BY <2>1, <2>2
<1>g. job' = NoJob' /\ Due' = queue
  BY <1>b DEF Due, NoJob
<1>h. \A m, f: Decides(m, f)' <=> Decides(m, f)
  BY <1>b DEF Decides
<1>j. \A m: Touched(m)' = Touched(m)
  BY <1>b DEF Touched
<1>i. memories' \in [Objects -> Memories]
  BY <1>a, <1>b, <1>c DEF JobOK, TypeOK
<1>1. TypeOK'
  BY <1>a, <1>b, <1>e, <1>f, <1>g, <1>i DEF TypeOK, Written
<1>2. /\ JobOK' /\ ReadIsCurrent' /\ JobRowsAreFollowed' /\ JobMemoriesAreOfItsRows'
      /\ JobChangesAreFollowed' /\ FreshIsTrue'
  BY <1>b, <1>g DEF IInv, JobOK, ReadIsCurrent, JobRowsAreFollowed,
                    JobMemoriesAreOfItsRows, JobChangesAreFollowed, FreshIsTrue
<1>3. RowsAreFollowed'
  BY <1>a, <1>b, <1>f, <1>g, <1>h DEF RowsAreFollowed, JobRowsAreFollowed, Amiss
<1>4. MemoriesAreFollowed'
  <2> SUFFICES ASSUME NEW o \in Objects, NEW l \in DOMAIN Lists,
                      memories'[o][l] \notin Shortened(Visible(callbacks', o, l))
               PROVE  \E m \in queue: o \in Touched(m)
    BY <1>b, <1>g, <1>j DEF MemoriesAreFollowed, Visible
  <2>1. CASE o \in Touched(job.turn)
    <3>1. Visible(callbacks', o, l) = Visible(job.rows, o, l)
      BY <1>f, SameVisible
    <3> QED
      BY <1>a, <1>b, <1>d, <2>1, <3>1 DEF JobMemoriesAreOfItsRows
  <2>2. CASE /\ o \notin Touched(job.turn)
             /\ \E f \in Facts: o \in Anchors[f] /\ job.rows[f].active # callbacks[f].active
    BY <1>a, <1>b, <2>2 DEF JobChangesAreFollowed
  <2>3. CASE /\ o \notin Touched(job.turn)
             /\ \A f \in Facts: o \in Anchors[f] => job.rows[f].active = callbacks[f].active
    <3>1. Visible(callbacks', o, l) = Visible(callbacks, o, l)
      BY <1>f, <2>3, SameVisible
    <3>2. memories[o][l] \notin Shortened(Visible(callbacks, o, l))
      BY <1>d, <2>3, <3>1
    <3>3. PICK m \in Due: o \in Touched(m)
      BY <1>a, <3>2 DEF MemoriesAreFollowed
    <3> QED
      BY <1>b, <2>3, <3>3 DEF Due
  <2> QED
    BY <2>1, <2>2, <2>3
<1> QED
  BY <1>1, <1>2, <1>3, <1>4 DEF IInv

LEMMA FailStep == ASSUME IInv, FailSync PROVE IInv'
<1>a. TypeOK /\ JobOK
  BY DEF IInv
<1>b. /\ job # NoJob /\ job' = NoJob /\ queue' = queue \cup {job.turn}
      /\ repeats < MaxRepeats /\ repeats' = repeats + 1
      /\ UNCHANGED <<turn, links, fresh, log, callbacks, memories, used, erased>>
  BY DEF FailSync
<1>c. job' = NoJob' /\ Due' = Due
  BY <1>b DEF Due, NoJob
<1>d. \A m, f: Decides(m, f)' <=> Decides(m, f)
  BY <1>b DEF Decides
<1>j. \A m: Touched(m)' = Touched(m)
  BY <1>b DEF Touched
<1>e. queue' \subseteq 1..turn'
  BY <1>a, <1>b DEF TypeOK, JobOK
<1>f. repeats' \in 0..MaxRepeats
  BY <1>a, <1>b DEF TypeOK
<1>1. TypeOK'
  BY <1>a, <1>b, <1>c, <1>e, <1>f DEF TypeOK
<1>2. /\ JobOK' /\ ReadIsCurrent' /\ JobRowsAreFollowed' /\ JobMemoriesAreOfItsRows'
      /\ JobChangesAreFollowed' /\ FreshIsTrue'
  BY <1>b, <1>c DEF IInv, JobOK, ReadIsCurrent, JobRowsAreFollowed,
                    JobMemoriesAreOfItsRows, JobChangesAreFollowed, FreshIsTrue
<1>3. RowsAreFollowed'
  BY <1>b, <1>c, <1>d DEF IInv, RowsAreFollowed, Amiss
<1>4. MemoriesAreFollowed'
  BY <1>b, <1>c, <1>j DEF IInv, MemoriesAreFollowed, Visible
<1> QED
  BY <1>1, <1>2, <1>3, <1>4 DEF IInv

LEMMA StutterStep == ASSUME IInv, UNCHANGED vars PROVE IInv'
<1>1. UNCHANGED <<turn, links, fresh, log, queue, job, callbacks, memories, used,
                  erased, repeats>>
  BY DEF vars
<1>2. Due' = Due /\ job' = job /\ NoJob' = NoJob
  BY <1>1 DEF Due, NoJob
<1>3. \A m, f: Decides(m, f)' <=> Decides(m, f)
  BY <1>1 DEF Decides
<1>4. \A m: Touched(m)' = Touched(m)
  BY <1>1 DEF Touched
<1>5. TypeOK'
  BY <1>1, <1>2 DEF IInv, TypeOK
<1>6. JobOK'
  BY <1>1, <1>2, <1>4 DEF IInv, JobOK
<1>7. ReadIsCurrent' /\ FreshIsTrue'
  BY <1>1, <1>2 DEF IInv, ReadIsCurrent, FreshIsTrue
<1>8. RowsAreFollowed' /\ JobRowsAreFollowed'
  BY <1>1, <1>2, <1>3 DEF IInv, RowsAreFollowed, JobRowsAreFollowed, Amiss
<1>9. MemoriesAreFollowed'
  BY <1>1, <1>2, <1>4 DEF IInv, MemoriesAreFollowed, Visible
<1>10. JobMemoriesAreOfItsRows'
  BY <1>1, <1>2, <1>4 DEF IInv, JobMemoriesAreOfItsRows, Visible
<1>11. JobChangesAreFollowed'
  BY <1>1, <1>2, <1>4 DEF IInv, JobChangesAreFollowed
<1> QED
  BY <1>5, <1>6, <1>7, <1>8, <1>9, <1>10, <1>11 DEF IInv

LEMMA NextHolds == IInv /\ [Next]_vars => IInv'
<1> SUFFICES ASSUME IInv, [Next]_vars PROVE IInv'
  OBVIOUS
<1>0. TypeOK
  BY DEF IInv
<1>1. ASSUME NEW f \in Facts, CreateLink(f) PROVE IInv'
  <2> DEFINE closed == Rivals[f] \cap links
  <2>1. Turn({f} \cap Derived, {f} \cup closed, (links \ closed) \cup {f})
    BY <1>1 DEF CreateLink
  <2>2. /\ {f} \cap Derived \in SUBSET Facts /\ {f} \cup closed \in SUBSET Facts
        /\ (links \ closed) \cup {f} \in SUBSET Facts
    BY <1>0 DEF TypeOK
  <2>3. links \ ((links \ closed) \cup {f}) \subseteq {f} \cup closed
    OBVIOUS
  <2> QED
    BY <2>1, <2>2, <2>3, TurnStep
<1>2. ASSUME NEW f \in Facts, CloseLink(f) PROVE IInv'
  <2>1. Turn({}, {f}, links \ {f})
    BY <1>2 DEF CloseLink
  <2>2. links \ {f} \in SUBSET Facts
    BY <1>0 DEF TypeOK
  <2> QED
    BY <2>1, <2>2, TurnStep
<1>3. ASSUME NEW f \in Facts, StateFact(f) PROVE IInv'
  <2>1. Turn({f}, {}, links)
    BY <1>3 DEF StateFact
  <2>2. links \in SUBSET Facts
    BY <1>0 DEF TypeOK
  <2> QED
    BY <2>1, <2>2, TurnStep
<1>4. ASSUME NEW f \in Facts, UseCallback(f) PROVE IInv'
  BY <1>4, UseStep
<1>5. ASSUME NEW f \in Facts, PostLink(f) PROVE IInv'
  BY <1>5, PostStep
<1>6. ASSUME NEW n \in Turns, PatchTurn(n) PROVE IInv'
  BY <1>6, PatchStep
<1>7. ASSUME NEW n \in Turns, BeginSync(n) PROVE IInv'
  BY <1>7, BeginStep
<1>8. CASE CommitSync
  BY <1>8, CommitStep
<1>9. CASE FailSync
  BY <1>9, FailStep
<1>10. CASE UNCHANGED vars
  BY <1>10, StutterStep
<1> QED
  BY <1>1, <1>2, <1>3, <1>4, <1>5, <1>6, <1>7, <1>8, <1>9, <1>10 DEF Next

\* Every reachable state satisfies the inductive invariant.
THEOREM Invariance == Spec => []IInv
<1> QED
  BY InitHolds, NextHolds, PTL DEF Spec
-----------------------------------------------------------------------------
\* The rows, the memories and a running job are well-formed, and a callback
\* that may be used was stated by a turn (_upsert_callback_memory_rows).
THEOREM TypeCorrect == Spec => []TypeOK
<1>1. IInv => TypeOK
  BY DEF IInv
<1> QED
  BY <1>1, Invariance, PTL

\* Whatever the jobs' order, failures and repetitions, once they have all run
\* no callback row is active whose links are gone, which is what
\* _invalidate_callback_rows is for, and what was stated and has been true since
\* has one.
THEOREM CallbacksCorrect == Spec => []CallbacksMatchTheWorld
<1>1. IInv => CallbacksMatchTheWorld
  <2> SUFFICES ASSUME IInv, Quiet, NEW f \in Facts
               PROVE  /\ callbacks[f].active => Grounded(f, links)
                      /\ f \in fresh => callbacks[f].active
    BY DEF CallbacksMatchTheWorld
  <2>1. Due = {}
    BY DEF Quiet, Due
  <2>2. ~Amiss(callbacks[f].active, f)
    BY <2>1 DEF IInv, RowsAreFollowed
  <2> QED
    BY <2>2 DEF Amiss
<1> QED
  BY <1>1, Invariance, PTL

\* ... and the memory of every object, which _rebuild_entity_memory_rows writes
\* for the objects of one turn at a time, lists what the rows say of it, as far
\* as there is room.
THEOREM MemoriesCorrect == Spec => []MemoriesMatchTheWorld
<1>1. IInv => MemoriesMatchTheWorld
  <2> SUFFICES ASSUME IInv, Quiet, NEW o \in Objects, NEW l \in DOMAIN Lists
               PROVE  memories[o][l] \in Shortened(Visible(callbacks, o, l))
    BY DEF MemoriesMatchTheWorld
  <2>1. Due = {}
    BY DEF Quiet, Due
  <2> QED
    BY <2>1 DEF IInv, MemoriesAreFollowed
<1> QED
  BY <1>1, Invariance, PTL

\* Both: nothing is recalled that ended, and nothing that lasts is forgotten.
THEOREM MemoryCorrect == Spec => []MemoryMatchesTheWorld
  BY CallbacksCorrect, MemoriesCorrect, PTL DEF MemoryMatchesTheWorld
-----------------------------------------------------------------------------
\* A callback rests from its last use on, unless a job wrote over it; a job
\* writes the cooldowns it has read.
CallbacksAreAtRest ==
    /\ \A f \in Facts \ erased: used[f] # 0 => callbacks[f].until = used[f] + Cooldown
    /\ job # NoJob =>
           \A f \in Facts: job.rows[f].until = job.read[f].until

\* The job of a turn keeps the rows' cooldowns.
LEMMA SyncKeepsRest ==
    ASSUME TypeOK, NEW n \in 1..turn, NEW f \in Facts
    PROVE  Validated(n)[f].until = callbacks[f].until
<1>1. Upserted(n)[f].until = callbacks[f].until
  BY DEF Upserted, TypeOK, Rows
<1>2. "until" \in DOMAIN Upserted(n)[f]
  BY DEF Upserted, TypeOK, Rows
<1>3. [Upserted(n)[f] EXCEPT !.active = FALSE].until = Upserted(n)[f].until
  BY <1>2
<1> QED
  BY <1>1, <1>3 DEF Validated

LEMMA RestStep ==
    ASSUME IInv, CallbacksAreAtRest, [Next]_vars
    PROVE  CallbacksAreAtRest' /\ \A f \in Facts : f \in erased \/ Rests(f)
<1>0. /\ TypeOK /\ JobOK /\ turn \in Nat /\ Cooldown \in Nat
      /\ callbacks \in [Facts -> Rows] /\ used \in [Facts -> 0..MaxTurn]
  BY DEF IInv, TypeOK
<1>1. CASE /\ UNCHANGED <<callbacks, used, erased>>
           /\ UNCHANGED job \/ job' = NoJob
  BY <1>1 DEF CallbacksAreAtRest, Rests, NoJob
<1>2. ASSUME NEW f \in Facts, UseCallback(f)
      PROVE  CallbacksAreAtRest' /\ \A g \in Facts : g \in erased \/ Rests(g)
  <2>1. /\ job' = job /\ NoJob' = NoJob /\ callbacks[f].until <= turn
        /\ callbacks' = [callbacks EXCEPT ![f].until = turn + Cooldown]
        /\ used' = [used EXCEPT ![f] = turn] /\ erased' = erased \ {f}
    BY <1>2 DEF UseCallback, Usable, RestsUntil, NoJob
  <2>2. /\ callbacks'[f].until = turn + Cooldown /\ used'[f] = turn
        /\ \A g \in Facts \ {f} : callbacks'[g] = callbacks[g] /\ used'[g] = used[g]
    BY <1>0, <2>1 DEF Rows
  <2> QED
    BY <1>0, <2>1, <2>2 DEF CallbacksAreAtRest, Rests
<1>3. ASSUME NEW n \in Turns, BeginSync(n)
      PROVE  CallbacksAreAtRest' /\ used' = used
  <2>1. /\ n \in 1..turn /\ UNCHANGED <<callbacks, used, erased>>
        /\ job'.rows = Validated(n) /\ job'.read = callbacks
    BY <1>0, <1>3 DEF BeginSync, TypeOK
  <2> QED
    BY <1>0, <2>1, SyncKeepsRest DEF CallbacksAreAtRest
<1>4. CASE CommitSync
  <2>1. /\ job # NoJob /\ job' = NoJob' /\ used' = used
        /\ erased' = erased \cup {f \in Written : job.read[f].until # callbacks[f].until}
        /\ callbacks' = [f \in Facts |-> IF f \in Written THEN job.rows[f]
                                         ELSE callbacks[f]]
    BY <1>4 DEF CommitSync, NoJob
  <2>2. ASSUME NEW f \in Facts \ erased' PROVE callbacks'[f].until = callbacks[f].until
    BY <2>1 DEF CallbacksAreAtRest
  <2>3. \A f \in Facts : Rests(f)
    BY <2>1 DEF Rests
  <2> QED
    BY <2>1, <2>2, <2>3 DEF CallbacksAreAtRest
<1> QED
  <2>1. CASE \E f \in Facts : CreateLink(f) \/ CloseLink(f) \/ StateFact(f) \/ PostLink(f)
    BY <1>1, <2>1 DEF CreateLink, CloseLink, StateFact, PostLink, Turn
  <2>2. CASE (\E n \in Turns : PatchTurn(n)) \/ FailSync \/ UNCHANGED vars
    BY <1>1, <2>2 DEF PatchTurn, FailSync, vars
  <2> QED
    BY <1>2, <1>3, <1>4, <2>1, <2>2 DEF Next, Rests

\* Unless a job writes over its last use, a callback is not used again before
\* it has rested, however often its fact is stated, ended and begun again and
\* whatever runs beside it (_mark_callback_recalled, _upsert_callback_memory_rows).
THEOREM RestCorrect == Spec => OnlyOverlapsDisturb
<1>1. Init => CallbacksAreAtRest
  BY DEF Init, CallbacksAreAtRest
<1>2. IInv /\ CallbacksAreAtRest /\ [Next]_vars => CallbacksAreAtRest'
  BY RestStep
<1>3. IInv /\ CallbacksAreAtRest /\ [Next]_vars =>
          [\A f \in Facts: f \in erased \/ Rests(f)]_vars
  BY RestStep
<1> QED
  BY <1>1, <1>2, <1>3, Invariance, PTL DEF Spec, OnlyOverlapsDisturb
-----------------------------------------------------------------------------
(***************************************************************************)
(* Reminders of consequences.                                              *)
(***************************************************************************)
HIDE AnchorsAssumption
HIDE CooldownAssumption
USE WindowsAssumption


Window == [status : {"open", "shown", "resolved", "expired", "suppressed"},
           earliest : Int, latest : Int, shows : Nat, max : Nat, depth : Nat,
           until : Int]

\* A window that is neither resolved nor expired.
Lasts(w) == w.status \notin {"resolved", "expired"}

\* A window has counted what the narrator was told of in turns that did not
\* resolve it, and allows no more than what was granted; one that lasts has been
\* opened more often than resolved by a turn that showed it.  A key without a
\* window was never told of.
CountsAgree(k) ==
    /\ reminded[k] \in Nat /\ granted[k] \in Nat
    /\ settled[k] \in Nat /\ opened[k] \in Nat /\ settled[k] <= opened[k]
    /\ \/ windows[k] = Q!None /\ reminded[k] = 0 /\ settled[k] = 0
       \/ windows[k] \in Window
    /\ windows[k] \in Window =>
          /\ windows[k].earliest <= windows[k].latest
          /\ reminded[k] = windows[k].shows + settled[k]
          /\ windows[k].shows <= granted[k] /\ windows[k].max <= granted[k]
          /\ Lasts(windows[k]) => settled[k] < opened[k]

\* What is picked is still due when the results come in.
PickedIsDue(k) ==
    /\ windows[k] \in Window
    /\ windows[k].latest >= now
    /\ windows[k].shows < windows[k].max
    /\ Lasts(windows[k])

WindowInv ==
    /\ now \in 0..MaxTurn
    /\ windows = [k \in Keys |-> windows[k]]
    /\ reminded = [k \in Keys |-> reminded[k]]
    /\ settled = [k \in Keys |-> settled[k]]
    /\ opened = [k \in Keys |-> opened[k]]
    /\ granted = [k \in Keys |-> granted[k]]
    /\ \A k \in Keys : CountsAgree(k)
    /\ picked \subseteq Keys /\ Cardinality(picked) <= Budget
    /\ ~applied => \A k \in picked : PickedIsDue(k)
    /\ world \subseteq WindowObjects
    /\ \A s \in signals : s.object \in world

LEMMA SameCardinality == \A S : Q!Cardinality(S) = Cardinality(S)
  BY DEF Cardinality, Q!Cardinality

LEMMA NotAWindow == Q!None \notin Window
BY DEF Q!None, Window

LEMMA NewWindowType ==
    ASSUME NEW i \in Q!Intents, NEW depth \in Nat
    PROVE  /\ Q!NewWindow(i, depth) \in Window
           /\ Q!NewWindow(i, depth).shows = 0
           /\ Q!NewWindow(i, depth).earliest <= Q!NewWindow(i, depth).latest
           /\ Q!NewWindow(i, depth).max = i.max
           /\ i.max \in Nat
           /\ Q!NewWindow(i, depth).status = "open"
<1>0. /\ i \in [earliest : Q!Turns, latest : Q!Turns, max : Shows]
      /\ i.earliest <= i.latest
  BY DEF Q!Intents
<1> DEFINE late == Q!Least(i.latest, i.earliest + Span)
<1>1. i.earliest \in Nat /\ i.latest \in Nat /\ i.max \in Nat /\ i.earliest <= i.latest
  <2>1. i.earliest \in Q!Turns /\ i.latest \in Q!Turns /\ i.max \in Shows
    BY <1>0
  <2>2. Q!Turns \subseteq Nat /\ Shows \subseteq Nat
    BY DEF Q!Turns
  <2> QED
    BY <1>0, <2>1, <2>2
<1>2. late \in Int /\ i.earliest <= late
  BY <1>1 DEF Q!Least
<1> HIDE DEF late
<1> QED
  BY <1>1, <1>2 DEF Q!NewWindow, Window, late

LEMMA InitWindows == ASSUME Q!Init PROVE WindowInv
<1>1. Cardinality({}) = 0
  BY FS_EmptySet
<1>2. \A k \in Keys : CountsAgree(k)
  BY NotAWindow DEF Q!Init, CountsAgree
<1>3. /\ windows = [k \in Keys |-> windows[k]]
      /\ reminded = [k \in Keys |-> reminded[k]]
      /\ settled = [k \in Keys |-> settled[k]]
      /\ opened = [k \in Keys |-> opened[k]]
      /\ granted = [k \in Keys |-> granted[k]]
  BY DEF Q!Init
<1>4. now \in 0..MaxTurn /\ Cardinality(picked) <= Budget
  BY <1>1 DEF Q!Init
<1> QED
  BY <1>2, <1>3, <1>4 DEF Q!Init, WindowInv

\* One window, given afresh or moved.
LEMMA OneWindow ==
    ASSUME WindowInv, NEW k \in Keys, NEW w \in Window,
           windows' = [windows EXCEPT ![k] = w],
           NEW n \in Nat, NEW g \in Nat, NEW p \in Nat,
           reminded' = [reminded EXCEPT ![k] = n], granted' = [granted EXCEPT ![k] = g],
           opened' = [opened EXCEPT ![k] = p],
           w.earliest <= w.latest, n = w.shows + settled[k], w.shows <= g, w.max <= g,
           settled[k] <= p, Lasts(w) => settled[k] < p,
           applied \/ k \notin picked \/ (w.latest >= now /\ w.shows < w.max /\ Lasts(w)),
           UNCHANGED <<now, picked, applied, world, signals, settled>>
    PROVE  WindowInv'
<1>1. \A j \in Keys : CountsAgree(j)'
  <2> TAKE j \in Keys
  <2>1. CASE j = k
    <3>1. /\ windows'[k] = w /\ reminded'[k] = n /\ granted'[k] = g /\ opened'[k] = p
          /\ settled' = settled
      BY DEF WindowInv
    <3>2. settled[k] \in Nat
      BY DEF WindowInv, CountsAgree
    <3> QED
      BY <2>1, <3>1, <3>2, NotAWindow DEF CountsAgree, Lasts
  <2>2. CASE j # k
    <3>1. CountsAgree(j)
      BY DEF WindowInv
    <3>2. /\ windows'[j] = windows[j] /\ reminded'[j] = reminded[j]
          /\ granted'[j] = granted[j] /\ opened'[j] = opened[j] /\ settled' = settled
      BY <2>2 DEF WindowInv
    <3> QED
      BY <3>1, <3>2 DEF CountsAgree, Lasts
  <2> QED
    BY <2>1, <2>2
<1>2. ~applied' => \A j \in picked' : PickedIsDue(j)'
  BY DEF WindowInv, PickedIsDue, Lasts
<1> QED
  BY <1>1, <1>2 DEF WindowInv

LEMMA MaterializeStep ==
    ASSUME WindowInv, NEW k \in Keys, NEW i \in Q!Intents,
           NEW depth \in Nat, Q!MaterializeConsequenceWindows(k, i, depth)
    PROVE  WindowInv'
<1> DEFINE new == Q!NewWindow(i, depth)
           w == Q!Materialized(windows[k], new)
           g == Q!Most(granted[k], i.max)
           p == IF Q!IsOver(k) THEN opened[k] + 1 ELSE opened[k]
<1>1. /\ new \in Window /\ new.shows = 0 /\ new.earliest <= new.latest
      /\ new.max = i.max /\ i.max \in Nat
  BY NewWindowType
<1>2. CountsAgree(k)
  BY DEF WindowInv
<1>3. g \in Nat /\ granted[k] <= g /\ i.max <= g
  BY <1>1, <1>2 DEF Q!Most, CountsAgree
<1>4. /\ w \in Window /\ w.earliest <= w.latest /\ w.max = new.max
      /\ reminded[k] = w.shows + settled[k] /\ w.shows <= g
  <2> HIDE DEF new, g
  <2>0. granted[k] \in Nat /\ settled[k] \in Nat
    BY <1>2 DEF CountsAgree
  <2>1. CASE windows[k] = Q!None
    BY <1>1, <1>2, <1>3, <2>0, <2>1, NotAWindow DEF Q!Materialized, CountsAgree
  <2>2. CASE windows[k] \in Window
    <3>1. /\ w \in Window /\ w.earliest = new.earliest /\ w.latest = new.latest
          /\ w.max = new.max /\ w.shows = windows[k].shows
      BY <1>1, <2>2, NotAWindow DEF Q!Materialized, Window
    <3>2. windows[k].shows \in Nat
      BY <2>2 DEF Window
    <3> HIDE DEF w
    <3> QED
      BY <1>1, <1>2, <1>3, <2>0, <2>2, <3>1, <3>2 DEF CountsAgree
  <2> QED
    BY <1>2, <2>1, <2>2 DEF CountsAgree
<1>p. p \in Nat /\ settled[k] < p
  <2>1. CASE Q!IsOver(k)
    BY <1>2, <2>1 DEF CountsAgree
  <2>2. CASE ~Q!IsOver(k)
    BY <1>2, <2>2 DEF CountsAgree, Q!IsOver, Lasts
  <2> QED
    BY <2>1, <2>2
<1>5. /\ applied
      /\ windows' = [windows EXCEPT ![k] = w]
      /\ granted' = [granted EXCEPT ![k] = g]
      /\ opened' = [opened EXCEPT ![k] = p]
      /\ reminded' = [reminded EXCEPT ![k] = reminded[k]]
      /\ UNCHANGED <<now, picked, applied, world, signals, settled>>
  BY DEF Q!MaterializeConsequenceWindows, WindowInv
<1>6. reminded[k] \in Nat /\ settled[k] \in Nat
  BY <1>2 DEF CountsAgree
<1> HIDE DEF w, g, p, new
<1>7. settled[k] <= p
  BY <1>p, <1>6
<1> QED
  BY <1>1, <1>3, <1>4, <1>p, <1>5, <1>6, <1>7, OneWindow

LEMMA PersistedStep ==
    ASSUME WindowInv, NEW k \in Keys, NEW i \in Q!Intents,
           now = 0, i.max > 0, Q!EnsurePersisted(k, i, 1)
    PROVE  WindowInv'
<1> DEFINE new == Q!NewWindow(i, 0)
           w == [new EXCEPT !.shows = 1]
           g == Q!Most(granted[k], i.max)
           p == opened[k] + 1
<1>1. /\ new \in Window /\ new.shows = 0 /\ new.earliest <= new.latest
      /\ new.max = i.max /\ i.max \in Nat
  BY NewWindowType
<1>2. CountsAgree(k) /\ windows[k] = Q!None
  BY DEF WindowInv, Q!EnsurePersisted
<1>3. g \in Nat /\ i.max <= g /\ 1 <= g
  BY <1>1, <1>2 DEF Q!Most, CountsAgree
<1>4. w \in Window /\ w.earliest <= w.latest /\ w.shows = 1 /\ w.max = i.max
  <2> HIDE DEF new
  <2> QED
    BY <1>1 DEF Window
<1>5. /\ windows' = [windows EXCEPT ![k] = w]
      /\ granted' = [granted EXCEPT ![k] = g]
      /\ opened' = [opened EXCEPT ![k] = p]
      /\ reminded' = [reminded EXCEPT ![k] = 1]
      /\ UNCHANGED <<now, picked, applied, world, signals, settled>>
  BY DEF Q!EnsurePersisted
<1>6. applied \/ k \notin picked
  BY <1>2, NotAWindow DEF WindowInv, PickedIsDue
<1>7. settled[k] = 0 /\ p \in Nat /\ 0 < p
  BY <1>2, NotAWindow DEF CountsAgree
<1> HIDE DEF w, g, p, new
<1>8. /\ 1 = w.shows + settled[k] /\ w.shows <= g /\ w.max <= g
      /\ settled[k] <= p /\ settled[k] < p
  BY <1>3, <1>4, <1>7
<1> QED
  BY <1>3, <1>4, <1>5, <1>6, <1>7, <1>8, OneWindow

LEMMA SuppressStep ==
    ASSUME WindowInv, NEW k \in Keys, Q!Suppress(k)
    PROVE  WindowInv'
<1>1. PICK until \in now..MaxTurn :
         windows' = [windows EXCEPT ![k].status = "suppressed", ![k].until = until]
  BY DEF Q!Suppress
<1> DEFINE w == [windows[k] EXCEPT !.status = "suppressed", !.until = until]
<1>2. CountsAgree(k) /\ windows[k] \in Window /\ Lasts(windows[k])
  BY DEF WindowInv, Q!Suppress, CountsAgree, Lasts
<1>3. until \in Int
  BY DEF WindowInv
<1>4. /\ w \in Window /\ w.earliest = windows[k].earliest
      /\ w.latest = windows[k].latest /\ w.shows = windows[k].shows
      /\ w.max = windows[k].max /\ Lasts(w)
  BY <1>2, <1>3 DEF Window, Lasts
<1>5. windows' = [windows EXCEPT ![k] = w]
  BY <1>1, <1>2 DEF WindowInv
<1>6. /\ granted' = [granted EXCEPT ![k] = granted[k]]
      /\ opened' = [opened EXCEPT ![k] = opened[k]]
      /\ reminded' = [reminded EXCEPT ![k] = reminded[k]]
      /\ UNCHANGED <<now, picked, applied, world, signals, settled>>
  BY DEF Q!Suppress, Q!history, WindowInv
<1>7. applied \/ k \notin picked \/ (w.latest >= now /\ w.shows < w.max /\ Lasts(w))
  BY <1>4 DEF WindowInv, PickedIsDue
<1>8. /\ reminded[k] \in Nat /\ granted[k] \in Nat /\ opened[k] \in Nat
      /\ w.earliest <= w.latest /\ reminded[k] = w.shows + settled[k]
      /\ w.shows <= granted[k] /\ w.max <= granted[k]
      /\ settled[k] <= opened[k] /\ settled[k] < opened[k]
  BY <1>2, <1>4 DEF CountsAgree
<1> HIDE DEF w
<1> QED
  BY <1>4, <1>5, <1>6, <1>7, <1>8, OneWindow

LEMMA SelectStep ==
    ASSUME WindowInv, Q!SelectDue
    PROVE  WindowInv'
<1> DEFINE due == {k \in Keys : Q!Due(k)}
<1>1. /\ picked' \subseteq due
      /\ Cardinality(picked') = Q!Least(Budget, Cardinality(due))
  BY SameCardinality DEF Q!SelectDue
<1>2. UNCHANGED <<now, windows, applied, world, signals, reminded, settled, opened, granted>>
  BY DEF Q!SelectDue, Q!history
<1>3. Cardinality(picked') <= Budget
  <2>1. IsFiniteSet(due)
    BY FS_Subset
  <2>2. Cardinality(due) \in Nat
    BY <2>1, FS_CardinalityType
  <2> HIDE DEF due
  <2> QED
    BY <1>1, <2>2 DEF Q!Least
<1>4. picked' \subseteq Keys
  BY <1>1
<1>5. \A k \in picked' : PickedIsDue(k)'
  <2> TAKE k \in picked'
  <2>1. k \in Keys /\ Q!Due(k)
    BY <1>1
  <2>2. windows[k] \in Window
    BY <2>1 DEF WindowInv, CountsAgree, Q!Due
  <2>3. now \in Int /\ now <= windows[k].latest
    <3>1. windows[k].latest \in Int /\ windows[k].earliest \in Int
      BY <2>2 DEF Window
    <3>2. now \in windows[k].earliest..windows[k].latest
      BY <2>1 DEF Q!Due
    <3> QED
      BY <3>1, <3>2
  <2>4. windows[k].shows < windows[k].max
    BY <2>1 DEF Q!Due
  <2>5. windows[k].latest >= now
    BY <2>2, <2>3 DEF Window
  <2>6. Lasts(windows[k])
    BY <2>1 DEF Q!Due, Lasts
  <2> QED
    BY <1>2, <2>2, <2>4, <2>5, <2>6 DEF PickedIsDue, Lasts
<1>6. \A k \in Keys : CountsAgree(k)'
  BY <1>2 DEF WindowInv, CountsAgree, Lasts
<1> QED
  BY <1>2, <1>3, <1>4, <1>5, <1>6 DEF WindowInv

LEMMA ResultsStep ==
    ASSUME WindowInv,
           NEW resolved \in SUBSET Keys, NEW shown \in SUBSET picked,
           Q!ApplyConsequenceResults(resolved, shown)
    PROVE  WindowInv'
<1>1. /\ ~applied /\ applied'
      /\ windows' = [k \in Keys |-> Q!AfterTurn(k, resolved, shown)]
      /\ reminded' = [k \in Keys |-> IF k \in shown THEN reminded[k] + 1 ELSE reminded[k]]
      /\ settled' = [k \in Keys |-> IF k \in shown \cap resolved THEN settled[k] + 1
                                    ELSE settled[k]]
      /\ UNCHANGED <<now, picked, world, signals, opened, granted>>
  BY DEF Q!ApplyConsequenceResults, Q!Counted
<1>2. ASSUME NEW k \in Keys PROVE CountsAgree(k)'
  <2> DEFINE w == windows[k]
  <2>1. CountsAgree(k) /\ now \in Int
    BY DEF WindowInv
  <2>2. k \in shown => PickedIsDue(k)
    BY <1>1 DEF WindowInv
  <2>3. /\ windows'[k] = Q!AfterTurn(k, resolved, shown)
        /\ granted'[k] = granted[k] /\ opened'[k] = opened[k]
    BY <1>1
  <2>4. CASE w = Q!None
    <3>1. windows'[k] = Q!None /\ k \notin shown
      BY <2>2, <2>3, <2>4, NotAWindow DEF Q!AfterTurn, PickedIsDue
    <3>2. reminded'[k] = reminded[k] /\ settled'[k] = settled[k]
      BY <1>1, <3>1
    <3> QED
      BY <2>1, <2>3, <2>4, <3>1, <3>2, NotAWindow DEF CountsAgree
  <2>5. CASE w \in Window /\ k \in resolved
    <3>1. windows'[k] = [w EXCEPT !.status = "resolved"]
      BY <2>3, <2>5, NotAWindow DEF Q!AfterTurn
    <3>2. /\ windows'[k] \in Window /\ windows'[k].earliest = w.earliest
          /\ windows'[k].latest = w.latest /\ windows'[k].shows = w.shows
          /\ windows'[k].max = w.max /\ ~Lasts(windows'[k]) /\ w.shows \in Nat
      BY <2>5, <3>1 DEF Window, Lasts
    <3>3. CASE k \notin shown
      <4>1. reminded'[k] = reminded[k] /\ settled'[k] = settled[k]
        BY <1>1, <3>3
      <4> HIDE DEF w
      <4> QED
        BY <2>1, <2>3, <2>5, <3>2, <4>1, NotAWindow DEF CountsAgree, Lasts, w
    <3>4. CASE k \in shown
      <4>1. reminded'[k] = reminded[k] + 1 /\ settled'[k] = settled[k] + 1
        BY <1>1, <2>5, <3>4
      <4>2. settled[k] < opened[k]
        BY <2>1, <2>2, <3>4 DEF CountsAgree, PickedIsDue
      <4> QED
        BY <2>1, <2>3, <2>5, <3>2, <4>1, <4>2, NotAWindow DEF CountsAgree, Lasts
    <3> QED
      BY <3>3, <3>4
  <2>6. CASE w \in Window /\ k \notin resolved /\ w.latest < now
    <3>0. w.latest \in Int /\ w # Q!None /\ ~(w.latest >= now)
      BY <2>1, <2>6, NotAWindow DEF Window
    <3>1. windows'[k] = [w EXCEPT !.status = "expired"]
      BY <2>3, <2>6, <3>0 DEF Q!AfterTurn
    <3>2. reminded'[k] = reminded[k] /\ settled'[k] = settled[k]
      <4>1. k \notin shown
        BY <2>2, <3>0 DEF PickedIsDue
      <4> QED
        BY <1>1, <4>1
    <3>3. /\ windows'[k] \in Window /\ windows'[k].earliest = w.earliest
          /\ windows'[k].latest = w.latest /\ windows'[k].shows = w.shows
          /\ windows'[k].max = w.max /\ ~Lasts(windows'[k])
      BY <2>6, <3>1 DEF Window, Lasts
    <3> QED
      BY <2>1, <2>3, <2>6, <3>2, <3>3, NotAWindow DEF CountsAgree
  <2>7. CASE w \in Window /\ k \notin resolved /\ ~(w.latest < now)
    <3>0. w.latest >= now
      BY <2>1, <2>7 DEF Window
    <3>s. settled'[k] = settled[k]
      BY <1>1, <2>7
    <3>1. CASE k \in shown
      <4>1. w.shows < w.max /\ Lasts(w)
        BY <2>2, <3>1 DEF PickedIsDue
      <4>2. windows'[k] = [w EXCEPT !.status = "shown", !.shows = @ + 1]
        BY <2>3, <2>7, <3>0, <3>1, <4>1, NotAWindow DEF Q!AfterTurn
      <4>3. reminded'[k] = reminded[k] + 1
        BY <1>1, <3>1
      <4>4. /\ windows'[k] \in Window /\ windows'[k].earliest = w.earliest
            /\ windows'[k].latest = w.latest /\ windows'[k].shows = w.shows + 1
            /\ windows'[k].max = w.max
        <5> HIDE DEF w
        <5>1. w.shows + 1 \in Nat
          BY <2>7 DEF Window
        <5> QED
          BY <2>7, <4>2, <5>1 DEF Window
      <4>5. w.max \in Nat /\ w.shows \in Nat
        BY <2>7 DEF Window
      <4>6. settled[k] < opened[k]
        BY <2>1, <2>7, <4>1 DEF CountsAgree
      <4> QED
        BY <2>1, <2>3, <2>7, <3>s, <4>1, <4>3, <4>4, <4>5, <4>6, NotAWindow DEF CountsAgree
    <3>2. CASE k \notin shown
      <4>1. windows'[k] = w
        BY <2>3, <2>7, <3>0, <3>2, NotAWindow DEF Q!AfterTurn
      <4>2. reminded'[k] = reminded[k]
        BY <1>1, <3>2
      <4> QED
        BY <2>1, <2>3, <3>s, <4>1, <4>2 DEF CountsAgree
    <3> QED
      BY <3>1, <3>2
  <2> QED
    BY <2>1, <2>4, <2>5, <2>6, <2>7 DEF CountsAgree
<1>3. /\ windows' = [k \in Keys |-> windows'[k]]
      /\ reminded' = [k \in Keys |-> reminded'[k]]
      /\ settled' = [k \in Keys |-> settled'[k]]
      /\ opened' = [k \in Keys |-> opened'[k]]
      /\ granted' = [k \in Keys |-> granted'[k]]
  BY <1>1 DEF WindowInv
<1> QED
  BY <1>1, <1>2, <1>3 DEF WindowInv

LEMMA SignalHasCandidate ==
    ASSUME NEW opSet, NEW triggers, NEW objects,
           NEW s \in Q!DetectStructuralSignals(opSet, triggers, objects)
    PROVE  \E r \in opSet : \E c \in Q!Candidates(r, objects) : s.object = c.ref
<1> DEFINE found == UNION {Q!Candidates(o, objects) : o \in opSet}
<1>1. s \in {[trigger |-> t.name, object |-> c.ref] : t \in triggers, c \in found}
  BY DEF Q!DetectStructuralSignals
<1>2. \E c \in found : s.object = c.ref
  <2> HIDE DEF found
  <2> QED
    BY <1>1
<1> QED
  BY <1>2

\* A signal is about an object that is there.
LEMMA OpsStep ==
    ASSUME WindowInv, Q!ApplyOps
    PROVE  WindowInv'
<1>0. UNCHANGED <<now, windows, picked, applied, reminded, settled, opened, granted>>
  BY DEF Q!ApplyOps, Q!consequenceVars, Q!history
<1>1. PICK refMap \in [Refs -> WindowObjects], opSet \in Q!OpSets :
         /\ world' = world \cup Q!Created(opSet, refMap)
         /\ signals' = Q!DetectStructuralSignals(Q!Resolved(opSet, refMap),
                          {[name |-> "trigger"]}, world')
  BY DEF Q!ApplyOps
<1>4. Q!Created(opSet, refMap) \subseteq WindowObjects
  BY DEF Q!Created
<1>5. opSet \subseteq Q!Operations
  BY DEF Q!OpSets
<1>6. ASSUME NEW s \in signals' PROVE s.object \in world'
  <2>1. PICK r \in Q!Resolved(opSet, refMap) :
           \E c \in Q!Candidates(r, world') : s.object = c.ref
    BY <1>1, SignalHasCandidate
  <2>2. s.object = r.ref /\ (r.op = "object.create" \/ r.ref \in world')
    BY <2>1 DEF Q!Candidates
  <2>3. PICK o \in opSet : r = Q!ResolveAppliedOpRefs(o, refMap)
    BY DEF Q!Resolved
  <2>4. CASE r.op = "object.create" /\ r.ref \notin world'
    <3>1. o.op = "object.create"
      BY <2>3, <2>4 DEF Q!ResolveAppliedOpRefs
    <3>2. o.ref \in Refs
      BY <1>5, <3>1 DEF Q!Operations
    <3>3. r.ref = refMap[o.ref]
      BY <2>3, <3>2, <1>5 DEF Q!ResolveAppliedOpRefs, Q!Operations
    <3>4. refMap[o.ref] \in Q!Created(opSet, refMap)
      BY <3>1, <3>2 DEF Q!Created
    <3> QED
      BY <1>1, <2>2, <3>3, <3>4
  <2> QED
    BY <2>1, <2>2, <2>4
<1>7. \A k \in Keys : CountsAgree(k)'
  BY <1>0 DEF WindowInv, CountsAgree, Lasts
<1>8. ~applied' => \A k \in picked' : PickedIsDue(k)'
  BY <1>0 DEF WindowInv, PickedIsDue, Lasts
<1> QED
  BY <1>0, <1>1, <1>4, <1>6, <1>7, <1>8 DEF WindowInv

LEMMA NextTurnStep ==
    ASSUME WindowInv, Q!NextTurn
    PROVE  WindowInv'
<1>1. /\ now' = now + 1 /\ now < MaxTurn /\ picked' = {}
      /\ UNCHANGED <<windows, world, signals, reminded, settled, opened, granted>>
  BY DEF Q!NextTurn, Q!history
<1>2. Cardinality(picked') <= Budget
  BY <1>1, FS_EmptySet
<1>3. now' \in 0..MaxTurn
  BY <1>1 DEF WindowInv
<1>4. \A k \in Keys : CountsAgree(k)'
  BY <1>1 DEF WindowInv, CountsAgree, Lasts
<1> QED
  BY <1>1, <1>2, <1>3, <1>4 DEF WindowInv

LEMMA WindowStep ==
    ASSUME WindowInv, [Q!Next]_(Q!vars)
    PROVE  WindowInv'
<1>1. CASE UNCHANGED Q!vars
  <2>0. UNCHANGED <<now, windows, picked, applied, world, signals, reminded, settled,
                    opened, granted>>
    BY <1>1 DEF Q!vars, Q!history
  <2>1. \A k \in Keys : CountsAgree(k)'
    BY <2>0 DEF WindowInv, CountsAgree, Lasts
  <2>2. ~applied' => \A k \in picked' : PickedIsDue(k)'
    BY <2>0 DEF WindowInv, PickedIsDue, Lasts
  <2> QED
    BY <2>0, <2>1, <2>2 DEF WindowInv
<1>2. ASSUME NEW k \in Keys, NEW i \in Q!Intents, NEW depth \in {0, MaxDepth + 1},
             Q!MaterializeConsequenceWindows(k, i, depth)
      PROVE  WindowInv'
  <2>1. depth \in Nat
    OBVIOUS
  <2> QED
    BY <1>2, <2>1, MaterializeStep
<1> QED
  BY <1>1, <1>2, PersistedStep, SuppressStep, SelectStep, ResultsStep,
     OpsStep, NextTurnStep DEF Q!Next

\* However often the narrator comes back to an intent, moves it, resolves it
\* and opens it again, it is told of it no more often than it once asked for,
\* but for the turns that resolve it, of which there is one at most for every
\* time it is opened, whatever the budget and the keys; and a signal names an object that is
\* there (apply_consequence_results, materialize_consequence_windows,
\* detect_structural_signals).
THEOREM RemindersCorrect == Q!Spec => []RemindersAreLimited
<1>1. Q!Init => WindowInv
  BY InitWindows
<1>2. WindowInv /\ [Q!Next]_(Q!vars) => WindowInv'
  BY WindowStep
<1>3. WindowInv => RemindersAreLimited
  <2> SUFFICES ASSUME WindowInv PROVE Q!TypeOK /\ Q!RemindersAreLimited
    BY DEF RemindersAreLimited
  <2>1. ASSUME NEW k \in Keys
        PROVE  reminded[k] <= granted[k] + settled[k] /\ settled[k] <= opened[k]
    <3>1. CountsAgree(k)
      BY DEF WindowInv
    <3>2. CASE windows[k] \notin Window
      BY <3>1, <3>2 DEF CountsAgree
    <3>3. CASE windows[k] \in Window
      <4>1. windows[k].shows \in Nat
        BY <3>3 DEF Window
      <4> QED
        BY <3>1, <3>3, <4>1 DEF CountsAgree
    <3> QED
      BY <3>2, <3>3
  <2>2. ASSUME NEW k \in Keys
        PROVE  \/ windows[k] = Q!None
               \/ /\ windows[k].status \in
                        {"open", "shown", "resolved", "expired", "suppressed"}
                  /\ windows[k].earliest <= windows[k].latest
                  /\ windows[k].shows \in Nat
    BY DEF WindowInv, CountsAgree, Window
  <2>3. {reminded, settled, opened} \subseteq [Keys -> Nat]
    <3>1. \A k \in Keys : reminded[k] \in Nat /\ settled[k] \in Nat /\ opened[k] \in Nat
      BY DEF WindowInv, CountsAgree
    <3>2. /\ reminded = [k \in Keys |-> reminded[k]]
          /\ settled = [k \in Keys |-> settled[k]]
          /\ opened = [k \in Keys |-> opened[k]]
      BY DEF WindowInv
    <3>3. reminded \in [Keys -> Nat] /\ settled \in [Keys -> Nat] /\ opened \in [Keys -> Nat]
      BY <3>1, <3>2
    <3> QED
      BY <3>3
  <2>4. /\ now \in Q!Turns /\ picked \subseteq Keys
        /\ Cardinality(picked) <= Budget /\ world \subseteq WindowObjects
        /\ \A s \in signals : s.object \in world
    BY DEF WindowInv, Q!Turns
  <2>5. Q!RemindersAreLimited
    BY <2>1 DEF Q!RemindersAreLimited
  <2> QED
    BY <2>2, <2>3, <2>4, <2>5, SameCardinality DEF Q!TypeOK
<1> QED
  BY <1>1, <1>2, <1>3, PTL DEF Q!Spec
HIDE WindowsAssumption
HIDE BoundsAssumption
-----------------------------------------------------------------------------
(***************************************************************************)
(* The cache, for any number of threads, keys and clients.                 *)
(***************************************************************************)

Entry == [key : Names, left : 0..Ttl, age : 0..(2 * Ttl + 1)]
Stored == [left : 0..Ttl, age : 0..(2 * Ttl + 1)]
Operation == [at : {"idle", "look", "connect", "call", "fill", "delete", "mark"},
              do : {"none", "get", "set", "clear"},
              by : Clients \cup {0}, key : SUBSET Names, age : 0..(2 * Ttl + 1)]

\* A live entry of the first tier was refilled with a value that was no older
\* than its time to live.
FreshEnough(e) == e.left > 0 => e.left + e.age <= 2 * Ttl

Tier1OK(entries) ==
    /\ entries \in Seq(Entry) /\ Len(entries) <= MaxEntries
    /\ \A i \in 1..Len(entries) : FreshEnough(entries[i])

Tier2OK(e) == e \in Stored /\ e.left + e.age <= Ttl

OperationOK(o) ==
    /\ o \in Operation
    /\ o.at = "fill" => o.age <= Ttl

CacheInv ==
    /\ Tier1OK(l1)
    /\ l2 = [k \in Names |-> l2[k]] /\ \A k \in Names : Tier2OK(l2[k])
    /\ client \in Clients \cup {0}
    /\ retryIn \in 0..Backoff
    /\ redisUp \in BOOLEAN
    /\ op = [t \in Readers |-> op[t]] /\ \A t \in Readers : OperationOK(op[t])
    /\ served \in 0..(2 * Ttl)
-----------------------------------------------------------------------------
(* The first tier. *)

LEMMA RemovedFacts ==
    ASSUME NEW S, NEW s \in Seq(S), NEW i \in 1..Len(s)
    PROVE  /\ C!Removed(s, i) \in Seq(S)
           /\ Len(C!Removed(s, i)) = Len(s) - 1
           /\ \A j \in 1..(Len(s) - 1) :
                 C!Removed(s, i)[j] = IF j < i THEN s[j] ELSE s[j + 1]
<1> DEFINE a == SubSeq(s, 1, i - 1)
           b == SubSeq(s, i + 1, Len(s))
<1>1. Len(s) \in Nat /\ i \in Int /\ 1 <= i /\ i <= Len(s)
  BY LenProperties
<1>2. \A j \in 1..Len(s) : s[j] \in S
  BY ElementOfSeq
<1>3. /\ a \in Seq(S) /\ Len(a) = i - 1
      /\ \A j \in 1..(i - 1) : a[j] = s[j]
  <2>1. \A j \in 1..(i - 1) : s[j] \in S
    BY <1>1, <1>2
  <2>2. /\ SubSeq(s, 1, i - 1) \in Seq(S)
        /\ Len(SubSeq(s, 1, i - 1)) = IF 1 <= i - 1 THEN (i - 1) - 1 + 1 ELSE 0
        /\ \A j \in 1..((i - 1) - 1 + 1) : SubSeq(s, 1, i - 1)[j] = s[1 + j - 1]
    BY <1>1, <2>1, SubSeqProperties
  <2> QED
    BY <1>1, <2>2
<1>4. /\ b \in Seq(S) /\ Len(b) = Len(s) - i
      /\ \A j \in 1..(Len(s) - i) : b[j] = s[i + j]
  <2>1. \A j \in (i + 1)..Len(s) : s[j] \in S
    BY <1>1, <1>2
  <2>2. /\ SubSeq(s, i + 1, Len(s)) \in Seq(S)
        /\ Len(SubSeq(s, i + 1, Len(s))) =
              IF i + 1 <= Len(s) THEN Len(s) - (i + 1) + 1 ELSE 0
        /\ \A j \in 1..(Len(s) - (i + 1) + 1) :
              SubSeq(s, i + 1, Len(s))[j] = s[(i + 1) + j - 1]
    BY <1>1, <2>1, SubSeqProperties
  <2>3. Len(s) - (i + 1) + 1 = Len(s) - i
    BY <1>1
  <2>4. \A j \in 1..(Len(s) - i) : (i + 1) + j - 1 = i + j
    BY <1>1
  <2> HIDE DEF b
  <2>7. /\ b \in Seq(S)
        /\ Len(b) = IF i + 1 <= Len(s) THEN Len(s) - (i + 1) + 1 ELSE 0
    BY <2>2 DEF b
  <2>5. b \in Seq(S) /\ Len(b) = Len(s) - i
    BY <1>1, <2>7
  <2>6. ASSUME NEW j \in 1..(Len(s) - i) PROVE b[j] = s[i + j]
    <3>1. b[j] = s[(i + 1) + j - 1]
      BY <2>2, <2>3 DEF b
    <3> QED
      BY <2>4, <3>1
  <2> QED
    BY <2>5, <2>6
<1> HIDE DEF a, b
<1>5. /\ a \o b \in Seq(S) /\ Len(a \o b) = Len(a) + Len(b)
      /\ \A j \in 1..(Len(a) + Len(b)) :
            (a \o b)[j] = IF j <= Len(a) THEN a[j] ELSE b[j - Len(a)]
  BY <1>3, <1>4, ConcatProperties
<1>6. \A j \in 1..(Len(s) - 1) : (a \o b)[j] = IF j < i THEN s[j] ELSE s[j + 1]
  <2> TAKE j \in 1..(Len(s) - 1)
  <2>1. j \in 1..(Len(a) + Len(b))
    BY <1>1, <1>3, <1>4
  <2>2. CASE j < i
    <3>1. j <= Len(a) /\ j \in 1..(i - 1)
      BY <1>1, <1>3, <2>2
    <3> QED
      BY <1>3, <1>5, <2>1, <2>2, <3>1
  <2>3. CASE ~(j < i)
    <3>1. ~(j <= Len(a)) /\ j - Len(a) \in 1..(Len(s) - i) /\ i + (j - Len(a)) = j + 1
      BY <1>1, <1>3, <2>3
    <3> QED
      BY <1>4, <1>5, <2>1, <2>3, <3>1
  <2> QED
    BY <2>2, <2>3
<1>7. C!Removed(s, i) = a \o b
  BY DEF C!Removed, a, b
<1>8. Len(a) + Len(b) = Len(s) - 1
  BY <1>1, <1>3, <1>4
<1> QED
  BY <1>5, <1>6, <1>7, <1>8

USE CacheAssumption

LEMMA WithoutFacts ==
    ASSUME NEW s, Tier1OK(s), NEW k
    PROVE  Tier1OK(C!Without(s, k)) /\ Len(C!Without(s, k)) <= Len(s)
<1>0. s \in Seq(Entry) /\ Len(s) \in Nat /\ Len(s) <= MaxEntries
  BY LenProperties DEF Tier1OK
<1>1. CASE C!PlacesOf(s, k) = {}
  BY <1>0, <1>1 DEF C!Without
<1>2. CASE C!PlacesOf(s, k) # {}
  <2> DEFINE i == CHOOSE j \in C!PlacesOf(s, k) : TRUE
             r == C!Removed(s, i)
  <2>1. i \in 1..Len(s)
    BY <1>0, <1>2, LenProperties DEF C!PlacesOf
  <2> HIDE DEF i
  <2>2. /\ r \in Seq(Entry) /\ Len(r) = Len(s) - 1
        /\ \A j \in 1..(Len(s) - 1) : r[j] = IF j < i THEN s[j] ELSE s[j + 1]
    BY <1>0, <2>1, RemovedFacts
  <2>3. C!Without(s, k) = r
    BY <1>2 DEF C!Without, i
  <2> HIDE DEF r
  <2>4. ASSUME NEW j \in 1..Len(r) PROVE FreshEnough(r[j])
    <3>1. j \in 1..(Len(s) - 1) /\ j \in 1..Len(s) /\ j + 1 \in 1..Len(s)
      BY <1>0, <2>2
    <3>2. r[j] = s[j] \/ r[j] = s[j + 1]
      BY <2>2, <3>1
    <3>3. FreshEnough(s[j]) /\ FreshEnough(s[j + 1])
      BY <3>1 DEF Tier1OK
    <3> QED
      BY <3>2, <3>3
  <2>5. Len(r) <= MaxEntries /\ Len(r) <= Len(s)
    BY <1>0, <2>2
  <2> QED
    BY <2>2, <2>3, <2>4, <2>5 DEF Tier1OK
<1> QED
  BY <1>1, <1>2

LEMMA AppendFacts ==
    ASSUME NEW s \in Seq(Entry), \A i \in 1..Len(s) : FreshEnough(s[i]),
           NEW e \in Entry, FreshEnough(e)
    PROVE  /\ Append(s, e) \in Seq(Entry) /\ Len(Append(s, e)) = Len(s) + 1
           /\ \A i \in 1..Len(Append(s, e)) : FreshEnough(Append(s, e)[i])
<1>1. /\ Append(s, e) \in Seq(Entry)
      /\ Len(Append(s, e)) = Len(s) + 1
      /\ \A i \in 1..Len(s) : Append(s, e)[i] = s[i]
      /\ Append(s, e)[Len(s) + 1] = e
      /\ Len(s) \in Nat
  BY AppendProperties, LenProperties
<1>2. ASSUME NEW i \in 1..Len(Append(s, e)) PROVE FreshEnough(Append(s, e)[i])
  <2>1. i \in 1..Len(s) \/ i = Len(s) + 1
    BY <1>1
  <2> QED
    BY <1>1, <2>1
<1> QED
  BY <1>1, <1>2

LEMMA SetL1Facts ==
    ASSUME Tier1OK(l1), NEW k \in Names, NEW old \in 0..Ttl
    PROVE  Tier1OK(C!SetL1(k, old))
<1> DEFINE w == C!Without(l1, k)
           e == [key |-> k, left |-> Ttl, age |-> old]
           g == Append(w, e)
<1>1. Tier1OK(w) /\ Len(w) <= MaxEntries
  BY WithoutFacts DEF Tier1OK
<1>2. e \in Entry /\ FreshEnough(e)
  <2>1. old \in 0..(2 * Ttl + 1) /\ Ttl \in 0..Ttl /\ Ttl + old <= 2 * Ttl
    OBVIOUS
  <2> QED
    BY <2>1 DEF Entry, FreshEnough
<1> HIDE DEF w, e
<1>3. /\ g \in Seq(Entry) /\ Len(g) = Len(w) + 1 /\ Len(w) \in Nat
      /\ \A i \in 1..Len(g) : FreshEnough(g[i])
  BY <1>1, <1>2, AppendFacts, LenProperties DEF Tier1OK
<1>4. C!SetL1(k, old) = IF Len(g) > MaxEntries THEN Tail(g) ELSE g
  BY DEF C!SetL1, w, e
<1> HIDE DEF g
<1>5. CASE Len(g) > MaxEntries
  <2>1. g # <<>>
    BY <1>3, EmptySeq
  <2>2. /\ Tail(g) \in Seq(Entry) /\ Len(Tail(g)) = Len(g) - 1
        /\ \A i \in 1..Len(Tail(g)) : Tail(g)[i] = g[i + 1]
    BY <1>3, <2>1, HeadTailProperties
  <2>3. ASSUME NEW i \in 1..Len(Tail(g)) PROVE FreshEnough(Tail(g)[i])
    <3>1. i + 1 \in 1..Len(g)
      BY <1>3, <2>2
    <3> QED
      BY <1>3, <2>2, <3>1
  <2>4. Len(Tail(g)) <= MaxEntries
    BY <1>1, <1>3, <2>2
  <2> QED
    BY <1>4, <1>5, <2>2, <2>3, <2>4 DEF Tier1OK
<1>6. CASE ~(Len(g) > MaxEntries)
  <2>1. Len(g) <= MaxEntries
    BY <1>3, <1>6
  <2> QED
    BY <1>3, <1>4, <1>6, <2>1 DEF Tier1OK
<1> QED
  BY <1>5, <1>6
-----------------------------------------------------------------------------
(* Steps. *)

LEMMA InitCache == ASSUME C!Init PROVE CacheInv
<1>1. Tier1OK(l1)
  BY EmptySeq DEF C!Init, Tier1OK
<1>2. Tier2OK(C!None)
  BY DEF Tier2OK, Stored, C!None
<1>3. OperationOK(C!Idle)
  BY DEF OperationOK, Operation, C!Idle
<1>4. l2 = [k \in Names |-> l2[k]] /\ \A k \in Names : Tier2OK(l2[k])
  BY <1>2 DEF C!Init
<1>5. op = [t \in Readers |-> op[t]] /\ \A t \in Readers : OperationOK(op[t])
  BY <1>3 DEF C!Init
<1>6. client \in Clients \cup {0} /\ retryIn \in 0..Backoff /\ served \in 0..(2 * Ttl)
  BY DEF C!Init
<1>7. redisUp \in BOOLEAN
  BY Zenon DEF C!Init
<1> QED
  BY <1>1, <1>4, <1>5, <1>6, <1>7, Zenon DEF CacheInv

\* What a step makes of the operation of one thread.
OpGoesTo(t, o) == op' = [op EXCEPT ![t] = o] /\ OperationOK(o)

LEMMA OneOperation ==
    ASSUME CacheInv, NEW t \in Readers, NEW o, OpGoesTo(t, o)
    PROVE  op' = [u \in Readers |-> op'[u]] /\ \A u \in Readers : OperationOK(op'[u])
  BY DEF OpGoesTo, CacheInv

LEMMA Ends ==
    ASSUME NEW t \in Readers, C!End(t) PROVE OpGoesTo(t, C!Idle)
  BY DEF C!End, OpGoesTo, OperationOK, Operation, C!Idle

LEMMA Begins ==
    ASSUME NEW t \in Readers, NEW what \in {"get", "set", "clear"},
           NEW keys \in SUBSET Names, C!Begin(t, what, keys)
    PROVE  OpGoesTo(t, [C!Idle EXCEPT !.at = "look", !.do = what, !.key = keys])
<1>1. C!Idle \in Operation
  BY DEF Operation, C!Idle
<1> DEFINE o == [C!Idle EXCEPT !.at = "look", !.do = what, !.key = keys]
<1>2. o \in Operation /\ o.at = "look"
  BY <1>1 DEF Operation
<1>3. op' = [op EXCEPT ![t] = o]
  BY DEF C!Begin
<1> HIDE DEF o
<1>4. OpGoesTo(t, o)
  BY <1>2, <1>3 DEF OpGoesTo, OperationOK
<1> QED
  BY <1>4 DEF o

LEMMA OperationMoves ==
    ASSUME NEW o \in Operation,
           NEW step \in {"look", "connect", "call", "delete", "mark"},
           NEW by \in Clients \cup {0}, NEW keys \in SUBSET Names
    PROVE  /\ OperationOK([o EXCEPT !.at = step])
           /\ OperationOK([o EXCEPT !.at = step, !.by = by])
           /\ OperationOK([o EXCEPT !.at = step, !.key = keys])
<1>1. [o EXCEPT !.at = step] \in Operation
  BY DEF Operation
<1>2. [o EXCEPT !.at = step, !.by = by] \in Operation
  BY DEF Operation
<1>3. [o EXCEPT !.at = step, !.key = keys] \in Operation
  BY DEF Operation
<1> QED
  BY <1>1, <1>2, <1>3 DEF OperationOK, Operation

LEMMA GoesTo ==
    ASSUME CacheInv, NEW t \in Readers,
           NEW step \in {"look", "connect", "call", "delete", "mark"}, C!GoTo(t, step)
    PROVE  OpGoesTo(t, [op[t] EXCEPT !.at = step])
<1>1. OperationOK([op[t] EXCEPT !.at = step])
  BY OperationMoves DEF CacheInv, OperationOK
<1>2. op' = [op EXCEPT ![t] = [op[t] EXCEPT !.at = step]]
  BY DEF C!GoTo
<1> QED
  BY <1>1, <1>2 DEF OpGoesTo

\* There is always a number for a new client.
LEMMA UnusedExists ==
    ASSUME CacheInv, client = 0
    PROVE  \E n \in Clients : C!Unused(n)
<1> DEFINE taken == {op[t].by : t \in Readers}
           f == [t \in Readers |-> op[t].by]
<1>1. f \in Surjection(Readers, taken)
  BY DEF Surjection
<1>2. IsFiniteSet(taken) /\ Cardinality(taken) <= Cardinality(Readers)
  <2> HIDE DEF f, taken
  <2> QED
    BY <1>1, FS_Surjection
<1>3. ~(Clients \subseteq taken)
  <2> HIDE DEF taken
  <2>1. SUFFICES ASSUME Clients \subseteq taken PROVE FALSE
    OBVIOUS
  <2>2. Cardinality(Clients) <= Cardinality(taken)
    BY <1>2, <2>1, FS_Subset
  <2>3. Cardinality(Clients) \in Nat /\ Cardinality(taken) \in Nat
        /\ Cardinality(Readers) \in Nat
    BY <1>2, FS_CardinalityType
  <2> QED
    BY <1>2, <2>2, <2>3
<1>4. PICK n \in Clients : n \notin taken
  BY <1>3
<1>5. n # client /\ \A t \in Readers : op[t].by # n
  BY <1>4
<1> QED
  BY <1>5 DEF C!Unused

\* Steps that change nothing but the operation of one thread.
LEMMA QuietStep ==
    ASSUME CacheInv, NEW t \in Readers, NEW o, OpGoesTo(t, o),
           UNCHANGED <<l1, l2, client, retryIn, redisUp, served>>
    PROVE  CacheInv'
<1>1. op' = [u \in Readers |-> op'[u]] /\ \A u \in Readers : OperationOK(op'[u])
  BY OneOperation
<1>2. \A u \in Readers : OperationOK(op[u])'
  BY <1>1 DEF OperationOK
<1>3. Tier1OK(l1)' /\ \A k \in Names : Tier2OK(l2[k])'
  BY DEF CacheInv, Tier1OK, Tier2OK
<1> QED
  BY <1>1, <1>2, <1>3, Zenon DEF CacheInv

LEMMA GetL1Step ==
    ASSUME CacheInv, NEW t \in Readers, NEW k \in Names, C!GetL1(t, k)
    PROVE  CacheInv'
<1>0. UNCHANGED <<l2, client, retryIn, redisUp>>
  BY DEF C!GetL1
<1>1. \A j \in Names : Tier2OK(l2[j])'
  BY <1>0 DEF CacheInv, Tier2OK
<1>2. CASE \E i \in C!Live(k) : /\ l1' = Append(C!Without(l1, k), l1[i])
                               /\ served' = l1[i].age /\ UNCHANGED op
  <2>1. PICK i \in C!Live(k) : /\ l1' = Append(C!Without(l1, k), l1[i])
                               /\ served' = l1[i].age /\ UNCHANGED op
    BY <1>2
  <2>2. l1 \in Seq(Entry) /\ i \in 1..Len(l1) /\ l1[i].key = k /\ l1[i].left > 0
    BY LenProperties DEF C!Live, CacheInv, Tier1OK
  <2>3. l1[i] \in Entry /\ FreshEnough(l1[i])
    BY <2>2, ElementOfSeq DEF CacheInv, Tier1OK
  <2>4. served' \in 0..(2 * Ttl)
    BY <2>1, <2>2, <2>3 DEF Entry, FreshEnough
  <2> DEFINE w == C!Without(l1, k)
  <2>5. Tier1OK(w) /\ Len(w) < Len(l1)
    <3>1. C!PlacesOf(l1, k) # {}
      BY <2>2, LenProperties DEF C!PlacesOf
    <3> DEFINE j == CHOOSE p \in C!PlacesOf(l1, k) : TRUE
    <3>2. j \in 1..Len(l1)
      BY <2>2, <3>1, LenProperties DEF C!PlacesOf
    <3> HIDE DEF j
    <3>3. w = C!Removed(l1, j)
      BY <3>1 DEF C!Without, j
    <3>4. Len(w) = Len(l1) - 1
      BY <2>2, <3>2, <3>3, RemovedFacts
    <3>5. Len(l1) \in Nat
      BY <2>2, LenProperties
    <3>6. Tier1OK(w)
      BY WithoutFacts DEF CacheInv
    <3> HIDE DEF w
    <3> QED
      BY <3>4, <3>5, <3>6
  <2> HIDE DEF w
  <2>6. /\ l1' \in Seq(Entry) /\ Len(l1') = Len(w) + 1
        /\ \A m \in 1..Len(l1') : FreshEnough(l1'[m])
    BY <2>1, <2>3, <2>5, AppendFacts DEF Tier1OK, w
  <2>7. Len(l1') <= MaxEntries
    <3>1. Len(w) \in Nat /\ Len(l1) \in Nat /\ Len(l1) <= MaxEntries
      BY <2>5, LenProperties DEF CacheInv, Tier1OK
    <3> QED
      BY <2>5, <2>6, <3>1
  <2>8. Tier1OK(l1)'
    BY <2>6, <2>7 DEF Tier1OK, FreshEnough
  <2>9. op' = [u \in Readers |-> op'[u]] /\ \A u \in Readers : OperationOK(op[u])'
    BY <2>1 DEF CacheInv, OperationOK
  <2> QED
    BY <1>0, <1>1, <2>4, <2>8, <2>9, Zenon DEF CacheInv
<1>3. CASE C!Live(k) = {} /\ l1' = C!Without(l1, k) /\ C!Begin(t, "get", {k})
           /\ UNCHANGED served
  <2>1. Tier1OK(l1')
    BY <1>3, WithoutFacts DEF CacheInv
  <2>2. Tier1OK(l1)'
    BY <2>1 DEF Tier1OK, FreshEnough
  <2>3. op' = [u \in Readers |-> op'[u]] /\ \A u \in Readers : OperationOK(op'[u])
    <3>1. {k} \in SUBSET Names
      OBVIOUS
    <3>2. OpGoesTo(t, [C!Idle EXCEPT !.at = "look", !.do = "get", !.key = {k}])
      BY <1>3, <3>1, Begins
    <3> QED
      BY <3>2, OneOperation
  <2>4. \A u \in Readers : OperationOK(op[u])'
    BY <2>3 DEF OperationOK
  <2> QED
    BY <1>0, <1>1, <1>3, <2>2, <2>3, <2>4, Zenon DEF CacheInv
<1> QED
  BY <1>2, <1>3 DEF C!GetL1

\* Steps that write the first tier and move one thread.
LEMMA TierStep ==
    ASSUME CacheInv, NEW t \in Readers, NEW o, OpGoesTo(t, o), NEW e, Tier1OK(e),
           l1' = e, UNCHANGED <<l2, client, retryIn, redisUp>>,
           served' \in 0..(2 * Ttl)
    PROVE  CacheInv'
<1>1. op' = [u \in Readers |-> op'[u]] /\ \A u \in Readers : OperationOK(op'[u])
  BY OneOperation
<1>2. \A u \in Readers : OperationOK(op[u])'
  BY <1>1 DEF OperationOK
<1>3. Tier1OK(l1)' /\ \A k \in Names : Tier2OK(l2[k])'
  BY DEF CacheInv, Tier1OK, Tier2OK, FreshEnough
<1> QED
  BY <1>1, <1>2, <1>3, Zenon DEF CacheInv

LEMMA SetStep ==
    ASSUME CacheInv, NEW t \in Readers, NEW k \in Names, C!Set(t, k)
    PROVE  CacheInv'
<1>1. Tier1OK(C!SetL1(k, 0))
  BY SetL1Facts DEF CacheInv
<1>2. l1' = C!SetL1(k, 0) /\ C!Begin(t, "set", {k})
      /\ UNCHANGED <<l2, client, retryIn, redisUp, served>>
  BY DEF C!Set
<1>3. served' \in 0..(2 * Ttl)
  BY <1>2 DEF CacheInv
<1>4. {k} \in SUBSET Names
  OBVIOUS
<1>5. OpGoesTo(t, [C!Idle EXCEPT !.at = "look", !.do = "set", !.key = {k}])
  BY <1>2, <1>4, Begins
<1> QED
  BY <1>1, <1>2, <1>3, <1>5, TierStep

LEMMA ClearStep ==
    ASSUME CacheInv, NEW t \in Readers, C!Clear(t)
    PROVE  CacheInv'
<1>1. Tier1OK(<<>>)
  BY EmptySeq DEF Tier1OK
<1>2. l1' = <<>> /\ C!Begin(t, "clear", {})
      /\ UNCHANGED <<l2, client, retryIn, redisUp, served>>
  BY DEF C!Clear
<1>3. served' \in 0..(2 * Ttl)
  BY <1>2 DEF CacheInv
<1>4. {} \in SUBSET Names /\ "clear" \in {"get", "set", "clear"}
  OBVIOUS
<1>5. OpGoesTo(t, [C!Idle EXCEPT !.at = "look", !.do = "clear", !.key = {}])
  BY <1>2, <1>4, Begins
<1> DEFINE o == [C!Idle EXCEPT !.at = "look", !.do = "clear", !.key = {}]
<1> HIDE DEF o
<1>6. OpGoesTo(t, o)
  BY <1>5 DEF o
<1> QED
  BY <1>1, <1>2, <1>3, <1>6, TierStep

LEMMA FillStep ==
    ASSUME CacheInv, NEW t \in Readers, C!FillL1(t)
    PROVE  CacheInv'
<1>1. OperationOK(op[t]) /\ op[t].at = "fill"
  BY DEF CacheInv, C!FillL1
<1>2. op[t].age \in 0..Ttl
  BY <1>1 DEF OperationOK, Operation
<1>3. PICK k \in op[t].key : l1' = C!SetL1(k, op[t].age)
  BY DEF C!FillL1
<1>4. k \in Names
  BY <1>1, <1>3 DEF OperationOK, Operation
<1>5. Tier1OK(C!SetL1(k, op[t].age))
  BY <1>2, <1>4, SetL1Facts DEF CacheInv
<1>6. C!End(t) /\ UNCHANGED <<l2, client, retryIn, redisUp>> /\ served' = op[t].age
  BY DEF C!FillL1
<1>7. served' \in 0..(2 * Ttl)
  BY <1>2, <1>6
<1> QED
  BY <1>3, <1>5, <1>6, <1>7, Ends, TierStep

LEMMA LookStep ==
    ASSUME CacheInv, NEW t \in Readers, C!LookForClient(t)
    PROVE  CacheInv'
<1>0. UNCHANGED <<l1, l2, client, retryIn, redisUp, served>>
  BY DEF C!LookForClient
<1>1. CASE client # 0
  <2>1. op' = [op EXCEPT ![t] = [op[t] EXCEPT !.at = "call", !.by = client]]
    BY <1>1 DEF C!LookForClient, CacheInv
  <2>2. OperationOK([op[t] EXCEPT !.at = "call", !.by = client])
    BY OperationMoves DEF CacheInv, OperationOK
  <2> QED
    BY <1>0, <2>1, <2>2, QuietStep DEF OpGoesTo
<1>2. CASE client = 0 /\ retryIn > 0
  BY <1>0, <1>2, Ends, QuietStep DEF C!LookForClient
<1>3. CASE client = 0 /\ ~(retryIn > 0)
  BY <1>0, <1>3, GoesTo, QuietStep DEF C!LookForClient
<1> QED
  BY <1>1, <1>2, <1>3

\* Steps that change the client, the time of the next attempt or Redis.
LEMMA ClientStep ==
    ASSUME CacheInv, NEW t \in Readers, NEW o, OpGoesTo(t, o),
           client' \in Clients \cup {0}, retryIn' \in 0..Backoff,
           UNCHANGED <<l1, l2, redisUp, served>>
    PROVE  CacheInv'
<1>1. op' = [u \in Readers |-> op'[u]] /\ \A u \in Readers : OperationOK(op'[u])
  BY OneOperation
<1>2. \A u \in Readers : OperationOK(op[u])'
  BY <1>1 DEF OperationOK
<1>3. Tier1OK(l1)' /\ \A k \in Names : Tier2OK(l2[k])'
  BY DEF CacheInv, Tier1OK, Tier2OK
<1> QED
  BY <1>1, <1>2, <1>3, Zenon DEF CacheInv

LEMMA ConnectStep ==
    ASSUME CacheInv, NEW t \in Readers, C!Connect(t)
    PROVE  CacheInv' /\ (client # 0 => client' = client)
<1> DEFINE new == CHOOSE n \in Clients : C!Unused(n)
           mine == IF client # 0 THEN client ELSE new
<1>0. UNCHANGED <<l1, l2, redisUp, served>>
  BY DEF C!Connect
<1>1. mine \in Clients \cup {0}
  BY UnusedExists DEF CacheInv
<1>2. client # 0 => mine = client
  OBVIOUS
<1>3. IF client # 0 \/ (retryIn = 0 /\ redisUp)
      THEN /\ client' = mine
           /\ op' = [op EXCEPT ![t].at = "call", ![t].by = mine]
           /\ UNCHANGED retryIn
      ELSE /\ C!End(t)
           /\ retryIn' = IF retryIn > 0 THEN retryIn ELSE Backoff
           /\ UNCHANGED client
  BY DEF C!Connect
<1> HIDE DEF mine
<1>4. CASE client # 0 \/ (retryIn = 0 /\ redisUp)
  <2>1. op' = [op EXCEPT ![t] = [op[t] EXCEPT !.at = "call", !.by = mine]]
    BY <1>3, <1>4 DEF CacheInv
  <2>2. OperationOK([op[t] EXCEPT !.at = "call", !.by = mine])
    BY <1>1, OperationMoves DEF CacheInv, OperationOK
  <2>3. client' = mine /\ retryIn' \in 0..Backoff
    BY <1>3, <1>4 DEF CacheInv
  <2>4. CacheInv'
    BY <1>0, <1>1, <2>1, <2>2, <2>3, ClientStep DEF OpGoesTo
  <2> QED
    BY <1>2, <2>3, <2>4
<1>5. CASE ~(client # 0 \/ (retryIn = 0 /\ redisUp))
  <2>1. C!End(t) /\ UNCHANGED client
    BY <1>3, <1>5
  <2>2. retryIn' \in 0..Backoff
    BY <1>3, <1>5 DEF CacheInv
  <2>3. client' \in Clients \cup {0}
    BY <2>1 DEF CacheInv
  <2> QED
    BY <1>0, <2>1, <2>2, <2>3, Ends, ClientStep
<1> QED
  BY <1>4, <1>5

LEMMA MarkStep ==
    ASSUME CacheInv, NEW t \in Readers, C!MarkUnavailable(t)
    PROVE  /\ CacheInv'
           /\ client # 0 /\ client' # client =>
                 client' = 0 /\ op[t].at = "mark" /\ op[t].by = client
<1>1. /\ op[t].at = "mark" /\ C!End(t) /\ UNCHANGED <<l1, l2, redisUp, served>>
      /\ IF client \in {0, op[t].by} THEN client' = 0 /\ retryIn' = Backoff
         ELSE UNCHANGED <<client, retryIn>>
  BY DEF C!MarkUnavailable
<1>2. client' \in Clients \cup {0} /\ retryIn' \in 0..Backoff
  BY <1>1 DEF CacheInv
<1>3. CacheInv'
  BY <1>1, <1>2, Ends, ClientStep
<1> QED
  BY <1>1, <1>3

LEMMA FailsStep ==
    ASSUME CacheInv, NEW t \in Readers, C!CallFails(t)
    PROVE  CacheInv'
  BY GoesTo, QuietStep DEF C!CallFails

LEMMA RedisGetStep ==
    ASSUME CacheInv, NEW t \in Readers, C!RedisGet(t)
    PROVE  CacheInv'
<1>0. UNCHANGED <<l1, l2, client, retryIn, redisUp, served>>
  BY DEF C!RedisGet
<1>1. CASE C!End(t)
  BY <1>0, <1>1, Ends, QuietStep
<1>2. ASSUME NEW k \in op[t].key, l2[k].left > 0,
             op' = [op EXCEPT ![t].at = "fill", ![t].age = l2[k].age]
      PROVE  CacheInv'
  <2>1. OperationOK(op[t])
    BY DEF CacheInv
  <2>2. k \in Names
    BY <2>1 DEF OperationOK, Operation
  <2>3. l2[k].age \in 0..(2 * Ttl + 1) /\ l2[k].age <= Ttl
    <3>1. Tier2OK(l2[k])
      BY <2>2 DEF CacheInv
    <3> QED
      BY <1>2, <3>1 DEF Tier2OK, Stored
  <2> DEFINE a == l2[k].age
             o == [op[t] EXCEPT !.at = "fill", !.age = a]
  <2>4. op' = [op EXCEPT ![t] = o]
    BY <1>2 DEF CacheInv
  <2> HIDE DEF a
  <2>5. o \in Operation /\ o.age = a
    BY <2>1, <2>3 DEF OperationOK, Operation, a
  <2>6. OperationOK(o)
    BY <2>3, <2>5 DEF OperationOK, a
  <2> HIDE DEF o
  <2> QED
    BY <1>0, <2>4, <2>6, QuietStep DEF OpGoesTo
<1> QED
  BY <1>1, <1>2 DEF C!RedisGet

LEMMA RedisScanStep ==
    ASSUME CacheInv, NEW t \in Readers, C!RedisScan(t)
    PROVE  CacheInv'
<1> DEFINE keys == {k \in Names : l2[k].left > 0}
<1>0. UNCHANGED <<l1, l2, client, retryIn, redisUp, served>>
  BY DEF C!RedisScan
<1>1. op' = [op EXCEPT ![t] = [op[t] EXCEPT !.at = "delete", !.key = keys]]
  BY DEF C!RedisScan, CacheInv
<1>2. keys \in SUBSET Names
  OBVIOUS
<1> HIDE DEF keys
<1>3. OperationOK([op[t] EXCEPT !.at = "delete", !.key = keys])
  BY <1>2, OperationMoves DEF CacheInv, OperationOK
<1> QED
  BY <1>0, <1>1, <1>3, QuietStep DEF OpGoesTo

\* Steps that write Redis.
LEMMA SecondTierStep ==
    ASSUME CacheInv, NEW t \in Readers, C!End(t),
           l2' = [k \in Names |-> l2'[k]], \A k \in Names : Tier2OK(l2'[k]),
           UNCHANGED <<l1, client, retryIn, redisUp, served>>
    PROVE  CacheInv'
<1>1. op' = [u \in Readers |-> op'[u]] /\ \A u \in Readers : OperationOK(op'[u])
  BY Ends, OneOperation
<1>2. \A u \in Readers : OperationOK(op[u])'
  BY <1>1 DEF OperationOK
<1>3. Tier1OK(l1)' /\ \A k \in Names : Tier2OK(l2[k])'
  BY DEF CacheInv, Tier1OK, Tier2OK
<1> QED
  BY <1>1, <1>2, <1>3, Zenon DEF CacheInv

LEMMA NoneIsStored == Tier2OK(C!None)
  BY DEF Tier2OK, Stored, C!None

LEMMA RedisSetStep ==
    ASSUME CacheInv, NEW t \in Readers, C!RedisSet(t)
    PROVE  CacheInv'
<1>0. C!End(t) /\ UNCHANGED <<l1, client, retryIn, redisUp, served>>
  BY DEF C!RedisSet
<1>1. CASE UNCHANGED l2
  BY <1>0, <1>1, SecondTierStep DEF CacheInv
<1>2. ASSUME NEW k \in op[t].key, l2' = [l2 EXCEPT ![k] = [left |-> Ttl, age |-> 0]]
      PROVE  CacheInv'
  <2>1. Tier2OK([left |-> Ttl, age |-> 0])
    BY DEF Tier2OK, Stored
  <2>2. l2' = [j \in Names |-> l2'[j]] /\ \A j \in Names : Tier2OK(l2'[j])
    BY <1>2, <2>1 DEF CacheInv
  <2> QED
    BY <1>0, <2>2, SecondTierStep
<1> QED
  BY <1>1, <1>2 DEF C!RedisSet

LEMMA RedisDeleteStep ==
    ASSUME CacheInv, NEW t \in Readers, C!RedisDelete(t)
    PROVE  CacheInv'
<1>0. C!End(t) /\ UNCHANGED <<l1, client, retryIn, redisUp, served>>
  BY DEF C!RedisDelete
<1>1. l2' = [k \in Names |-> IF k \in op[t].key THEN C!None ELSE l2[k]]
  BY DEF C!RedisDelete
<1>2. l2' = [k \in Names |-> l2'[k]] /\ \A k \in Names : Tier2OK(l2'[k])
  BY <1>1, NoneIsStored DEF CacheInv
<1> QED
  BY <1>0, <1>2, SecondTierStep

\* An hour older.
LEMMA AgedFacts ==
    /\ \A e \in Entry : FreshEnough(e) =>
          C!Aged(e) \in Entry /\ FreshEnough(C!Aged(e))
    /\ \A e : Tier2OK(e) /\ ~(e.left <= 1) => Tier2OK(C!Aged(e))
<1> DEFINE older(n) == C!Smaller(n + 1, C!Oldest)
<1>1. ASSUME NEW n \in 0..(2 * Ttl + 1)
      PROVE  older(n) \in 0..(2 * Ttl + 1) /\ older(n) <= n + 1
  BY DEF C!Smaller, C!Oldest
<1>2. ASSUME NEW n \in 0..Ttl
      PROVE  /\ C!Less(n) \in 0..Ttl
             /\ C!Less(n) > 0 => n > 0 /\ C!Less(n) + 1 = n
  BY DEF C!Less
<1>3. ASSUME NEW e \in Entry, FreshEnough(e)
      PROVE  C!Aged(e) \in Entry /\ FreshEnough(C!Aged(e))
  <2> DEFINE l == C!Less(e.left)
             a == older(e.age)
  <2>1. e.left \in 0..Ttl /\ e.age \in 0..(2 * Ttl + 1)
    BY DEF Entry
  <2>2. /\ l \in 0..Ttl /\ a \in 0..(2 * Ttl + 1) /\ a <= e.age + 1
        /\ l > 0 => e.left > 0 /\ l + 1 = e.left
    BY <1>1, <1>2, <2>1
  <2>3. C!Aged(e) = [e EXCEPT !.left = l, !.age = a]
    BY DEF C!Aged
  <2> HIDE DEF l, a
  <2>4. C!Aged(e) \in Entry /\ C!Aged(e).left = l /\ C!Aged(e).age = a
    BY <2>2, <2>3 DEF Entry
  <2>5. l > 0 => l + a <= 2 * Ttl
    BY <1>3, <2>1, <2>2 DEF FreshEnough
  <2> QED
    BY <2>4, <2>5 DEF FreshEnough
<1>4. ASSUME NEW e, Tier2OK(e), ~(e.left <= 1)
      PROVE  Tier2OK(C!Aged(e))
  <2> DEFINE l == C!Less(e.left)
             a == older(e.age)
  <2>1. e.left \in 0..Ttl /\ e.age \in 0..(2 * Ttl + 1) /\ e \in Stored
    BY <1>4 DEF Tier2OK, Stored
  <2>2. /\ l \in 0..Ttl /\ a \in 0..(2 * Ttl + 1) /\ a <= e.age + 1 /\ l + 1 = e.left
    BY <1>1, <1>2, <1>4, <2>1 DEF C!Less
  <2>3. C!Aged(e) = [e EXCEPT !.left = l, !.age = a]
    BY DEF C!Aged
  <2> HIDE DEF l, a
  <2>4. C!Aged(e) \in Stored /\ C!Aged(e).left = l /\ C!Aged(e).age = a
    BY <2>1, <2>2, <2>3 DEF Stored
  <2>5. l + a <= Ttl
    BY <1>4, <2>1, <2>2 DEF Tier2OK
  <2> QED
    BY <2>4, <2>5 DEF Tier2OK
<1> QED
  BY <1>3, <1>4

LEMMA TickStep == ASSUME CacheInv, C!Tick PROVE CacheInv'
<1>0. /\ l1' = [i \in DOMAIN l1 |-> C!Aged(l1[i])]
      /\ l2' = [k \in Names |-> IF l2[k].left <= 1 THEN C!None ELSE C!Aged(l2[k])]
      /\ retryIn' = C!Less(retryIn) /\ UNCHANGED <<client, redisUp, op, served>>
  BY DEF C!Tick
<1>1. Tier1OK(l1)'
  <2>1. l1 \in Seq(Entry) /\ Len(l1) \in Nat /\ DOMAIN l1 = 1..Len(l1)
        /\ Len(l1) <= MaxEntries
    BY LenProperties DEF CacheInv, Tier1OK
  <2>2. \A i \in 1..Len(l1) : C!Aged(l1[i]) \in Entry /\ FreshEnough(C!Aged(l1[i]))
    BY <2>1, AgedFacts, ElementOfSeq DEF CacheInv, Tier1OK
  <2>3. l1' = [i \in 1..Len(l1) |-> C!Aged(l1[i])]
    BY <1>0, <2>1
  <2>4. l1' \in Seq(Entry) /\ Len(l1') = Len(l1)
    BY <2>1, <2>2, <2>3
  <2>5. \A i \in 1..Len(l1') : FreshEnough(l1'[i])
    BY <2>2, <2>3, <2>4
  <2> QED
    BY <2>1, <2>4, <2>5 DEF Tier1OK, FreshEnough
<1>2. l2' = [k \in Names |-> l2'[k]] /\ \A k \in Names : Tier2OK(l2'[k])
  BY <1>0, NoneIsStored, AgedFacts DEF CacheInv
<1>3. \A k \in Names : Tier2OK(l2[k])'
  BY <1>2 DEF Tier2OK
<1>4. \A u \in Readers : OperationOK(op[u])'
  BY <1>0 DEF CacheInv, OperationOK
<1>5. retryIn' \in 0..Backoff
  BY <1>0 DEF CacheInv, C!Less
<1> QED
  BY <1>0, <1>1, <1>2, <1>3, <1>4, <1>5, Zenon DEF CacheInv

LEMMA UnchangedCache ==
    ASSUME CacheInv, UNCHANGED <<l1, l2, client, retryIn, op, served>>,
           redisUp' \in BOOLEAN
    PROVE  CacheInv'
<1>1. Tier1OK(l1)' /\ \A k \in Names : Tier2OK(l2[k])'
  BY DEF CacheInv, Tier1OK, Tier2OK
<1>2. \A u \in Readers : OperationOK(op[u])'
  BY DEF CacheInv, OperationOK
<1> QED
  BY <1>1, <1>2, Zenon DEF CacheInv

LEMMA CacheStep ==
    ASSUME CacheInv, [C!Next]_(C!vars)
    PROVE  CacheInv'
<1>1. CASE UNCHANGED C!vars
  <2>1. redisUp' = redisUp /\ UNCHANGED <<l1, l2, client, retryIn, op, served>>
    BY <1>1 DEF C!vars
  <2>2. redisUp' \in BOOLEAN
    BY <2>1, Zenon DEF CacheInv
  <2> QED
    BY <2>1, <2>2, UnchangedCache
<1>2. CASE C!RedisToggle
  <2>1. redisUp' = ~redisUp /\ UNCHANGED <<l1, l2, client, retryIn, op, served>>
    BY <1>2, Zenon DEF C!RedisToggle
  <2>2. redisUp' \in BOOLEAN
    BY <2>1, Zenon
  <2> QED
    BY <2>1, <2>2, UnchangedCache
<1>3. CASE C!Tick
  BY <1>3, TickStep
<1>4. ASSUME NEW t \in Readers,
             \/ \E k \in Names : C!GetL1(t, k) \/ C!Set(t, k)
             \/ C!Clear(t)
             \/ C!LookForClient(t) \/ C!Connect(t) \/ C!CallFails(t)
             \/ C!MarkUnavailable(t) \/ C!RedisGet(t) \/ C!FillL1(t)
             \/ C!RedisSet(t) \/ C!RedisScan(t) \/ C!RedisDelete(t)
      PROVE  CacheInv'
  BY <1>4, GetL1Step, SetStep, ClearStep, LookStep, ConnectStep, FailsStep,
     MarkStep, RedisGetStep, FillStep, RedisSetStep, RedisScanStep,
     RedisDeleteStep
<1> QED
  BY <1>1, <1>2, <1>3, <1>4 DEF C!Next

\* Who changes the client.
LEMMA ClientChanges ==
    ASSUME CacheInv, C!Next, client # 0, client' # client
    PROVE  client' = 0 /\ \E t \in Readers : op[t].at = "mark" /\ op[t].by = client
<1>1. CASE C!Tick \/ C!RedisToggle
  BY <1>1 DEF C!Tick, C!RedisToggle
<1>2. ASSUME NEW t \in Readers, NEW k \in Names, C!GetL1(t, k) \/ C!Set(t, k)
      PROVE  FALSE
  BY <1>2 DEF C!GetL1, C!Set
<1>3. ASSUME NEW t \in Readers,
             \/ C!Clear(t) \/ C!LookForClient(t) \/ C!CallFails(t)
             \/ C!RedisGet(t) \/ C!FillL1(t) \/ C!RedisSet(t)
             \/ C!RedisScan(t) \/ C!RedisDelete(t)
      PROVE  FALSE
  BY <1>3 DEF C!Clear, C!LookForClient, C!CallFails, C!RedisGet, C!FillL1,
              C!RedisSet, C!RedisScan, C!RedisDelete
<1> QED
  BY <1>1, <1>2, <1>3, ConnectStep, MarkStep DEF C!Next

\* The types are part of the invariant.
LEMMA CacheTypes == ASSUME CacheInv PROVE C!TypeOK
<1>0. C!Oldest = 2 * Ttl + 1 /\ Ttl \in Nat /\ Backoff \in Nat
  BY DEF C!Oldest
<1>1. /\ l1 \in Seq(Entry) /\ Len(l1) <= MaxEntries
      /\ \A i \in 1..Len(l1) : l1[i] \in Entry
  <2>1. l1 \in Seq(Entry) /\ Len(l1) <= MaxEntries
    BY DEF CacheInv, Tier1OK
  <2> QED
    BY <2>1, ElementOfSeq
<1>2. \A i \in DOMAIN l1 : /\ l1[i].key \in Names
                            /\ l1[i].left \in 0..Ttl
                            /\ l1[i].age \in 0..C!Oldest
  <2>1. DOMAIN l1 = 1..Len(l1)
    BY <1>1, LenProperties
  <2> QED
    BY <1>0, <1>1, <2>1 DEF Entry
<1>3. l2 \in [Names -> [left : 0..Ttl, age : 0..C!Oldest]]
  BY <1>0 DEF CacheInv, Tier2OK, Stored
<1>4. ASSUME NEW t \in Readers
      PROVE  /\ op[t].at \in {"idle", "look", "connect", "call", "fill", "delete",
                               "mark"}
             /\ op[t].key \subseteq Names
             /\ op[t].by \in Clients \cup {0}
  BY DEF CacheInv, OperationOK, Operation
<1>5. served \in 0..C!Oldest
  <2>1. served \in 0..(2 * Ttl)
    BY DEF CacheInv
  <2> QED
    BY <1>0, <2>1
<1> QED
  BY <1>1, <1>2, <1>3, <1>4, <1>5 DEF C!TypeOK, CacheInv

\* A text is served at most for twice its time to live, although a refill of
\* the first tier starts the time anew; a client in use is never replaced, and
\* dropped only after a call on it has failed; and the first tier stays within
\* its bound (get, _set_l1, _get_redis_client, _mark_redis_client_unavailable).
THEOREM CacheCorrect == C!Spec => CacheIsSafe
<1>1. C!Init => CacheInv
  BY InitCache
<1>2. CacheInv /\ [C!Next]_(C!vars) => CacheInv'
  BY CacheStep
<1>3. CacheInv => served <= 2 * Ttl
  BY DEF CacheInv
<1>4. CacheInv /\ [C!Next]_(C!vars) =>
        [client # 0 /\ client' # client =>
            /\ client' = 0
            /\ \E t \in Readers : op[t].at = "mark" /\ op[t].by = client]_(C!vars)
  BY ClientChanges
<1>5. CacheInv => C!TypeOK
  BY CacheTypes
<1> QED
  BY <1>1, <1>2, <1>3, <1>4, <1>5, PTL DEF C!Spec, CacheIsSafe, C!CacheIsSafe
HIDE CacheAssumption
-----------------------------------------------------------------------------
(***************************************************************************)
(* The ledger of a turn.                                                   *)
(***************************************************************************)


IsSequence(s) == \E set : s \in Seq(set)

LEMMA Appended ==
    ASSUME NEW s, IsSequence(s), NEW e
    PROVE  /\ IsSequence(Append(s, e))
           /\ Len(s) \in Nat /\ DOMAIN s = 1..Len(s)
           /\ Len(Append(s, e)) = Len(s) + 1
           /\ DOMAIN Append(s, e) = 1..(Len(s) + 1)
           /\ \A i \in 1..Len(s) : Append(s, e)[i] = s[i]
           /\ Append(s, e)[Len(s) + 1] = e
           /\ s \o <<>> = s /\ s \o <<e>> = Append(s, e)
<1>1. PICK set : s \in Seq(set)
  BY DEF IsSequence
<1>2. s \in Seq(set \cup {e}) /\ e \in set \cup {e}
  BY <1>1
<1>3. /\ Append(s, e) \in Seq(set \cup {e})
      /\ Len(Append(s, e)) = Len(s) + 1
      /\ \A i \in 1..Len(s) : Append(s, e)[i] = s[i]
      /\ Append(s, e)[Len(s) + 1] = e
      /\ Len(s) \in Nat /\ DOMAIN s = 1..Len(s)
      /\ DOMAIN Append(s, e) = 1..Len(Append(s, e))
  <2> DEFINE more == set \cup {e}
  <2> HIDE DEF more
  <2>1. s \in Seq(more) /\ e \in more
    BY <1>2 DEF more
  <2>2. Append(s, e) \in Seq(more)
    BY <2>1, AppendProperties
  <2>3. /\ Len(Append(s, e)) = Len(s) + 1
        /\ \A i \in 1..Len(s) : Append(s, e)[i] = s[i]
        /\ Append(s, e)[Len(s) + 1] = e
    BY <2>1, AppendProperties
  <2>4. Len(s) \in Nat /\ DOMAIN s = 1..Len(s)
    BY <2>1, LenProperties
  <2>5. DOMAIN Append(s, e) = 1..Len(Append(s, e))
    BY <2>2, LenProperties
  <2> QED
    BY <2>2, <2>3, <2>4, <2>5 DEF more
<1>4. s \o <<>> = s /\ s \o <<e>> = Append(s, e)
  <2>1. s \o <<>> = s
    BY <1>1
  <2>2. s \o <<e>> = Append(s, e)
    BY <1>2
  <2> QED
    BY <2>1, <2>2
<1> QED
  BY <1>3, <1>4 DEF IsSequence

LEMMA SequenceLength ==
    ASSUME NEW s, IsSequence(s)
    PROVE  Len(s) \in Nat /\ DOMAIN s = 1..Len(s)
BY Appended

-----------------------------------------------------------------------------
(***************************************************************************)
(* The links of a turn.  Who had an item is what the log says of it: who   *)
(* was last closed since it was last given, or nobody.                     *)
(***************************************************************************)

OpsOK(o) ==
    /\ IsSequence(o)
    /\ \A i \in DOMAIN o :
          /\ o[i].op \in {"link.close", "link.create", "event.create", "object.update",
                          "object.create"}
          /\ o[i].op = "link.create" => o[i].item \in Items /\ o[i].holder \in Entities
          /\ o[i].op = "link.close" =>
                o[i].item \in Items /\ o[i].holders \subseteq Entities /\ o[i].holders # {}
          /\ o[i].op = "object.update" => o[i].update \in Patches

Made(o, x) == {i \in DOMAIN o : o[i].op = "link.create" /\ o[i].item = x}
Closed(o, x) == {i \in DOMAIN o : o[i].op = "link.close" /\ o[i].item = x}
HoldersIn(o, indices) == {o[i].holder : i \in indices}

\* A flush lies between the two operations.
Flushed(o, j, i) == \E k \in DOMAIN o : j < k /\ k < i /\ o[k].op = "object.create"

Early(o, x, i) == {j \in Made(o, x) : j < i /\ Flushed(o, j, i)}
Recent(o, x, i) == {j \in Made(o, x) : j < i /\ ~Flushed(o, j, i)}
Last(o, x, i) == {j \in Early(o, x, i) : \A k \in Early(o, x, i) : ~Flushed(o, j, k)}

\* Who had an item at the last flush before operation i.
LastHad(b, o, x, i) ==
    IF Last(o, x, i) = {} THEN {b.owner[x]} ELSE HoldersIn(o, Last(o, x, i))

GiversAt(b, o, x, i) ==
    (IF Last(o, x, i) = {} \/ Recent(o, x, i) # {} THEN {b.owner[x]} ELSE {})
    \cup HoldersIn(o, Last(o, x, i))

\* Who is closed by the last link before i, if none was created since.
Remembered(o, x, i, e) ==
    \E k \in Closed(o, x) :
        /\ k < i /\ e \in o[k].holders
        /\ \A j \in Made(o, x) \cup Closed(o, x) : j <= k \/ i <= j

Forgotten(o, x, i) ==
    \A k \in Closed(o, x) : k < i => \E j \in Made(o, x) : k < j /\ j < i

\* Whoever is remembered at i had the item.
Fits(b, o, x, i) ==
    /\ \A e \in Entities : Remembered(o, x, i, e) => e \in GiversAt(b, o, x, i)
    /\ Forgotten(o, x, i) => b.owner[x] \in GiversAt(b, o, x, i)

LEMMA Indices ==
    ASSUME NEW o, IsSequence(o)
    PROVE  /\ Len(o) \in Nat /\ DOMAIN o = 1..Len(o)
           /\ \A x : \A i \in Made(o, x) \cup Closed(o, x) : i \in 1..Len(o) /\ i \in Nat
           /\ \A x, i, k : i \in Made(o, x) /\ k \in Closed(o, x) => i # k
BY SequenceLength DEF Made, Closed

\* What comes later says nothing of what was before.
LEMMA EarlierStays ==
    ASSUME NEW o, IsSequence(o), NEW e, NEW x, NEW i \in 1..(Len(o) + 1)
    PROVE  LET q == Append(o, e)
           IN  /\ Last(q, x, i) = Last(o, x, i) /\ Recent(q, x, i) = Recent(o, x, i)
               /\ HoldersIn(q, Last(q, x, i)) = HoldersIn(o, Last(o, x, i))
               /\ HoldersIn(q, Recent(q, x, i)) = HoldersIn(o, Recent(o, x, i))
               /\ \A y : Remembered(q, x, i, y) <=> Remembered(o, x, i, y)
               /\ Forgotten(q, x, i) <=> Forgotten(o, x, i)
<1> DEFINE q == Append(o, e)
           n == Len(o)
<1>1. /\ n \in Nat /\ DOMAIN o = 1..n /\ DOMAIN q = 1..(n + 1)
      /\ \A j \in 1..n : q[j] = o[j]
  BY Appended
<1> HIDE DEF q
<1>2. \A j \in 1..n : j \in DOMAIN o /\ j \in DOMAIN q
  BY <1>1
<1>3. ASSUME NEW j, j < i
      PROVE  /\ j \in Made(q, x) <=> j \in Made(o, x)
             /\ j \in Closed(q, x) <=> j \in Closed(o, x)
  <2>1. j \in DOMAIN q <=> j \in DOMAIN o
    BY <1>1, <1>3
  <2>2. j \in DOMAIN o => q[j] = o[j]
    BY <1>1
  <2> QED
    BY <2>1, <2>2 DEF Made, Closed
<1>4. ASSUME NEW j, NEW m, m \in Int, m <= i
      PROVE  Flushed(q, j, m) <=> Flushed(o, j, m)
  <2>1. \A k \in DOMAIN q : k < m => k \in DOMAIN o
    BY <1>1, <1>4
  <2>2. \A k \in DOMAIN o : k \in DOMAIN q /\ q[k] = o[k]
    BY <1>1
  <2> QED
    BY <2>1, <2>2 DEF Flushed
<1>5. i \in Int /\ \A j : j \in Made(o, x) \cup Made(q, x) => j \in Int
  BY <1>1 DEF Made
<1>6. ASSUME NEW j
      PROVE  /\ j \in Early(q, x, i) <=> j \in Early(o, x, i)
             /\ j \in Recent(q, x, i) <=> j \in Recent(o, x, i)
  <2>1. Flushed(q, j, i) <=> Flushed(o, j, i)
    BY <1>4, <1>5
  <2> QED
    BY <1>3, <2>1 DEF Early, Recent
<1>7. ASSUME NEW j
      PROVE  j \in Last(q, x, i) <=> j \in Last(o, x, i)
  <2>1. \A k \in Early(o, x, i) : k \in Int /\ k <= i
    BY <1>5 DEF Early
  <2>2. \A k \in Early(o, x, i) : Flushed(q, j, k) <=> Flushed(o, j, k)
    BY <1>4, <2>1
  <2> QED
    BY <1>6, <2>2 DEF Last
<1>8. \A j \in Early(o, x, i) \cup Recent(o, x, i) : q[j] = o[j]
  BY <1>1 DEF Early, Recent, Made
<1>9. /\ Last(q, x, i) = Last(o, x, i) /\ Recent(q, x, i) = Recent(o, x, i)
      /\ HoldersIn(q, Last(q, x, i)) = HoldersIn(o, Last(o, x, i))
      /\ HoldersIn(q, Recent(q, x, i)) = HoldersIn(o, Recent(o, x, i))
  <2>1. Last(q, x, i) = Last(o, x, i) /\ Recent(q, x, i) = Recent(o, x, i)
    <3> DEFINE p == Last(q, x, i)
               r == Recent(q, x, i)
               s == Last(o, x, i)
               t == Recent(o, x, i)
    <3>1. \A j : (j \in p <=> j \in s) /\ (j \in r <=> j \in t)
      BY <1>6, <1>7
    <3> HIDE DEF p, r, s, t
    <3>2. p = s /\ r = t
      BY <3>1
    <3> QED
      BY <3>2 DEF p, r, s, t
  <2>2. Last(o, x, i) \subseteq Early(o, x, i)
    BY DEF Last
  <2> QED
    BY <1>8, <2>1, <2>2 DEF HoldersIn
<1>10. ASSUME NEW y
       PROVE  Remembered(q, x, i, y) <=> Remembered(o, x, i, y)
  <2>1. \A k \in Closed(o, x) : q[k] = o[k]
    BY <1>1 DEF Closed
  <2>2. /\ \A j \in Made(q, x) \cup Closed(q, x) : i <= j \/ j \in Made(o, x) \cup Closed(o, x)
        /\ \A j \in Made(o, x) \cup Closed(o, x) : i <= j \/ j \in Made(q, x) \cup Closed(q, x)
    <3>1. \A j : j \in Made(o, x) \cup Closed(o, x) \cup Made(q, x) \cup Closed(q, x) =>
                  i <= j \/ j < i
      BY <1>1 DEF Made, Closed
    <3> QED
      BY <1>3, <3>1
  <2> QED
    BY <1>3, <2>1, <2>2 DEF Remembered
<1>11. Forgotten(q, x, i) <=> Forgotten(o, x, i)
  BY <1>3 DEF Forgotten
<1> QED
  BY <1>9, <1>10, <1>11 DEF q

\* From one operation to the next: what closes a link is remembered, what creates
\* one forgets, and nothing else does either.
LEMMA MemoryMovesOn ==
    ASSUME NEW o, IsSequence(o), NEW x, NEW i \in DOMAIN o
    PROVE  /\ i \notin Made(o, x) \cup Closed(o, x) =>
                  /\ \A y : Remembered(o, x, i + 1, y) <=> Remembered(o, x, i, y)
                  /\ Forgotten(o, x, i + 1) <=> Forgotten(o, x, i)
           /\ i \in Closed(o, x) =>
                  /\ \A y : Remembered(o, x, i + 1, y) <=> y \in o[i].holders
                  /\ ~Forgotten(o, x, i + 1)
           /\ i \in Made(o, x) =>
                  /\ \A y : ~Remembered(o, x, i + 1, y)
                  /\ Forgotten(o, x, i + 1)
<1> DEFINE m == Made(o, x)
           c == Closed(o, x)
<1>1. i \in Nat /\ (\A j \in m \cup c : j \in Nat) /\ \A j \in m : \A k \in c : j # k
  BY Indices
<1> HIDE DEF m, c
<1>2. \A j \in m \cup c : /\ j < i + 1 <=> (j < i \/ j = i)
                         /\ i + 1 <= j <=> (i <= j /\ j # i)
  BY <1>1
<1>3. CASE i \notin m \cup c
  <2>1. \A j \in m \cup c : (j < i + 1 <=> j < i) /\ (i + 1 <= j <=> i <= j)
    <3> SUFFICES ASSUME NEW j \in m \cup c
                 PROVE  (j < i + 1 <=> j < i) /\ (i + 1 <= j <=> i <= j)
      OBVIOUS
    <3>1. j # i /\ j \in Nat
      BY <1>1, <1>3
    <3> QED
      BY <1>1, <3>1
  <2>2. \A y : Remembered(o, x, i + 1, y) <=> Remembered(o, x, i, y)
    BY <2>1 DEF Remembered, m, c
  <2>3. Forgotten(o, x, i + 1) <=> Forgotten(o, x, i)
    BY <2>1 DEF Forgotten, m, c
  <2> QED
    BY <1>1, <1>3, <2>2, <2>3 DEF m, c
<1>4. CASE i \in c
  <2>1. \A j \in m \cup c : j <= i \/ i + 1 <= j
    BY <1>1
  <2>2. ASSUME NEW y
        PROVE  Remembered(o, x, i + 1, y) <=> y \in o[i].holders
    <3>1. ASSUME NEW k \in c, \A j \in m \cup c : j <= k \/ i + 1 <= j, k < i + 1
          PROVE  k = i
      BY <1>1, <1>4, <3>1
    <3>2. i < i + 1
      BY <1>1
    <3> QED
      BY <1>4, <2>1, <3>1, <3>2 DEF Remembered, m, c
  <2>3. ~\E j \in m : i < j /\ j < i + 1
    BY <1>1
  <2>4. ~Forgotten(o, x, i + 1)
    BY <1>1, <1>4, <2>3 DEF Forgotten, m, c
  <2>5. i \notin m
    BY <1>1, <1>4
  <2> QED
    BY <1>4, <2>2, <2>4, <2>5 DEF m, c
<1>5. CASE i \in m
  <2>1. \A k \in c : k < i + 1 => k < i
    BY <1>1, <1>2, <1>5
  <2>2. i < i + 1 /\ \A k \in c : ~(i <= k /\ k < i)
    BY <1>1
  <2>3. Forgotten(o, x, i + 1)
    BY <1>5, <2>1, <2>2 DEF Forgotten, m, c
  <2>4. ASSUME NEW y PROVE ~Remembered(o, x, i + 1, y)
    <3>1. ASSUME NEW k \in c, \A j \in m \cup c : j <= k \/ i + 1 <= j, k < i + 1
          PROVE  FALSE
      BY <1>1, <1>5, <2>1, <3>1
    <3> QED
      BY <3>1 DEF Remembered, m, c
  <2>5. i \notin c
    BY <1>1, <1>5
  <2> QED
    BY <1>5, <2>3, <2>4, <2>5 DEF m, c
<1> QED
  BY <1>3, <1>4, <1>5 DEF m, c

LEMMA BatchMovesOn ==
    ASSUME NEW o, IsSequence(o), NEW x, NEW i \in DOMAIN o
    PROVE  /\ o[i].op # "object.create" => Last(o, x, i + 1) = Last(o, x, i)
           /\ o[i].op # "object.create" =>
                 Recent(o, x, i + 1) = Recent(o, x, i) \cup (Made(o, x) \cap {i})
           /\ o[i].op = "object.create" =>
                 /\ Recent(o, x, i + 1) = {}
                 /\ Last(o, x, i + 1) =
                       IF Recent(o, x, i) = {} THEN Last(o, x, i) ELSE Recent(o, x, i)
<1> DEFINE m == Made(o, x)
           early == Early(o, x, i)
           later == Early(o, x, i + 1)
           recent == Recent(o, x, i)
           after == Recent(o, x, i + 1)
<1>1. i \in Nat /\ (\A j \in m : j \in Nat) /\ \A k \in DOMAIN o : k \in Nat
  BY Indices
<1>2. /\ \A j : j \in early <=> j \in m /\ j < i /\ Flushed(o, j, i)
      /\ \A j : j \in later <=> j \in m /\ j < i + 1 /\ Flushed(o, j, i + 1)
      /\ \A j : j \in recent <=> j \in m /\ j < i /\ ~Flushed(o, j, i)
      /\ \A j : j \in after <=> j \in m /\ j < i + 1 /\ ~Flushed(o, j, i + 1)
  BY DEF Early, Recent
<1>3. \A j \in m : o[j].op = "link.create"
  BY DEF Made
<1> HIDE DEF m, early, later, recent, after
<1>4. \A j : Flushed(o, j, i + 1) <=>
               Flushed(o, j, i) \/ (j < i /\ o[i].op = "object.create")
  <2>1. \A k \in DOMAIN o : k < i + 1 <=> k < i \/ k = i
    BY <1>1
  <2> QED
    BY <2>1 DEF Flushed
<1>5. \A j \in m : j < i + 1 <=> j < i \/ j = i
  BY <1>1
<1>6. ~Flushed(o, i, i)
  BY <1>1 DEF Flushed
<1>7. CASE o[i].op # "object.create"
  <2>1. \A j : j \in later <=> j \in early
    BY <1>2, <1>4, <1>5, <1>6, <1>7
  <2>2. \A j : j \in after <=> j \in recent \/ j \in m \cap {i}
    BY <1>1, <1>2, <1>4, <1>5, <1>6, <1>7
  <2>3. later = early /\ after = recent \cup (m \cap {i})
    BY <2>1, <2>2
  <2>4. Last(o, x, i + 1) = Last(o, x, i)
    BY <2>3 DEF Last, later, early
  <2> QED
    BY <1>7, <2>3, <2>4 DEF after, recent, m
<1>8. CASE o[i].op = "object.create"
  <2>1. i \notin m
    BY <1>3, <1>8
  <2>2. \A j : j \notin after
    BY <1>2, <1>4, <1>5, <1>8, <2>1
  <2>3. \A j : j \in later <=> j \in early \/ j \in recent
    BY <1>2, <1>4, <1>5, <1>8, <2>1
  <2>4. CASE recent = {}
    <3>1. later = early
      BY <2>3, <2>4
    <3> QED
      BY <1>8, <2>2, <2>4, <3>1 DEF Last, later, early, recent, after
  <2>5. CASE recent # {}
    <3>1. PICK r : r \in recent
      BY <2>5
    <3>2. ASSUME NEW j \in recent, NEW k \in later
          PROVE  ~Flushed(o, j, k)
      <4>1. k < i /\ k \in m
        BY <1>2, <2>3
      <4>2. \A n \in DOMAIN o : n < k => n < i
        BY <1>1, <4>1
      <4> QED
        BY <1>2, <4>2 DEF Flushed
    <3>3. ASSUME NEW j \in early
          PROVE  Flushed(o, j, r)
      <4>1. PICK n \in DOMAIN o : j < n /\ n < i /\ o[n].op = "object.create"
        BY <1>2 DEF Flushed
      <4>2. ~(r < n) /\ r # n /\ r \in Nat
        BY <1>1, <1>2, <1>3, <3>1, <4>1 DEF Flushed
      <4>3. n < r
        BY <1>1, <4>2
      <4> QED
        BY <4>1, <4>3 DEF Flushed
    <3>4. \A j : j \in recent <=> j \in later /\ \A k \in later : ~Flushed(o, j, k)
      BY <2>3, <3>1, <3>2, <3>3
    <3>5. Last(o, x, i + 1) = recent
      BY <3>4 DEF Last, later
    <3> QED
      BY <1>8, <2>2, <2>5, <3>5 DEF recent, after
  <2> QED
    BY <2>4, <2>5
<1> QED
  BY <1>7, <1>8 DEF m, recent, after

\* What is known of the links of an item: who is found had it at the last flush;
\* a link that was created left none of them; and whoever is remembered, when
\* nobody is found, had the item.
BatchOK(b, o, x, c) ==
    /\ c.added = HoldersIn(o, Recent(o, x, Len(o) + 1))
    /\ c.added # {} => c.found \subseteq c.closed
    /\ c.found \subseteq LastHad(b, o, x, Len(o) + 1)
    /\ c.found = {} => Fits(b, o, x, Len(o) + 1)
    /\ c.closed # {} =>
          \A e \in Entities : Remembered(o, x, Len(o) + 1, e) => e \in c.found
    /\ c.added = {} /\ c.closed # {} => ~Forgotten(o, x, Len(o) + 1)

LinksOK(b, o, h) ==
    /\ \A x \in Items : BatchOK(b, o, x, h[x])
    /\ \A x \in Items : \A i \in Made(o, x) : Fits(b, o, x, i)

LEMMA LastHadGive ==
    ASSUME NEW b, NEW o, NEW x, NEW i
    PROVE  LastHad(b, o, x, i) \subseteq GiversAt(b, o, x, i)
BY DEF LastHad, GiversAt

\* What the log says of an item after one more operation.
LEMMA AfterAppend ==
    ASSUME NEW o, IsSequence(o), NEW e, NEW x
    PROVE  LET q == Append(o, e)
               n == Len(o) + 1
           IN  /\ IsSequence(q) /\ Len(q) = n /\ n \in DOMAIN q /\ q[n] = e
               /\ e.op = "link.create" /\ e.item = x => n \in Made(q, x)
               /\ ~(e.op = "link.create" /\ e.item = x) =>
                     Made(q, x) = Made(o, x) /\ n \notin Made(q, x)
               /\ e.op = "link.close" /\ e.item = x => n \in Closed(q, x)
               /\ ~(e.op = "link.close" /\ e.item = x) =>
                     Closed(q, x) = Closed(o, x) /\ n \notin Closed(q, x)
               /\ n \in Nat /\ n \in 1..n
               /\ \A i \in Made(q, x) : i = n \/ (i \in Made(o, x) /\ i \in 1..n)
               /\ \A b : \A i \in 1..n : Fits(b, q, x, i) <=> Fits(b, o, x, i)
               /\ \A b : \A i \in 1..n : LastHad(b, q, x, i) = LastHad(b, o, x, i)
<1> DEFINE q == Append(o, e)
           n == Len(o) + 1
<1>1. /\ IsSequence(q) /\ Len(o) \in Nat /\ DOMAIN o = 1..Len(o)
      /\ DOMAIN q = 1..n /\ Len(q) = n
      /\ \A j \in 1..Len(o) : q[j] = o[j]
      /\ q[n] = e
  BY Appended
<1>2. ASSUME NEW b, NEW i \in 1..n
      PROVE  /\ Fits(b, q, x, i) <=> Fits(b, o, x, i)
             /\ LastHad(b, q, x, i) = LastHad(b, o, x, i)
  <2>1. /\ Last(q, x, i) = Last(o, x, i) /\ Recent(q, x, i) = Recent(o, x, i)
        /\ HoldersIn(q, Last(q, x, i)) = HoldersIn(o, Last(o, x, i))
        /\ \A y : Remembered(q, x, i, y) <=> Remembered(o, x, i, y)
        /\ Forgotten(q, x, i) <=> Forgotten(o, x, i)
    BY EarlierStays
  <2> HIDE DEF q
  <2> QED
    BY <2>1 DEF Fits, GiversAt, LastHad
<1>3. n \notin 1..Len(o) /\ n \in 1..n /\ 1..n = (1..Len(o)) \cup {n}
  BY <1>1
<1> HIDE DEF q, n
<1>4. /\ Made(q, x) = Made(o, x) \cup
            IF e.op = "link.create" /\ e.item = x THEN {n} ELSE {}
      /\ Closed(q, x) = Closed(o, x) \cup
            IF e.op = "link.close" /\ e.item = x THEN {n} ELSE {}
      /\ n \notin Made(o, x) \cup Closed(o, x)
      /\ \A i \in Made(o, x) : i \in 1..Len(o)
  BY <1>1, <1>3 DEF Made, Closed
<1>5. /\ e.op = "link.create" /\ e.item = x => n \in Made(q, x)
      /\ ~(e.op = "link.create" /\ e.item = x) =>
            Made(q, x) = Made(o, x) /\ n \notin Made(q, x)
      /\ e.op = "link.close" /\ e.item = x => n \in Closed(q, x)
      /\ ~(e.op = "link.close" /\ e.item = x) =>
            Closed(q, x) = Closed(o, x) /\ n \notin Closed(q, x)
      /\ \A i \in Made(q, x) : i = n \/ (i \in Made(o, x) /\ i \in 1..n)
  <2>1. e.op = "link.create" /\ e.item = x => Made(q, x) = Made(o, x) \cup {n}
    BY <1>4
  <2>2. ~(e.op = "link.create" /\ e.item = x) => Made(q, x) = Made(o, x)
    BY <1>4
  <2>3. e.op = "link.close" /\ e.item = x => Closed(q, x) = Closed(o, x) \cup {n}
    BY <1>4
  <2>4. ~(e.op = "link.close" /\ e.item = x) => Closed(q, x) = Closed(o, x)
    BY <1>4
  <2>5. \A i \in Made(q, x) : i = n \/ i \in Made(o, x)
    BY <2>1, <2>2
  <2>6. \A i \in 1..Len(o) : i \in 1..n
    BY <1>3
  <2> QED
    BY <1>4, <2>1, <2>2, <2>3, <2>4, <2>5, <2>6
<1>6. n \in Nat /\ n \in 1..n
  BY <1>1, <1>3 DEF n
<1> QED
  BY <1>1, <1>2, <1>5, <1>6 DEF q, n

\* An operation on other items, or on none.
LEMMA OtherKeepsBatch ==
    ASSUME NEW b, NEW o, IsSequence(o), NEW x, NEW c, BatchOK(b, o, x, c), NEW e,
           e.op # "object.create",
           e.op \in {"link.create", "link.close"} => e.item # x
    PROVE  BatchOK(b, Append(o, e), x, c)
<1> DEFINE q == Append(o, e)
           n == Len(o) + 1
<1>1. /\ IsSequence(q) /\ Len(q) = n /\ n \in DOMAIN q /\ q[n] = e /\ n \in 1..n
      /\ Made(q, x) = Made(o, x) /\ Closed(q, x) = Closed(o, x)
      /\ n \notin Made(q, x) \cup Closed(q, x)
  BY AfterAppend
<1>2. /\ Last(q, x, n) = Last(o, x, n) /\ Recent(q, x, n) = Recent(o, x, n)
      /\ HoldersIn(q, Last(q, x, n)) = HoldersIn(o, Last(o, x, n))
      /\ HoldersIn(q, Recent(q, x, n)) = HoldersIn(o, Recent(o, x, n))
      /\ \A y : Remembered(q, x, n, y) <=> Remembered(o, x, n, y)
      /\ Forgotten(q, x, n) <=> Forgotten(o, x, n)
  BY <1>1, EarlierStays
<1> HIDE DEF q
<1>3. /\ \A y : Remembered(q, x, n + 1, y) <=> Remembered(q, x, n, y)
      /\ Forgotten(q, x, n + 1) <=> Forgotten(q, x, n)
  BY <1>1, MemoryMovesOn
<1>4. Last(q, x, n + 1) = Last(q, x, n) /\ Recent(q, x, n + 1) = Recent(q, x, n)
  <2>1. Made(q, x) \cap {n} = {}
    BY <1>1
  <2>2. Recent(q, x, n + 1) = Recent(q, x, n) \cup (Made(q, x) \cap {n})
    BY <1>1, BatchMovesOn
  <2>3. Last(q, x, n + 1) = Last(q, x, n)
    BY <1>1, BatchMovesOn
  <2> QED
    BY <2>1, <2>2, <2>3
<1> HIDE DEF n
<1>5. /\ Fits(b, q, x, n + 1) <=> Fits(b, o, x, n)
      /\ LastHad(b, q, x, n + 1) = LastHad(b, o, x, n)
  BY <1>2, <1>3, <1>4 DEF Fits, GiversAt, LastHad
<1> QED
  BY <1>1, <1>2, <1>3, <1>4, <1>5 DEF BatchOK, q, n

\* Links that are found are closed.
LEMMA ClosingKeepsBatch ==
    ASSUME NEW b, NEW o, IsSequence(o), NEW x, NEW c, BatchOK(b, o, x, c), NEW e,
           e.op = "link.close", e.item = x, e.holders \subseteq c.found, e.holders # {},
           NEW d, d.found = c.found, d.added = c.added, d.closed = c.closed \cup e.holders
    PROVE  /\ BatchOK(b, Append(o, e), x, d)
           /\ ~Forgotten(Append(o, e), x, Len(o) + 2)
<1> DEFINE q == Append(o, e)
           n == Len(o) + 1
<1>1. /\ IsSequence(q) /\ Len(q) = n /\ n \in DOMAIN q /\ q[n] = e /\ n \in 1..n
      /\ Made(q, x) = Made(o, x) /\ n \in Closed(q, x)
      /\ n \notin Made(q, x)
  BY AfterAppend
<1>2. /\ Last(q, x, n) = Last(o, x, n) /\ Recent(q, x, n) = Recent(o, x, n)
      /\ HoldersIn(q, Last(q, x, n)) = HoldersIn(o, Last(o, x, n))
      /\ HoldersIn(q, Recent(q, x, n)) = HoldersIn(o, Recent(o, x, n))
  BY <1>1, EarlierStays
<1>8. Len(o) + 2 = n + 1
  BY Indices
<1> HIDE DEF q
<1>3. /\ \A y : Remembered(q, x, n + 1, y) <=> y \in e.holders
      /\ ~Forgotten(q, x, n + 1)
  BY <1>1, MemoryMovesOn
<1>4. Last(q, x, n + 1) = Last(q, x, n) /\ Recent(q, x, n + 1) = Recent(q, x, n)
  <2>1. Made(q, x) \cap {n} = {}
    BY <1>1
  <2>2. Recent(q, x, n + 1) = Recent(q, x, n) \cup (Made(q, x) \cap {n})
    BY <1>1, BatchMovesOn
  <2>3. Last(q, x, n + 1) = Last(q, x, n)
    BY <1>1, BatchMovesOn
  <2> QED
    BY <2>1, <2>2, <2>3
<1> HIDE DEF n
<1>5. LastHad(b, q, x, n + 1) = LastHad(b, o, x, n)
  BY <1>2, <1>4 DEF LastHad
<1>6. c.found # {}
  OBVIOUS
<1>7. BatchOK(b, q, x, d)
  BY <1>1, <1>2, <1>3, <1>4, <1>5, <1>6 DEF BatchOK, n
<1> QED
  BY <1>3, <1>7, <1>8 DEF q

\* A link is created, when nobody is found whose link is not closed.
LEMMA CreationKeepsBatch ==
    ASSUME NEW b, NEW o, IsSequence(o), NEW x, NEW c, BatchOK(b, o, x, c), NEW e,
           e.op = "link.create", e.item = x,
           c.found = {} \/ (c.found \subseteq c.closed /\ ~Forgotten(o, x, Len(o) + 1)),
           NEW d, d.found = c.found, d.added = c.added \cup {e.holder}, d.closed = c.closed
    PROVE  /\ BatchOK(b, Append(o, e), x, d)
           /\ Fits(b, Append(o, e), x, Len(o) + 1)
<1> DEFINE q == Append(o, e)
           n == Len(o) + 1
<1>1. /\ IsSequence(q) /\ Len(q) = n /\ n \in DOMAIN q /\ q[n] = e /\ n \in 1..n
      /\ Closed(q, x) = Closed(o, x) /\ n \in Made(q, x)
  BY AfterAppend
<1>2. /\ Last(q, x, n) = Last(o, x, n) /\ Recent(q, x, n) = Recent(o, x, n)
      /\ HoldersIn(q, Last(q, x, n)) = HoldersIn(o, Last(o, x, n))
      /\ HoldersIn(q, Recent(q, x, n)) = HoldersIn(o, Recent(o, x, n))
      /\ Fits(b, q, x, n) <=> Fits(b, o, x, n)
  BY <1>1, EarlierStays, AfterAppend
<1> HIDE DEF q
<1>3. /\ \A y : ~Remembered(q, x, n + 1, y)
      /\ Forgotten(q, x, n + 1)
  BY <1>1, MemoryMovesOn
<1>4. Last(q, x, n + 1) = Last(q, x, n) /\ Recent(q, x, n + 1) = Recent(q, x, n) \cup {n}
  <2>1. Made(q, x) \cap {n} = {n}
    BY <1>1
  <2>2. Recent(q, x, n + 1) = Recent(q, x, n) \cup (Made(q, x) \cap {n})
    BY <1>1, BatchMovesOn
  <2>3. Last(q, x, n + 1) = Last(q, x, n)
    BY <1>1, BatchMovesOn
  <2> QED
    BY <2>1, <2>2, <2>3
<1> HIDE DEF n
<1>5. /\ LastHad(b, q, x, n + 1) = LastHad(b, o, x, n)
      /\ b.owner[x] \in GiversAt(b, q, x, n + 1)
  BY <1>2, <1>4 DEF LastHad, GiversAt
<1>6. HoldersIn(q, Recent(q, x, n + 1)) = d.added
  <2>1. HoldersIn(q, Recent(q, x, n) \cup {n}) = HoldersIn(q, Recent(q, x, n)) \cup {q[n].holder}
    BY DEF HoldersIn
  <2> QED
    BY <1>1, <1>2, <1>4, <2>1 DEF BatchOK, n
<1>7. Fits(b, q, x, n + 1)
  BY <1>3, <1>5 DEF Fits
<1>8. BatchOK(b, q, x, d)
  <2>1. d.added # {} /\ d.found \subseteq d.closed
    OBVIOUS
  <2> QED
    BY <1>1, <1>3, <1>5, <1>6, <1>7, <2>1 DEF BatchOK, n
<1>9. Fits(b, o, x, n)
  <2>1. CASE c.found = {}
    BY <2>1 DEF BatchOK, n
  <2>2. CASE c.found # {}
    <3>1. c.found \subseteq GiversAt(b, o, x, n)
      BY LastHadGive DEF BatchOK, n
    <3>2. ~Forgotten(o, x, n) /\ c.closed # {}
      BY <2>2 DEF n
    <3> QED
      BY <3>1, <3>2 DEF BatchOK, Fits, n
  <2> QED
    BY <2>1, <2>2
<1> QED
  BY <1>2, <1>8, <1>9 DEF q, n

\* A flush.
LEMMA FlushKeepsBatch ==
    ASSUME NEW b, NEW o, IsSequence(o), NEW x, NEW c, BatchOK(b, o, x, c),
           c.found \subseteq Entities, NEW e, e.op = "object.create"
    PROVE  BatchOK(b, Append(o, e), x, E!AfterFlush(c))
<1> DEFINE q == Append(o, e)
           n == Len(o) + 1
           d == E!AfterFlush(c)
<1>1. /\ IsSequence(q) /\ Len(q) = n /\ n \in DOMAIN q /\ q[n] = e /\ n \in 1..n
      /\ Made(q, x) = Made(o, x) /\ Closed(q, x) = Closed(o, x)
      /\ n \notin Made(q, x) \cup Closed(q, x)
  BY AfterAppend
<1>2. /\ Last(q, x, n) = Last(o, x, n) /\ Recent(q, x, n) = Recent(o, x, n)
      /\ HoldersIn(q, Last(q, x, n)) = HoldersIn(o, Last(o, x, n))
      /\ HoldersIn(q, Recent(q, x, n)) = HoldersIn(o, Recent(o, x, n))
      /\ \A y : Remembered(q, x, n, y) <=> Remembered(o, x, n, y)
      /\ Forgotten(q, x, n) <=> Forgotten(o, x, n)
  BY <1>1, EarlierStays
<1> HIDE DEF q
<1>3. /\ \A y : Remembered(q, x, n + 1, y) <=> Remembered(q, x, n, y)
      /\ Forgotten(q, x, n + 1) <=> Forgotten(q, x, n)
  BY <1>1, MemoryMovesOn
<1>4. /\ Recent(q, x, n + 1) = {}
      /\ Last(q, x, n + 1) = IF Recent(q, x, n) = {} THEN Last(q, x, n) ELSE Recent(q, x, n)
  BY <1>1, BatchMovesOn
<1>5. d.found = (c.found \ c.closed) \cup c.added /\ d.closed = {} /\ d.added = {}
  BY DEF E!AfterFlush
<1>6. d.added = HoldersIn(q, Recent(q, x, n + 1))
  BY <1>4, <1>5 DEF HoldersIn
<1> HIDE DEF n, d
<1>7. CASE Recent(o, x, n) = {}
  <2>1. c.added = {} /\ d.found \subseteq c.found
    BY <1>5, <1>7 DEF BatchOK, HoldersIn, n
  <2>2. /\ Last(q, x, n + 1) = Last(o, x, n)
        /\ HoldersIn(q, Last(q, x, n + 1)) = HoldersIn(o, Last(o, x, n))
    BY <1>2, <1>4, <1>7
  <2>3. LastHad(b, q, x, n + 1) = LastHad(b, o, x, n)
    BY <2>2 DEF LastHad
  <2>4. GiversAt(b, q, x, n + 1) = GiversAt(b, o, x, n)
    BY <1>4, <1>7, <2>2 DEF GiversAt
  <2>5. ASSUME d.found = {} PROVE Fits(b, q, x, n + 1)
    <3>1. CASE c.found = {}
      BY <1>2, <1>3, <2>4, <3>1 DEF BatchOK, Fits, n
    <3>2. CASE c.found # {}
      <4>1. c.closed # {}
        BY <1>5, <2>5, <3>2
      <4>2. c.found \subseteq GiversAt(b, o, x, n)
        BY LastHadGive DEF BatchOK, n
      <4>3. /\ \A y \in Entities : Remembered(o, x, n, y) => y \in c.found
            /\ ~Forgotten(o, x, n)
        BY <2>1, <4>1 DEF BatchOK, n
      <4> QED
        BY <1>2, <1>3, <2>4, <4>2, <4>3 DEF Fits
    <3> QED
      BY <3>1, <3>2
  <2>6. d.found \subseteq LastHad(b, q, x, n + 1)
    BY <2>1, <2>3 DEF BatchOK, n
  <2> QED
    BY <1>1, <1>5, <1>6, <2>5, <2>6 DEF BatchOK, q, n, d
<1>8. CASE Recent(o, x, n) # {}
  <2>1. /\ Last(q, x, n + 1) = Recent(o, x, n)
        /\ HoldersIn(q, Last(q, x, n + 1)) = c.added
    BY <1>2, <1>4, <1>8 DEF BatchOK, n
  <2>2. c.added # {}
    BY <1>8 DEF BatchOK, HoldersIn, n
  <2>3. d.found = c.added
    BY <1>5, <2>2 DEF BatchOK
  <2>4. LastHad(b, q, x, n + 1) = c.added
    BY <1>8, <2>1 DEF LastHad
  <2> QED
    BY <1>1, <1>5, <1>6, <2>2, <2>3, <2>4 DEF BatchOK, q, n, d
<1> QED
  BY <1>7, <1>8

LEMMA OpsAppend ==
    ASSUME NEW o, OpsOK(o), NEW e,
           e.op \in {"link.close", "link.create", "event.create", "object.update",
                     "object.create"},
           e.op = "link.create" => e.item \in Items /\ e.holder \in Entities,
           e.op = "link.close" =>
              e.item \in Items /\ e.holders \subseteq Entities /\ e.holders # {},
           e.op = "object.update" => e.update \in Patches
    PROVE  OpsOK(Append(o, e))
<1>1. IsSequence(o)
  BY DEF OpsOK
<1>2. /\ IsSequence(Append(o, e)) /\ Len(o) \in Nat /\ DOMAIN o = 1..Len(o)
      /\ DOMAIN Append(o, e) = 1..(Len(o) + 1)
      /\ \A i \in 1..Len(o) : Append(o, e)[i] = o[i]
      /\ Append(o, e)[Len(o) + 1] = e
  BY <1>1, Appended
<1>3. ASSUME NEW i \in DOMAIN Append(o, e)
      PROVE  (i \in DOMAIN o /\ Append(o, e)[i] = o[i]) \/ Append(o, e)[i] = e
  BY <1>2
<1> QED
  BY <1>2, <1>3 DEF OpsOK

LEMMA LinksAppend ==
    ASSUME NEW b, NEW o, IsSequence(o), NEW h, LinksOK(b, o, h), NEW e, NEW g,
           \A x \in Items : BatchOK(b, Append(o, e), x, g[x]),
           e.op = "link.create" => Fits(b, Append(o, e), e.item, Len(o) + 1)
    PROVE  LinksOK(b, Append(o, e), g)
<1>1. ASSUME NEW x \in Items, NEW i \in Made(Append(o, e), x)
      PROVE  Fits(b, Append(o, e), x, i)
  <2>1. CASE i \in Made(o, x) /\ i \in 1..(Len(o) + 1)
    <3>1. Fits(b, o, x, i)
      BY <2>1 DEF LinksOK
    <3>2. Fits(b, Append(o, e), x, i) <=> Fits(b, o, x, i)
      BY <2>1, AfterAppend
    <3> QED
      BY <3>1, <3>2
  <2>2. CASE i = Len(o) + 1
    <3>1. Append(o, e)[i] = e
      BY <2>2, Appended
    <3>2. e.op = "link.create" /\ e.item = x
      BY <3>1 DEF Made
    <3> QED
      BY <2>2, <3>2
  <2>3. i = Len(o) + 1 \/ (i \in Made(o, x) /\ i \in 1..(Len(o) + 1))
    BY AfterAppend
  <2> QED
    BY <2>1, <2>2, <2>3
<1> QED
  BY <1>1 DEF LinksOK

Carried == [found : SUBSET Entities, closed : SUBSET Entities, added : SUBSET Entities]

\* An operation that is no link, and does not flush.
LEMMA OtherGoesOn ==
    ASSUME NEW b, NEW o, OpsOK(o), NEW h, LinksOK(b, o, h), NEW e,
           e.op \in {"event.create", "object.update"},
           e.op = "object.update" => e.update \in Patches
    PROVE  OpsOK(Append(o, e)) /\ LinksOK(b, Append(o, e), h)
<1>1. IsSequence(o) /\ OpsOK(Append(o, e))
  <2>1. OpsOK(Append(o, e))
    BY OpsAppend
  <2> QED
    BY <2>1 DEF OpsOK
<1>2. ASSUME NEW x \in Items PROVE BatchOK(b, Append(o, e), x, h[x])
  <2>1. BatchOK(b, o, x, h[x])
    BY DEF LinksOK
  <2> QED
    BY <1>1, <2>1, OtherKeepsBatch
<1> QED
  BY <1>1, <1>2, LinksAppend

LEMMA FlushGoesOn ==
    ASSUME NEW b, NEW o, OpsOK(o), NEW h \in [Items -> Carried], LinksOK(b, o, h), NEW e,
           e.op = "object.create", NEW g, g = [x \in Items |-> E!AfterFlush(h[x])]
    PROVE  OpsOK(Append(o, e)) /\ LinksOK(b, Append(o, e), g) /\ g \in [Items -> Carried]
<1>1. IsSequence(o) /\ OpsOK(Append(o, e))
  <2>1. OpsOK(Append(o, e))
    BY OpsAppend
  <2> QED
    BY <2>1 DEF OpsOK
<1>2. ASSUME NEW x \in Items PROVE BatchOK(b, Append(o, e), x, g[x])
  <2>1. BatchOK(b, o, x, h[x]) /\ h[x].found \subseteq Entities
    BY DEF LinksOK, Carried
  <2>2. BatchOK(b, Append(o, e), x, E!AfterFlush(h[x]))
    BY <1>1, <2>1, FlushKeepsBatch
  <2> QED
    BY <2>2
<1>3. \A x \in Items : E!AfterFlush(h[x]) \in Carried
  BY DEF E!AfterFlush, Carried
<1> QED
  BY <1>1, <1>2, <1>3, LinksAppend

LEMMA ClosingGoesOn ==
    ASSUME NEW b, NEW o, OpsOK(o), NEW h \in [Items -> Carried], LinksOK(b, o, h),
           NEW x \in Items, NEW s, s \subseteq h[x].found, s # {},
           NEW g \in [Items -> Carried], \A y \in Items : y # x => g[y] = h[y],
           g[x].found = h[x].found, g[x].added = h[x].added,
           g[x].closed = h[x].closed \cup s
    PROVE  LET q == o \o E!Closes(x, s)
           IN  OpsOK(q) /\ LinksOK(b, q, g) /\ ~Forgotten(q, x, Len(q) + 1)
<1> DEFINE e == [op |-> "link.close", item |-> x, holders |-> s]
<1>1. e.op = "link.close" /\ e.item = x /\ e.holders = s
  OBVIOUS
<1>2. E!Closes(x, s) = <<e>>
  BY DEF E!Closes
<1> HIDE DEF e
<1>3. IsSequence(o) /\ s \subseteq Entities
  BY DEF OpsOK, Carried
<1>4. o \o <<e>> = Append(o, e)
  BY <1>3, Appended
<1>5. OpsOK(Append(o, e))
  BY <1>1, <1>3, OpsAppend
<1>6. \A y \in Items : BatchOK(b, o, y, h[y])
  BY DEF LinksOK
<1>7. BatchOK(b, Append(o, e), x, g[x]) /\ ~Forgotten(Append(o, e), x, Len(o) + 2)
  BY <1>1, <1>3, <1>6, ClosingKeepsBatch
<1>8. ASSUME NEW y \in Items, y # x PROVE BatchOK(b, Append(o, e), y, g[y])
  BY <1>1, <1>3, <1>6, <1>8, OtherKeepsBatch
<1>9. \A y \in Items : BatchOK(b, Append(o, e), y, g[y])
  BY <1>7, <1>8
<1>10. LinksOK(b, Append(o, e), g)
  BY <1>1, <1>3, <1>9, LinksAppend
<1>11. Len(Append(o, e)) + 1 = Len(o) + 2
  BY <1>3, Appended
<1> QED
  BY <1>2, <1>4, <1>5, <1>7, <1>10, <1>11

LEMMA CreationGoesOn ==
    ASSUME NEW b, NEW o, OpsOK(o), NEW h \in [Items -> Carried], LinksOK(b, o, h),
           NEW x \in Items, NEW e \in Entities,
           \/ h[x].found = {}
           \/ h[x].found \subseteq h[x].closed /\ ~Forgotten(o, x, Len(o) + 1),
           NEW g \in [Items -> Carried], \A y \in Items : y # x => g[y] = h[y],
           g[x].found = h[x].found, g[x].added = h[x].added \cup {e},
           g[x].closed = h[x].closed
    PROVE  LET q == o \o E!Creates(x, {e})
           IN  OpsOK(q) /\ LinksOK(b, q, g)
<1> DEFINE c == [op |-> "link.create", item |-> x, holder |-> e]
<1>1. c.op = "link.create" /\ c.item = x /\ c.holder = e
  OBVIOUS
<1>2. E!Creates(x, {e}) = <<c>>
  <2>1. (CHOOSE f \in {e} : TRUE) = e
    OBVIOUS
  <2> QED
    BY <2>1 DEF E!Creates
<1> HIDE DEF c
<1>3. IsSequence(o)
  BY DEF OpsOK
<1>4. o \o <<c>> = Append(o, c)
  BY <1>3, Appended
<1>5. OpsOK(Append(o, c))
  BY <1>1, OpsAppend
<1>6. \A y \in Items : BatchOK(b, o, y, h[y])
  BY DEF LinksOK
<1>7. BatchOK(b, Append(o, c), x, g[x]) /\ Fits(b, Append(o, c), x, Len(o) + 1)
  BY <1>1, <1>3, <1>6, CreationKeepsBatch
<1>8. ASSUME NEW y \in Items, y # x PROVE BatchOK(b, Append(o, c), y, g[y])
  BY <1>1, <1>3, <1>6, <1>8, OtherKeepsBatch
<1>9. \A y \in Items : BatchOK(b, Append(o, c), y, g[y])
  BY <1>7, <1>8
<1>10. LinksOK(b, Append(o, c), g)
  BY <1>1, <1>3, <1>7, <1>9, LinksAppend
<1> QED
  BY <1>2, <1>4, <1>5, <1>10

\* What is known of a turn while it happens.
TurnInv ==
    /\ base \in Bases
    /\ carried \in [Items -> Carried]
    /\ OpsOK(ops) /\ LinksOK(base, ops, carried)
    /\ pass = "turn" => /\ ledger = <<>> /\ at = 1 /\ todo = {} /\ owed = {}
                        /\ givers = [x \in Items |-> Nobody]

LEMMA InitTurn == ASSUME E!Init PROVE TurnInv
<1>1. /\ base \in Bases /\ ops = <<>>
      /\ carried = [x \in Items |->
                       [found |-> {base.owner[x]} \ {Nobody}, closed |-> {}, added |-> {}]]
  BY DEF E!Init
<1>2. base.owner \in [Items -> Entities \cup {Nobody}]
  BY <1>1, EconomyAssumption
<1>3. <<>> \in Seq({}) /\ Len(<<>>) = 0 /\ DOMAIN <<>> = {}
  OBVIOUS
<1>4. OpsOK(ops)
  BY <1>1, <1>3 DEF OpsOK, IsSequence
<1>5. \A x : Made(ops, x) = {} /\ Closed(ops, x) = {}
  BY <1>1, <1>3 DEF Made, Closed
<1>6. carried \in [Items -> Carried]
  BY <1>1, <1>2 DEF Carried
<1>7. ASSUME NEW x \in Items, NEW i
      PROVE  /\ Last(ops, x, i) = {} /\ HoldersIn(ops, Recent(ops, x, i)) = {}
             /\ \A e : ~Remembered(ops, x, i, e)
  BY <1>5 DEF Last, Early, Recent, HoldersIn, Remembered
<1>8. ASSUME NEW x \in Items
      PROVE  BatchOK(base, ops, x, carried[x])
  <2> DEFINE n == Len(ops) + 1
  <2>1. LastHad(base, ops, x, n) = {base.owner[x]} /\ Fits(base, ops, x, n)
    BY <1>7 DEF LastHad, GiversAt, Fits
  <2>2. /\ carried[x].found \subseteq {base.owner[x]}
        /\ carried[x].closed = {} /\ carried[x].added = {}
    BY <1>1
  <2> QED
    BY <1>7, <2>1, <2>2 DEF BatchOK
<1>9. LinksOK(base, ops, carried)
  BY <1>5, <1>8 DEF LinksOK
<1> QED
  BY <1>1, <1>4, <1>6, <1>9 DEF TurnInv, E!Init

LEMMA HandOverKeepsTurn ==
    ASSUME TurnInv, NEW x \in Items, NEW e \in Entities, E!HandOver(x, e)
    PROVE  TurnInv'
<1> DEFINE others == carried[x].found \ {e}
           new == {e} \ carried[x].found
           closing == [carried EXCEPT ![x].closed = @ \cup others]
           put == ops \o E!Closes(x, others)
<1>1. /\ ops' = put \o E!Creates(x, new)
      /\ carried' = [carried EXCEPT ![x].closed = @ \cup others, ![x].added = @ \cup new]
      /\ base' = base /\ pass' = pass /\ ledger' = ledger /\ at' = at /\ todo' = todo
      /\ owed' = owed /\ givers' = givers
  BY DEF E!HandOver, E!readVars
<1>2. /\ base \in Bases /\ carried \in [Items -> Carried] /\ OpsOK(ops)
      /\ LinksOK(base, ops, carried) /\ IsSequence(ops)
  BY DEF TurnInv, OpsOK
<1>3. /\ closing \in [Items -> Carried] /\ \A y \in Items : y # x => closing[y] = carried[y]
      /\ closing[x].found = carried[x].found /\ closing[x].added = carried[x].added
      /\ closing[x].closed = carried[x].closed \cup others
  BY <1>2 DEF Carried
<1>4. /\ carried' \in [Items -> Carried] /\ \A y \in Items : y # x => carried'[y] = carried[y]
      /\ carried'[x].found = carried[x].found /\ carried'[x].added = carried[x].added \cup new
      /\ carried'[x].closed = carried[x].closed \cup others
  BY <1>1, <1>2 DEF Carried
<1> HIDE DEF closing
<1>5. /\ OpsOK(put) /\ LinksOK(base, put, closing)
      /\ others # {} => ~Forgotten(put, x, Len(put) + 1)
  <2>1. CASE others = {}
    <3>1. put = ops
      <4>1. E!Closes(x, others) = <<>>
        BY <2>1 DEF E!Closes
      <4> QED
        BY <1>2, <4>1, Appended
    <3>2. \A y \in Items : BatchOK(base, ops, y, closing[y])
      <4>1. closing[x].closed = carried[x].closed
        BY <1>3, <2>1
      <4> QED
        BY <1>2, <1>3, <4>1 DEF LinksOK, BatchOK
    <3>3. LinksOK(base, ops, closing)
      BY <1>2, <3>2 DEF LinksOK
    <3> QED
      BY <1>2, <2>1, <3>1, <3>3
  <2>2. CASE others # {}
    <3>1. others \subseteq carried[x].found
      OBVIOUS
    <3> HIDE DEF others
    <3> QED
      BY <1>2, <1>3, <2>2, <3>1, ClosingGoesOn
  <2> QED
    BY <2>1, <2>2
<1> HIDE DEF put
<1>6. OpsOK(ops') /\ LinksOK(base, ops', carried')
  <2>1. CASE new = {}
    <3>1. E!Creates(x, new) = <<>>
      BY <2>1 DEF E!Creates
    <3>2. ops' = put
      BY <1>1, <1>5, <3>1, Appended DEF OpsOK
    <3>3. carried'[x].added = carried[x].added
      BY <1>4, <2>1
    <3>4. \A y \in Items : BatchOK(base, put, y, carried'[y])
      BY <1>3, <1>4, <1>5, <3>3 DEF LinksOK, BatchOK
    <3>5. LinksOK(base, put, carried')
      BY <1>5, <3>4 DEF LinksOK
    <3> QED
      BY <1>5, <3>2, <3>5
  <2>2. CASE new # {}
    <3>1. new = {e} /\ others = carried[x].found
      BY <2>2
    <3> HIDE DEF new, others
    <3>2. \/ closing[x].found = {}
          \/ closing[x].found \subseteq closing[x].closed /\ ~Forgotten(put, x, Len(put) + 1)
      BY <1>3, <1>5, <3>1
    <3>3. /\ \A y \in Items : y # x => carried'[y] = closing[y]
          /\ carried'[x].found = closing[x].found
          /\ carried'[x].added = closing[x].added \cup {e}
          /\ carried'[x].closed = closing[x].closed
      BY <1>3, <1>4, <3>1
    <3>4. OpsOK(put \o E!Creates(x, {e})) /\ LinksOK(base, put \o E!Creates(x, {e}), carried')
      BY <1>3, <1>4, <1>5, <3>2, <3>3, CreationGoesOn
    <3> QED
      BY <1>1, <3>1, <3>4
  <2> QED
    BY <2>1, <2>2
<1> QED
  BY <1>1, <1>2, <1>4, <1>6 DEF TurnInv

LEMMA TurnGoesOn ==
    ASSUME TurnInv, [E!Next]_(E!vars)
    PROVE  TurnInv'
<1>0. /\ base \in Bases /\ carried \in [Items -> Carried] /\ OpsOK(ops)
      /\ LinksOK(base, ops, carried) /\ IsSequence(ops)
  BY DEF TurnInv, OpsOK
<1>1. ASSUME NEW x \in Items, NEW e \in Entities, E!PutDown(x, e) PROVE TurnInv'
  <2>1. /\ ops' = ops \o E!Closes(x, {e}) /\ e \in carried[x].found
        /\ carried' = [carried EXCEPT ![x].closed = @ \cup {e}]
        /\ UNCHANGED <<base, E!readVars>>
    BY <1>1 DEF E!PutDown
  <2>2. /\ carried' \in [Items -> Carried] /\ \A y \in Items : y # x => carried'[y] = carried[y]
        /\ carried'[x].found = carried[x].found /\ carried'[x].added = carried[x].added
        /\ carried'[x].closed = carried[x].closed \cup {e}
    BY <1>0, <2>1 DEF Carried
  <2>3. {e} \subseteq carried[x].found /\ {e} # {}
    BY <2>1
  <2>4. OpsOK(ops') /\ LinksOK(base, ops', carried')
    BY <1>0, <2>1, <2>2, <2>3, ClosingGoesOn
  <2> QED
    BY <1>0, <2>1, <2>2, <2>4 DEF TurnInv, E!readVars
<1>2. ASSUME NEW u \in Patches, E!Patch(u) PROVE TurnInv'
  <2> DEFINE e == [op |-> "object.update", update |-> u]
  <2>1. e.op = "object.update" /\ e.update = u
    OBVIOUS
  <2>2. ops' = Append(ops, e) /\ UNCHANGED <<base, carried, E!readVars>>
    BY <1>2 DEF E!Patch, e
  <2> HIDE DEF e
  <2>3. OpsOK(ops') /\ LinksOK(base, ops', carried)
    BY <1>0, <2>1, <2>2, OtherGoesOn
  <2> QED
    BY <1>0, <2>2, <2>3 DEF TurnInv, E!readVars
<1>3. ASSUME NEW v \in Told, E!Tell(v) PROVE TurnInv'
  <2>1. CASE UNCHANGED ops
    BY <1>3, <2>1 DEF E!Tell, E!readVars, TurnInv
  <2>2. CASE ops' = Append(ops, [op |-> "event.create", event |-> v])
    <3> DEFINE e == [op |-> "event.create", event |-> v]
    <3>1. e.op = "event.create"
      OBVIOUS
    <3>2. ops' = Append(ops, e) /\ UNCHANGED <<base, carried, E!readVars>>
      BY <1>3, <2>2 DEF E!Tell
    <3> HIDE DEF e
    <3>3. OpsOK(ops') /\ LinksOK(base, ops', carried)
      BY <1>0, <3>1, <3>2, OtherGoesOn
    <3> QED
      BY <1>0, <3>2, <3>3 DEF TurnInv, E!readVars
  <2> QED
    BY <1>3, <2>1, <2>2 DEF E!Tell
<1>4. CASE E!CreateObject
  <2> DEFINE e == [op |-> "object.create"]
  <2>1. e.op = "object.create"
    OBVIOUS
  <2>2. /\ ops' = Append(ops, e) /\ UNCHANGED <<base, E!readVars>>
        /\ carried' = [x \in Items |-> E!AfterFlush(carried[x])]
    BY <1>4 DEF E!CreateObject, e
  <2> HIDE DEF e
  <2>3. OpsOK(ops') /\ LinksOK(base, ops', carried') /\ carried' \in [Items -> Carried]
    BY <1>0, <2>1, <2>2, FlushGoesOn
  <2> QED
    BY <1>0, <2>2, <2>3 DEF TurnInv, E!readVars
<1>5. CASE UNCHANGED <<base, carried, ops>> /\ pass' # "turn"
  BY <1>5 DEF TurnInv
<1>6. CASE UNCHANGED E!vars
  BY <1>6 DEF TurnInv, E!vars, E!turnVars, E!readVars
<1>7. CASE \/ E!BeginDerivation \/ E!ReadClosedLink \/ E!ReadCreatedLink \/ E!SkipOther
           \/ E!ReadCreatedEvent \/ E!ReadUpdate \/ E!EndUpdate \/ E!ReadEvent
           \/ (\E operation \in todo : E!Record(operation))
           \/ (\E o \in owed : E!Settle(o))
  BY <1>5, <1>7 DEF E!turnVars, E!BeginDerivation, E!ReadClosedLink, E!ReadCreatedLink,
     E!SkipOther, E!ReadCreatedEvent, E!ReadUpdate, E!EndUpdate, E!ReadEvent, E!Record,
     E!Settle
<1>8. CASE \/ E!NextPass("links", Len(ops), "changes")
           \/ E!NextPass("changes", Len(ops), "events")
           \/ E!NextPass("events", Len(events), "derived")
  BY <1>5, <1>8 DEF E!turnVars, E!NextPass
<1> QED
  BY <1>1, <1>2, <1>3, <1>4, <1>6, <1>7, <1>8, HandOverKeepsTurn DEF E!Next

-----------------------------------------------------------------------------
(***************************************************************************)
(* The ledger.                                                             *)
(***************************************************************************)

Has(l, c) == \E n \in DOMAIN l : l[n].looks = c

OnceEach(l) ==
    /\ IsSequence(l)
    /\ \A m, n \in DOMAIN l : l[m].looks = l[n].looks => m = n

Recording(l, e) == IF Has(l, e.looks) THEN l ELSE Append(l, e)

LEMMA RecordingIs ==
    ASSUME NEW l, OnceEach(l), NEW e
    PROVE  /\ OnceEach(Recording(l, e))
           /\ \A c : Has(l, c) => Has(Recording(l, e), c)
           /\ Has(Recording(l, e), e.looks)
           /\ \A n \in DOMAIN Recording(l, e) :
                 (n \in DOMAIN l /\ Recording(l, e)[n] = l[n]) \/ Recording(l, e)[n] = e
<1>1. CASE Has(l, e.looks)
  BY <1>1 DEF Recording
<1>2. CASE ~Has(l, e.looks)
  <2> DEFINE r == Append(l, e)
  <2>1. Recording(l, e) = r
    BY <1>2 DEF Recording
  <2>2. /\ IsSequence(r) /\ Len(l) \in Nat /\ DOMAIN l = 1..Len(l)
        /\ DOMAIN r = 1..(Len(l) + 1)
        /\ \A n \in 1..Len(l) : r[n] = l[n]
        /\ r[Len(l) + 1] = e
    BY Appended DEF OnceEach
  <2> HIDE DEF r
  <2>3. /\ \A n \in DOMAIN r : n \in DOMAIN l \/ n = Len(l) + 1
        /\ \A n \in DOMAIN l : n \in DOMAIN r /\ r[n] = l[n]
        /\ Len(l) + 1 \in DOMAIN r
    BY <2>2
  <2>4. \A m, n \in DOMAIN r : r[m].looks = r[n].looks => m = n
    BY <1>2, <2>2, <2>3 DEF OnceEach, Has
  <2> QED
    BY <2>1, <2>2, <2>3, <2>4 DEF OnceEach, Has
<1> QED
  BY <1>1, <1>2

LEMMA AppendsByRecording ==
    ASSUME NEW e, E!AppendOperation(e)
    PROVE  ledger' = Recording(ledger, e)
  BY DEF E!AppendOperation, E!Recorded, Recording, Has

-----------------------------------------------------------------------------
(***************************************************************************)
(* Transfers follow items.                                                 *)
(***************************************************************************)

\* Whoever is remembered before operation i is the one that the log remembers,
\* and nobody if the log forgets.
GiversOK(b, o, g, i) ==
    /\ DOMAIN g = Items
    /\ \A x \in Items :
          /\ g[x] # Nobody => g[x] \in Entities /\ Remembered(o, x, i, g[x])
          /\ g[x] = Nobody => Forgotten(o, x, i)

\* An operation before i that gave an item is recorded with one who had it.
Given(b, o, l, i) ==
    \A x \in Items : \A j \in Made(o, x) :
        j < i => \E e \in GiversAt(b, o, x, j) : Has(l, E!Transfer(x, e, o[j].holder))

LEMMA GivenStays ==
    ASSUME NEW b, NEW o, NEW i, NEW l, Given(b, o, l, i), NEW r,
           \A c : Has(l, c) => Has(r, c)
    PROVE  Given(b, o, r, i)
BY DEF Given

GiverOf(b, g, x) == IF g[x] # Nobody THEN g[x] ELSE b.owner[x]

\* The giver of an item had it.
LEMMA GiverHadIt ==
    ASSUME NEW b, NEW o, NEW g, NEW i, GiversOK(b, o, g, i), NEW x \in Items, Fits(b, o, x, i)
    PROVE  GiverOf(b, g, x) \in GiversAt(b, o, x, i)
BY DEF GiversOK, Fits, GiverOf

\* Operations that are no links of an item leave what is remembered of it.
LEMMA OthersAreRemembered ==
    ASSUME NEW b, NEW o, IsSequence(o), NEW g, NEW i \in DOMAIN o, GiversOK(b, o, g, i),
           NEW f, DOMAIN f = Items, NEW x \in Items, i \notin Made(o, x) \cup Closed(o, x),
           f[x] = g[x]
    PROVE  /\ f[x] # Nobody => f[x] \in Entities /\ Remembered(o, x, i + 1, f[x])
           /\ f[x] = Nobody => Forgotten(o, x, i + 1)
<1>1. /\ \A y : Remembered(o, x, i + 1, y) <=> Remembered(o, x, i, y)
      /\ Forgotten(o, x, i + 1) <=> Forgotten(o, x, i)
  BY MemoryMovesOn
<1> QED
  BY <1>1 DEF GiversOK

LEMMA ClosedLinkIsRemembered ==
    ASSUME NEW b, NEW o, OpsOK(o), NEW g, NEW i \in DOMAIN o, GiversOK(b, o, g, i),
           o[i].op = "link.close", NEW e \in o[i].holders
    PROVE  GiversOK(b, o, [g EXCEPT ![o[i].item] = e], i + 1)
<1> DEFINE x == o[i].item
           f == [g EXCEPT ![x] = e]
<1>1. IsSequence(o) /\ x \in Items /\ e \in Entities /\ e # Nobody
  BY EconomyAssumption DEF OpsOK
<1>2. /\ i \in Closed(o, x)
      /\ \A y : i \notin Made(o, y) /\ (y # x => i \notin Closed(o, y))
  BY DEF Closed, Made
<1>3. DOMAIN f = Items /\ f[x] = e /\ \A y \in Items : y # x => f[y] = g[y]
  BY <1>1 DEF GiversOK
<1>4. Remembered(o, x, i + 1, e)
  BY <1>1, <1>2, MemoryMovesOn
<1> HIDE DEF f, x
<1>5. ASSUME NEW y \in Items, y # x
      PROVE  /\ f[y] # Nobody => f[y] \in Entities /\ Remembered(o, y, i + 1, f[y])
             /\ f[y] = Nobody => Forgotten(o, y, i + 1)
  BY <1>1, <1>2, <1>3, <1>5, OthersAreRemembered
<1>6. GiversOK(b, o, f, i + 1)
  BY <1>1, <1>3, <1>4, <1>5 DEF GiversOK
<1> QED
  BY <1>6 DEF f, x

LEMMA CreatedLinkIsGiven ==
    ASSUME NEW b, NEW o, OpsOK(o), NEW h, LinksOK(b, o, h), NEW g, NEW i \in DOMAIN o,
           GiversOK(b, o, g, i), o[i].op = "link.create", NEW l, Given(b, o, l, i),
           NEW r, \A c : Has(l, c) => Has(r, c),
           Has(r, E!Transfer(o[i].item, GiverOf(b, g, o[i].item), o[i].holder))
    PROVE  /\ GiversOK(b, o, [g EXCEPT ![o[i].item] = Nobody], i + 1)
           /\ Given(b, o, r, i + 1)
<1> DEFINE x == o[i].item
           f == [g EXCEPT ![x] = Nobody]
<1>1. IsSequence(o) /\ x \in Items
  BY DEF OpsOK
<1>2. i \in Nat /\ \A y : \A j \in Made(o, y) : j \in Nat
  BY <1>1, Indices
<1>3. /\ i \in Made(o, x)
      /\ \A y : i \notin Closed(o, y) /\ (y # x => i \notin Made(o, y))
  BY DEF Made, Closed
<1>4. DOMAIN f = Items /\ f[x] = Nobody /\ \A y \in Items : y # x => f[y] = g[y]
  BY <1>1 DEF GiversOK
<1>5. Forgotten(o, x, i + 1)
  BY <1>1, <1>3, MemoryMovesOn
<1>6. GiverOf(b, g, x) \in GiversAt(b, o, x, i)
  BY <1>1, <1>3, GiverHadIt DEF LinksOK
<1>7. Has(r, E!Transfer(x, GiverOf(b, g, x), o[i].holder))
  OBVIOUS
<1> HIDE DEF f, x
<1>8. ASSUME NEW y \in Items, y # x
      PROVE  /\ f[y] # Nobody => f[y] \in Entities /\ Remembered(o, y, i + 1, f[y])
             /\ f[y] = Nobody => Forgotten(o, y, i + 1)
  BY <1>1, <1>3, <1>4, <1>8, OthersAreRemembered
<1>9. GiversOK(b, o, f, i + 1)
  BY <1>4, <1>5, <1>8 DEF GiversOK
<1>10. ASSUME NEW y \in Items, NEW j \in Made(o, y), j < i + 1
       PROVE  \E e \in GiversAt(b, o, y, j) : Has(r, E!Transfer(y, e, o[j].holder))
  <2>1. CASE j < i
    BY <2>1 DEF Given
  <2>2. CASE ~(j < i)
    <3>1. j = i
      BY <1>2, <1>10, <2>2
    <3>2. y = x
      BY <1>3, <3>1
    <3> QED
      BY <1>6, <1>7, <3>1, <3>2
  <2> QED
    BY <2>1, <2>2
<1>11. Given(b, o, r, i + 1)
  BY <1>10 DEF Given
<1> QED
  BY <1>9, <1>11 DEF f, x

\* Any other operation.
LEMMA NoLinkGivesNothing ==
    ASSUME NEW b, NEW o, OpsOK(o), NEW g, NEW i \in DOMAIN o, GiversOK(b, o, g, i),
           o[i].op \notin {"link.close", "link.create"}
    PROVE  GiversOK(b, o, g, i + 1)
<1>1. IsSequence(o) /\ DOMAIN g = Items
  BY DEF OpsOK, GiversOK
<1>2. \A y : i \notin Made(o, y) \cup Closed(o, y)
  BY DEF Closed, Made
<1>3. ASSUME NEW y \in Items
      PROVE  /\ g[y] # Nobody => g[y] \in Entities /\ Remembered(o, y, i + 1, g[y])
             /\ g[y] = Nobody => Forgotten(o, y, i + 1)
  BY <1>1, <1>2, OthersAreRemembered
<1> QED
  BY <1>1, <1>3 DEF GiversOK

LEMMA NoLinkIsGiven ==
    ASSUME NEW b, NEW o, OpsOK(o), NEW l, NEW i \in DOMAIN o, Given(b, o, l, i),
           o[i].op # "link.create"
    PROVE  Given(b, o, l, i + 1)
<1>1. IsSequence(o)
  BY DEF OpsOK
<1>2. i \in Nat
  BY <1>1, SequenceLength
<1>3. \A y : \A j \in Made(o, y) : j \in Nat /\ j # i
  BY <1>1, SequenceLength DEF Made
<1>4. \A y : \A j \in Made(o, y) : j < i + 1 => j < i
  BY <1>2, <1>3
<1> QED
  BY <1>4 DEF Given

\* The flushes of a turn, as Economy has them.
LEMMA GiversAre ==
    ASSUME IsSequence(ops), NEW x, NEW i \in Made(ops, x)
    PROVE  /\ E!Made(x) = Made(ops, x)
           /\ GiversAt(base, ops, x, i) = E!MayGive(x, i)
<1>1. E!Made(x) = Made(ops, x)
  BY DEF E!Made, Made
<1>2. /\ DOMAIN ops = 1..Len(ops) /\ Len(ops) \in Nat
      /\ \A j \in Made(ops, x) : j \in 1..Len(ops) /\ j \in Nat /\ ops[j].op = "link.create"
  BY Indices DEF Made
<1>3. ASSUME NEW j \in Made(ops, x), NEW k \in Made(ops, x)
      PROVE  Flushed(ops, j, k) <=> E!Flushes(j, k)
  <2>1. ASSUME NEW m \in j..k, ops[m].op = "object.create"
        PROVE  m \in DOMAIN ops /\ j < m /\ m < k
    <3>1. m # j /\ m # k
      BY <1>2, <2>1
    <3> QED
      BY <1>2, <2>1, <3>1
  <2>2. ASSUME NEW m \in DOMAIN ops, j < m, m < k PROVE m \in j..k
    BY <1>2, <2>2
  <2> QED
    BY <2>1, <2>2 DEF Flushed, E!Flushes
<1>4. ASSUME NEW j
      PROVE  j \in E!GotLast(x, i) <=> j \in Last(ops, x, i)
  <2> DEFINE before == {k \in Made(ops, x) : k < i /\ E!Flushes(k, i)}
             early == Early(ops, x, i)
  <2>1. \A k : k \in before <=> k \in early
    BY <1>3 DEF Early
  <2>2. \A k \in early : k \in Made(ops, x)
    BY DEF Early
  <2>3. before = early
    <3> HIDE DEF before, early
    <3> QED
      BY <2>1
  <2>4. E!GotLast(x, i) = {k \in before : \A m \in before : ~E!Flushes(k, m)}
    BY <1>1 DEF E!GotLast
  <2>5. Last(ops, x, i) = {k \in early : \A m \in early : ~Flushed(ops, k, m)}
    BY DEF Last
  <2> HIDE DEF before, early
  <2> QED
    BY <1>3, <2>2, <2>3, <2>4, <2>5
<1>5. E!GotLast(x, i) = Last(ops, x, i)
  <2> DEFINE s == E!GotLast(x, i)
             t == Last(ops, x, i)
  <2>1. \A j : j \in s <=> j \in t
    BY <1>4
  <2> HIDE DEF s, t
  <2>2. s = t
    BY <2>1
  <2> QED
    BY <2>2 DEF s, t
<1>6. (\E j \in E!Made(x) : j < i /\ ~E!Flushes(j, i)) <=> Recent(ops, x, i) # {}
  BY <1>1, <1>3 DEF Recent
<1>7. E!Holders(E!GotLast(x, i)) = HoldersIn(ops, Last(ops, x, i))
  BY <1>5 DEF E!Holders, HoldersIn
<1> QED
  BY <1>1, <1>5, <1>6, <1>7 DEF GiversAt, E!MayGive

\* Whoever is found, or has been added, has been given the item.
LEMMA FoundWereGiven ==
    ASSUME NEW b, NEW o, IsSequence(o), NEW x, NEW c, BatchOK(b, o, x, c),
           NEW e, e \in E!AfterFlush(c).found, e # b.owner[x]
    PROVE  \E j \in Made(o, x) : e = o[j].holder
<1>1. e \in c.found \/ e \in c.added
  BY DEF E!AfterFlush
<1>2. /\ Last(o, x, Len(o) + 1) \subseteq Made(o, x)
      /\ Recent(o, x, Len(o) + 1) \subseteq Made(o, x)
  BY DEF Last, Early, Recent
<1>3. CASE e \in c.added
  BY <1>2, <1>3 DEF BatchOK, HoldersIn
<1>4. CASE e \in c.found
  <2>1. e \in HoldersIn(o, Last(o, x, Len(o) + 1))
    BY <1>4 DEF BatchOK, LastHad
  <2> QED
    BY <1>2, <2>1 DEF HoldersIn
<1> QED
  BY <1>1, <1>3, <1>4

\* What the transfers of the ledger say once every operation is read.
LEMMA TransfersAreSound ==
    ASSUME TurnInv, \A i : Given(base, ops, ledger, i)
    PROVE  E!TransfersFollowItems
<1>1. IsSequence(ops) /\ LinksOK(base, ops, carried)
  BY DEF TurnInv, OpsOK
<1>2. ASSUME NEW x \in Items, NEW i \in Made(ops, x)
      PROVE  \E e \in GiversAt(base, ops, x, i) : Has(ledger, E!Transfer(x, e, ops[i].holder))
  <2>1. i < i + 1
    BY <1>1, Indices
  <2> QED
    BY <2>1 DEF Given
<1>3. ASSUME NEW x \in Items, NEW i \in E!Made(x)
      PROVE  \E giver \in E!MayGive(x, i) : E!Recorded(E!Transfer(x, giver, ops[i].holder))
  <2>1. i \in Made(ops, x)
    BY DEF E!Made, Made
  <2>2. GiversAt(base, ops, x, i) = E!MayGive(x, i)
    BY <1>1, <2>1, GiversAre
  <2> QED
    BY <1>2, <2>1, <2>2 DEF Has, E!Recorded
<1>4. ASSUME NEW x \in Items, NEW e \in E!AfterFlush(carried[x]).found \ {base.owner[x]}
      PROVE  \E n \in DOMAIN ledger :
                /\ ledger[n].looks.type = "transfer" /\ ledger[n].looks.asset = x
                /\ ledger[n].looks.to = e
  <2>1. PICK j \in Made(ops, x) : e = ops[j].holder
    <3>1. BatchOK(base, ops, x, carried[x])
      BY <1>1 DEF LinksOK
    <3> DEFINE c == carried[x]
               o == ops
               b == base
    <3>2. /\ e \in E!AfterFlush(c).found /\ e # b.owner[x]
          /\ IsSequence(o) /\ BatchOK(b, o, x, c)
      BY <1>1, <3>1
    <3> HIDE DEF c, o, b
    <3>3. \E j \in Made(o, x) : e = o[j].holder
      BY <3>2, FoundWereGiven
    <3> QED
      BY <3>3 DEF o
  <2>2. PICK f : Has(ledger, E!Transfer(x, f, ops[j].holder))
    BY <1>2
  <2>3. PICK n \in DOMAIN ledger : ledger[n].looks = E!Transfer(x, f, ops[j].holder)
    BY <2>2 DEF Has
  <2>4. /\ E!Transfer(x, f, e).type = "transfer"
        /\ E!Transfer(x, f, e).asset = x
        /\ E!Transfer(x, f, e).to = e
    BY DEF E!Transfer, E!Operation
  <2> QED
    BY <2>1, <2>3, <2>4
<1> QED
  BY <1>3, <1>4 DEF E!TransfersFollowItems

-----------------------------------------------------------------------------
(***************************************************************************)
(* What a patch says, and what its cash settles.                           *)
(***************************************************************************)

Upd(o) == {i \in DOMAIN o : o[i].op = "object.update"}

CashOf(b, u) == IF u.cash = E!None THEN 0 ELSE u.cash - b.cash[u.object]
StockOf(b, u) == IF u.stock = E!None THEN 0 ELSE u.stock - b.stock[u.object]

ConcernOf(b, u) ==
    {o \in b.obligations :
        \/ CashOf(b, u) < 0 /\ o.type \in {"debt", "wage", "profit_share"}
           /\ o.debtor = u.object
        \/ CashOf(b, u) > 0 /\ o.type = "tax" /\ o.creditor = u.object}

WageOf(b, object, e) ==
    LET wages == {o \in b.obligations :
                     o.type = "wage" /\ o.debtor = object /\ o.creditor = e}
    IN  IF wages = {} THEN 0 ELSE (CHOOSE o \in E!Foremost(wages) : TRUE).amount

HireOf(b, object, e) ==
    E!Operation("hire", object, e, object, "none", WageOf(b, object, e), 0)

CameOf(b, u) == UNION {staff \ b.staff[u.object] : staff \in u.staff}
WentOf(b, u) == UNION {b.staff[u.object] \ staff : staff \in u.staff}

TradeOf(b, u) ==
    CASE CashOf(b, u) < 0 /\ StockOf(b, u) > 0 ->
            {E!Operation("restock", u.object, Nobody, u.object, "stock",
                         -CashOf(b, u), StockOf(b, u))}
      [] CashOf(b, u) > 0 /\ StockOf(b, u) < 0 ->
            {E!Operation("sell", u.object, Nobody, Nobody, "stock",
                         CashOf(b, u), -StockOf(b, u))}
      [] OTHER -> {}

ChangesOf(b, u) ==
    {HireOf(b, u.object, e) : e \in CameOf(b, u)}
        \cup {E!Fire(u.object, e) : e \in WentOf(b, u)} \cup TradeOf(b, u)

AmountIn(b, obligations) == SumFunctionOnSet([o \in b.obligations |-> o.amount], obligations)

SettledOf(b, l, i) ==
    {o \in b.obligations : \E n \in DOMAIN l : l[n].source = i /\ l[n].obligation = o.key}

\* They are the model's.
LEMMA PatchesAreRead ==
    /\ E!Updates = Upd(ops)
    /\ \A u : /\ E!Cash(u) = CashOf(base, u) /\ E!Concerned(u) = ConcernOf(base, u)
              /\ E!Came(u) = CameOf(base, u) /\ E!Went(u) = WentOf(base, u)
              /\ E!Changes(u) = ChangesOf(base, u)
    /\ \A object, e : E!Hire(object, e) = HireOf(base, object, e)
    /\ \A i : E!Settled(i) = SettledOf(base, ledger, i)
    /\ \A s : E!AmountOf(s) = AmountIn(base, s)
<1>1. E!Updates = Upd(ops)
  BY DEF E!Updates, Upd
<1>2. \A u : E!Cash(u) = CashOf(base, u) /\ E!Stock(u) = StockOf(base, u)
  BY DEF E!Cash, CashOf, E!Stock, StockOf
<1>3. \A u : E!Concerned(u) = ConcernOf(base, u)
  BY <1>2 DEF E!Concerned, ConcernOf
<1>4. \A u : E!Came(u) = CameOf(base, u) /\ E!Went(u) = WentOf(base, u)
  BY DEF E!Came, CameOf, E!Went, WentOf
<1>5. \A object, e : E!Hire(object, e) = HireOf(base, object, e)
  BY DEF E!Hire, HireOf, E!Wage, WageOf
<1>6. \A u : E!Trade(u) = TradeOf(base, u)
  BY <1>2 DEF E!Trade, TradeOf
<1>7. \A u : E!Changes(u) = ChangesOf(base, u)
  BY <1>4, <1>5, <1>6 DEF E!Changes, ChangesOf
<1>8. \A i : E!Settled(i) = SettledOf(base, ledger, i)
  BY DEF E!Settled, SettledOf, E!LedgerOf
<1>9. \A s : E!AmountOf(s) = AmountIn(base, s)
  BY DEF E!AmountOf, AmountIn, SumFunctionOnSet, FoldFunctionOnSet, MapThenFoldSet,
         E!SumFunctionOnSet, E!FoldFunctionOnSet, E!MapThenFoldSet
<1> QED
  BY <1>1, <1>2, <1>3, <1>4, <1>5, <1>7, <1>8, <1>9

LEMMA Amounts ==
    ASSUME NEW b \in Bases, NEW s, s \subseteq b.obligations
    PROVE  /\ AmountIn(b, {}) = 0
           /\ AmountIn(b, s) \in Int
           /\ \A o \in b.obligations \ s : AmountIn(b, s \cup {o}) = AmountIn(b, s) + o.amount
           /\ (\A o \in s : o.amount > 0) =>
                 \A part \in SUBSET s : AmountIn(b, part) <= AmountIn(b, s)
<1> DEFINE f == [o \in b.obligations |-> o.amount]
<1>1. /\ IsFiniteSet(b.obligations)
      /\ \A o \in b.obligations : o.amount \in Int
  BY EconomyAssumption
<1>2. \A part \in SUBSET b.obligations : IsFiniteSet(part) /\ \A o \in part : f[o] \in Int
  BY <1>1, FS_Subset
<1>3. \A o \in b.obligations : f[o] = o.amount
  OBVIOUS
<1> HIDE DEF f
<1>4. SumFunctionOnSet(f, {}) = 0
  BY <1>2, SumOfFirst
<1>5. SumFunctionOnSet(f, s) \in Int
  BY <1>2, SumIsInt
<1>6. ASSUME NEW o \in b.obligations \ s
      PROVE  SumFunctionOnSet(f, s \cup {o}) = SumFunctionOnSet(f, s) + o.amount
  <2> DEFINE more == s \cup {o}
  <2>1. IsFiniteSet(more) /\ (\A p \in more : f[p] \in Int) /\ o \in more /\ more \ {o} = s
    BY <1>2
  <2> HIDE DEF more
  <2>2. SumFunctionOnSet(f, more) = f[o] + SumFunctionOnSet(f, s)
    BY <2>1, SumOfOneMore
  <2>3. f[o] \in Int
    BY <2>1
  <2> QED
    BY <1>3, <1>5, <2>2, <2>3 DEF more
<1>7. ASSUME \A o \in s : o.amount > 0, NEW part \in SUBSET s
      PROVE  SumFunctionOnSet(f, part) <= SumFunctionOnSet(f, s)
  <2>1. IsFiniteSet(s) /\ \A o \in s : f[o] \in Nat
    BY <1>1, <1>2, <1>3, <1>7
  <2> QED
    BY <2>1, SumOfPart
<1> QED
  BY <1>4, <1>5, <1>6, <1>7 DEF AmountIn, f

LEMMA SizeOfCash ==
    ASSUME NEW b \in Bases, NEW u \in Patches
    PROVE  E!Size(CashOf(b, u)) \in Nat
<1>1. u.cash \in Int /\ b.cash[u.object] \in Int
  BY EconomyAssumption
<1> QED
  BY <1>1 DEF CashOf, E!Size

LEMMA OneComesFirst ==
    ASSUME NEW b \in Bases, NEW u \in Patches, NEW o \in ConcernOf(b, u),
           NEW p \in ConcernOf(b, u), o # p, ~E!Before(o, p)
    PROVE  E!Before(p, o)
<1>1. o \in b.obligations /\ p \in b.obligations
  BY DEF ConcernOf
<1>2. /\ o.amount \in Int /\ o.due \in Int /\ o.key \in Nat
      /\ p.amount \in Int /\ p.due \in Int /\ p.key \in Nat
      /\ o.key # p.key
  BY <1>1, EconomyAssumption
<1>3. /\ o.type \in {"debt", "wage", "profit_share", "tax"}
      /\ p.type \in {"debt", "wage", "profit_share", "tax"}
  BY DEF ConcernOf
<1>4. E!Rank[o.type] \in Int /\ E!Rank[p.type] \in Int
  BY <1>3 DEF E!Rank
<1> QED
  BY <1>2, <1>4 DEF E!Before

\* What of the obligations that concern a patch is settled, some being open:
\* the entries are of what is paid, and what is left out could not be paid of
\* what those before it had left.
Paying(b, u, l, i, open, paid) ==
    /\ paid \subseteq ConcernOf(b, u) \ open
    /\ \A o \in paid : o.amount > 0 /\ Has(l, E!Settlement(o))
    /\ SettledOf(b, l, i) \subseteq paid
    /\ \A o \in ConcernOf(b, u) \ open : o \notin paid /\ o.amount > 0 =>
          o.amount > E!Size(CashOf(b, u)) - AmountIn(b, {p \in paid : E!Before(p, o)})

\* A patch that was read.
Accounted(b, u, l, i) ==
    /\ \A c \in ChangesOf(b, u) : Has(l, c)
    /\ \E paid \in SUBSET ConcernOf(b, u) :
          /\ Paying(b, u, l, i, {}, paid)
          /\ AmountIn(b, paid) <= E!Size(CashOf(b, u))

\* The patch that is read.
Accounting(b, u, l, i, toDo, open, rest) ==
    /\ toDo \subseteq ChangesOf(b, u)
    /\ \A c \in ChangesOf(b, u) \ toDo : Has(l, c)
    /\ open \subseteq ConcernOf(b, u)
    /\ \A p \in ConcernOf(b, u) \ open : \A o \in open : ~E!Before(o, p)
    /\ rest \in Nat
    /\ \E paid \in SUBSET ConcernOf(b, u) :
          /\ Paying(b, u, l, i, open, paid)
          /\ AmountIn(b, paid) + rest = E!Size(CashOf(b, u))

LEMMA PayingStays ==
    ASSUME NEW b, NEW u, NEW l, NEW i, NEW open, NEW paid, Paying(b, u, l, i, open, paid),
           NEW r, \A c : Has(l, c) => Has(r, c), SettledOf(b, r, i) \subseteq SettledOf(b, l, i)
    PROVE  Paying(b, u, r, i, open, paid)
BY DEF Paying

LEMMA AccountedStays ==
    ASSUME NEW b, NEW u, NEW l, NEW i, Accounted(b, u, l, i),
           NEW r, \A c : Has(l, c) => Has(r, c), SettledOf(b, r, i) \subseteq SettledOf(b, l, i)
    PROVE  Accounted(b, u, r, i)
BY PayingStays DEF Accounted

LEMMA RecordedElsewhere ==
    ASSUME NEW b \in Bases, NEW l, OnceEach(l), NEW e, NEW i,
           e.source # i \/ e.obligation = E!None
    PROVE  SettledOf(b, Recording(l, e), i) \subseteq SettledOf(b, l, i)
<1> DEFINE r == Recording(l, e)
<1>1. \A n \in DOMAIN r : (n \in DOMAIN l /\ r[n] = l[n]) \/ r[n] = e
  BY RecordingIs
<1>2. \A o \in b.obligations : o.key # E!None
  BY EconomyAssumption DEF E!None
<1> HIDE DEF r
<1>3. SettledOf(b, r, i) \subseteq SettledOf(b, l, i)
  BY <1>1, <1>2 DEF SettledOf
<1> QED
  BY <1>3 DEF r

\* The cash of a patch is what it begins with.
LEMMA AccountingBegins ==
    ASSUME NEW b \in Bases, NEW u \in Patches, NEW l, NEW i,
           \A n \in DOMAIN l : l[n].source # i
    PROVE  Accounting(b, u, l, i, ChangesOf(b, u), ConcernOf(b, u), E!Size(CashOf(b, u)))
<1>1. SettledOf(b, l, i) = {}
  BY DEF SettledOf
<1>2. Paying(b, u, l, i, ConcernOf(b, u), {})
  BY <1>1 DEF Paying
<1>3. AmountIn(b, {}) = 0
  BY Amounts
<1>4. E!Size(CashOf(b, u)) \in Nat
  BY SizeOfCash
<1>5. AmountIn(b, {}) + E!Size(CashOf(b, u)) = E!Size(CashOf(b, u))
  BY <1>3, <1>4
<1> QED
  BY <1>2, <1>4, <1>5 DEF Accounting

LEMMA AccountingOfChange ==
    ASSUME NEW b \in Bases, NEW u, NEW l, OnceEach(l), NEW i, NEW toDo, NEW open, NEW rest,
           Accounting(b, u, l, i, toDo, open, rest),
           NEW c \in toDo, NEW e, e.looks = c, e.obligation = E!None
    PROVE  Accounting(b, u, Recording(l, e), i, toDo \ {c}, open, rest)
<1> DEFINE r == Recording(l, e)
<1>1. (\A d : Has(l, d) => Has(r, d)) /\ Has(r, c)
  BY RecordingIs
<1>2. SettledOf(b, r, i) \subseteq SettledOf(b, l, i)
  BY RecordedElsewhere
<1> HIDE DEF r
<1>3. \A paid : Paying(b, u, l, i, open, paid) => Paying(b, u, r, i, open, paid)
  BY <1>1, <1>2, PayingStays
<1>4. Accounting(b, u, r, i, toDo \ {c}, open, rest)
  BY <1>1, <1>3 DEF Accounting
<1> QED
  BY <1>4 DEF r

\* One that cannot be paid is passed over.
LEMMA AccountingPassesOver ==
    ASSUME NEW b \in Bases, NEW u \in Patches, NEW l, NEW i, NEW toDo, NEW open, NEW rest,
           Accounting(b, u, l, i, toDo, open, rest),
           NEW o \in open, \A p \in open : ~E!Before(p, o),
           ~(o.amount > 0 /\ rest > 0 /\ o.amount <= rest)
    PROVE  Accounting(b, u, l, i, toDo, open \ {o}, rest)
<1> DEFINE concern == ConcernOf(b, u)
           size == E!Size(CashOf(b, u))
<1>1. PICK paid \in SUBSET concern :
          Paying(b, u, l, i, open, paid) /\ AmountIn(b, paid) + rest = size
  BY DEF Accounting
<1>2. /\ rest \in Nat /\ open \subseteq concern
      /\ \A p \in concern \ open : \A q \in open : ~E!Before(q, p)
  BY DEF Accounting
<1>3. paid \subseteq concern \ open /\ o \notin paid
  BY <1>1 DEF Paying
<1>4. concern \subseteq b.obligations
  BY DEF ConcernOf
<1>5. {p \in paid : E!Before(p, o)} = paid
  <2>1. ASSUME NEW p \in paid PROVE E!Before(p, o)
    BY <1>2, <1>3, <2>1, OneComesFirst
  <2> QED
    BY <2>1
<1>6. AmountIn(b, paid) \in Int /\ size \in Nat /\ o.amount \in Int
  BY <1>2, <1>3, <1>4, Amounts, SizeOfCash, EconomyAssumption
<1>7. o.amount > 0 => o.amount > size - AmountIn(b, paid)
  BY <1>1, <1>2, <1>6
<1> HIDE DEF concern, size
<1>8. \A p \in concern \ (open \ {o}) : p = o \/ p \in concern \ open
  OBVIOUS
<1>9. Paying(b, u, l, i, open \ {o}, paid)
  BY <1>1, <1>3, <1>5, <1>7, <1>8 DEF Paying, concern, size
<1>10. \A p \in concern \ (open \ {o}) : \A q \in open \ {o} : ~E!Before(q, p)
  BY <1>2, <1>8
<1>11. open \ {o} \subseteq concern
  BY <1>2
<1> QED
  BY <1>1, <1>9, <1>10, <1>11 DEF Accounting, concern, size

\* One that can is, and recorded.
LEMMA AccountingPays ==
    ASSUME NEW b \in Bases, NEW u \in Patches, NEW l, OnceEach(l), NEW i, NEW toDo, NEW open,
           NEW rest, Accounting(b, u, l, i, toDo, open, rest),
           NEW o \in open, \A p \in open : ~E!Before(p, o),
           o.amount > 0, o.amount <= rest,
           NEW e, e.looks = E!Settlement(o), e.obligation = o.key
    PROVE  Accounting(b, u, Recording(l, e), i, toDo, open \ {o}, rest - o.amount)
<1> DEFINE concern == ConcernOf(b, u)
           size == E!Size(CashOf(b, u))
           r == Recording(l, e)
<1>1. PICK paid \in SUBSET concern :
          Paying(b, u, l, i, open, paid) /\ AmountIn(b, paid) + rest = size
  BY DEF Accounting
<1> DEFINE more == paid \cup {o}
<1>2. /\ rest \in Nat /\ open \subseteq concern
      /\ \A p \in concern \ open : \A q \in open : ~E!Before(q, p)
  BY DEF Accounting
<1>3. paid \subseteq concern \ open /\ o \notin paid
  BY <1>1 DEF Paying
<1>4. concern \subseteq b.obligations
  BY DEF ConcernOf
<1>5. AmountIn(b, paid) \in Int /\ o.amount \in Int /\ o \in b.obligations
  BY <1>2, <1>3, <1>4, Amounts, EconomyAssumption
<1>6. AmountIn(b, more) = AmountIn(b, paid) + o.amount
  BY <1>3, <1>4, <1>5, Amounts
<1>7. rest - o.amount \in Nat /\ AmountIn(b, more) + (rest - o.amount) = size
  <2>1. size \in Nat
    BY SizeOfCash
  <2> HIDE DEF size, more
  <2> QED
    BY <1>1, <1>2, <1>5, <1>6, <2>1
<1>8. (\A d : Has(l, d) => Has(r, d)) /\ Has(r, E!Settlement(o))
  BY RecordingIs
<1>9. SettledOf(b, r, i) \subseteq SettledOf(b, l, i) \cup {o}
  <2>1. \A n \in DOMAIN r : (n \in DOMAIN l /\ r[n] = l[n]) \/ r[n] = e
    BY RecordingIs
  <2>2. \A p \in b.obligations : p.key = o.key => p = o
    BY <1>5, EconomyAssumption
  <2> HIDE DEF r
  <2> QED
    BY <2>1, <2>2 DEF SettledOf
<1> HIDE DEF r, concern, size
<1>10. \A p \in concern \ (open \ {o}) : p = o \/ p \in concern \ open
  OBVIOUS
<1>11. more \subseteq concern \ (open \ {o}) /\ SettledOf(b, r, i) \subseteq more
  BY <1>1, <1>2, <1>3, <1>9 DEF Paying
<1>12. ASSUME NEW p \in concern \ (open \ {o}), p \notin more, p.amount > 0
       PROVE  p.amount > size - AmountIn(b, {q \in more : E!Before(q, p)})
  <2>1. p \in concern \ open /\ p \notin paid
    BY <1>10, <1>12
  <2>2. ~E!Before(o, p)
    BY <1>2, <2>1
  <2>3. {q \in more : E!Before(q, p)} = {q \in paid : E!Before(q, p)}
    BY <2>2
  <2> QED
    BY <1>1, <1>12, <2>1, <2>3 DEF Paying, concern, size
<1>13. \A p \in more : p.amount > 0 /\ Has(r, E!Settlement(p))
  BY <1>1, <1>8 DEF Paying
<1> HIDE DEF more
<1>14. Paying(b, u, r, i, open \ {o}, more)
  BY <1>11, <1>12, <1>13 DEF Paying, concern, size
<1>15. \A p \in concern \ (open \ {o}) : \A q \in open \ {o} : ~E!Before(q, p)
  BY <1>2, <1>10
<1>16. open \ {o} \subseteq concern /\ more \subseteq concern
  BY <1>2, <1>11
<1>17. toDo \subseteq ChangesOf(b, u) /\ \A c \in ChangesOf(b, u) \ toDo : Has(r, c)
  BY <1>8 DEF Accounting
<1>18. Accounting(b, u, r, i, toDo, open \ {o}, rest - o.amount)
  BY <1>7, <1>14, <1>15, <1>16, <1>17 DEF Accounting, concern, size
<1> QED
  BY <1>18 DEF r

LEMMA AccountingEnds ==
    ASSUME NEW b \in Bases, NEW u \in Patches, NEW l, NEW i, NEW rest,
           Accounting(b, u, l, i, {}, {}, rest)
    PROVE  Accounted(b, u, l, i)
<1>1. PICK paid \in SUBSET ConcernOf(b, u) :
          Paying(b, u, l, i, {}, paid) /\ AmountIn(b, paid) + rest = E!Size(CashOf(b, u))
  BY DEF Accounting
<1>2. AmountIn(b, paid) \in Int /\ E!Size(CashOf(b, u)) \in Nat
  BY Amounts, SizeOfCash DEF ConcernOf
<1>3. AmountIn(b, paid) <= E!Size(CashOf(b, u))
  BY <1>1, <1>2 DEF Accounting
<1> QED
  BY <1>1, <1>3 DEF Accounting, Accounted

-----------------------------------------------------------------------------
(***************************************************************************)
(* The passes.                                                             *)
(***************************************************************************)

\* An entry is of no patch, or of a patch that was read and says it.
EntryOf(b, u, p) ==
    \/ p.obligation = E!None /\ p.looks \in ChangesOf(b, u)
    \/ \E o \in ConcernOf(b, u) : p.looks = E!Settlement(o) /\ p.obligation = o.key

EntryOK(b, o, p, ps, i) ==
    \/ p.obligation = E!None /\ p.source \notin Upd(o)
    \/ /\ p.source \in Upd(o) /\ EntryOf(b, o[p.source].update, p)
       /\ ps \notin {"turn", "links"}
       /\ ps = "changes" => p.source < i
       /\ ps = "update" => p.source <= i

EntriesOK(b, o, l, ps, i) == \A n \in DOMAIN l : EntryOK(b, o, l[n], ps, i)

Done(ps, i, k) ==
    \/ ps \in {"changes", "update"} /\ k < i
    \/ ps \in {"events", "derived"}

PatchesOK(b, o, l, ps, i) ==
    \A k \in Upd(o) : Done(ps, i, k) => Accounted(b, o[k].update, l, k)

LinksGiven ==
    /\ pass = "links" => GiversOK(base, ops, givers, at) /\ Given(base, ops, ledger, at)
    /\ pass \notin {"turn", "links"} => \A i : Given(base, ops, ledger, i)

LedgerInv ==
    /\ at \in Nat \ {0}
    /\ pass \in {"turn", "links", "changes", "update", "events", "derived"}
    /\ OnceEach(ledger)
    /\ LinksGiven
    /\ EntriesOK(base, ops, ledger, pass, at)
    /\ PatchesOK(base, ops, ledger, pass, at)
    /\ pass = "update" =>
          /\ at \in Upd(ops)
          /\ Accounting(base, ops[at].update, ledger, at, todo, owed, left)

LEMMA EmptyLedger ==
    ASSUME NEW l, l = <<>>
    PROVE  OnceEach(l) /\ DOMAIN l = {}
<1>1. <<>> \in Seq({}) /\ DOMAIN <<>> = {}
  OBVIOUS
<1> QED
  BY <1>1 DEF OnceEach, IsSequence

LEMMA NothingRead ==
    ASSUME pass = "turn", ledger = <<>>, at = 1
    PROVE  LedgerInv
<1>1. EntriesOK(base, ops, ledger, pass, at)
  BY EmptyLedger DEF EntriesOK
<1>2. PatchesOK(base, ops, ledger, pass, at)
  BY DEF PatchesOK, Done
<1> QED
  BY <1>1, <1>2, EmptyLedger DEF LedgerInv, LinksGiven

\* What an operation that is of no patch leaves as it was.
Grown(b, o, l, r) ==
    /\ OnceEach(r)
    /\ \A c : Has(l, c) => Has(r, c)
    /\ \A k \in Upd(o) : SettledOf(b, r, k) \subseteq SettledOf(b, l, k)
    /\ \A n \in DOMAIN r : \/ n \in DOMAIN l /\ r[n] = l[n]
                           \/ r[n].obligation = E!None /\ r[n].source \notin Upd(o)

LEMMA GrownByOther ==
    ASSUME NEW b \in Bases, NEW o, NEW l, OnceEach(l), NEW e, e.source \notin Upd(o),
           e.obligation = E!None
    PROVE  Grown(b, o, l, Recording(l, e))
BY RecordingIs, RecordedElsewhere DEF Grown

LEMMA GrownBySame ==
    ASSUME NEW b, NEW o, NEW l, OnceEach(l)
    PROVE  Grown(b, o, l, l)
BY DEF Grown

LEMMA GrownKeeps ==
    ASSUME NEW b, NEW o, NEW l, NEW r, Grown(b, o, l, r)
    PROVE  /\ \A i : Given(b, o, l, i) => Given(b, o, r, i)
           /\ \A ps, i : EntriesOK(b, o, l, ps, i) => EntriesOK(b, o, r, ps, i)
           /\ \A ps, i : PatchesOK(b, o, l, ps, i) => PatchesOK(b, o, r, ps, i)
<1>1. \A i : Given(b, o, l, i) => Given(b, o, r, i)
  BY GivenStays DEF Grown
<1>2. \A ps, i : EntriesOK(b, o, l, ps, i) => EntriesOK(b, o, r, ps, i)
  BY DEF EntriesOK, EntryOK, Grown
<1>3. \A k \in Upd(o) : Accounted(b, o[k].update, l, k) => Accounted(b, o[k].update, r, k)
  BY AccountedStays DEF Grown
<1> QED
  BY <1>1, <1>2, <1>3 DEF PatchesOK

\* A read operation that is no patch.
LEMMA ReadingOn ==
    ASSUME NEW b, NEW o, NEW l, NEW ps \in {"links", "changes", "events"}, NEW i \in Nat \ {0},
           IsSequence(o), EntriesOK(b, o, l, ps, i), PatchesOK(b, o, l, ps, i),
           ps = "changes" => i \notin Upd(o)
    PROVE  EntriesOK(b, o, l, ps, i + 1) /\ PatchesOK(b, o, l, ps, i + 1)
<1>1. \A k \in Upd(o) : k \in Nat
  BY SequenceLength DEF Upd
<1>2. \A k \in Upd(o) : k < i => k < i + 1
  BY <1>1
<1>3. \A k \in Upd(o) : ps = "changes" /\ k < i + 1 => k < i
  BY <1>1
<1>4. EntriesOK(b, o, l, ps, i + 1)
  BY <1>2 DEF EntriesOK, EntryOK
<1>5. PatchesOK(b, o, l, ps, i + 1)
  BY <1>3 DEF PatchesOK, Done
<1> QED
  BY <1>4, <1>5

LEMMA LinksStep ==
    ASSUME TurnInv, LedgerInv,
           \/ E!ReadClosedLink \/ E!ReadCreatedLink
           \/ pass = "links" /\ E!SkipOther
    PROVE  LedgerInv'
<1>1. /\ pass = "links" /\ pass' = "links" /\ at' = at + 1
      /\ base' = base /\ ops' = ops
  BY DEF E!ReadClosedLink, E!ReadCreatedLink, E!SkipOther, E!turnVars
<1>2. /\ base \in Bases /\ OpsOK(ops) /\ IsSequence(ops) /\ LinksOK(base, ops, carried)
  BY DEF TurnInv, OpsOK
<1>3. /\ at \in Nat \ {0} /\ OnceEach(ledger)
      /\ GiversOK(base, ops, givers, at) /\ Given(base, ops, ledger, at)
      /\ EntriesOK(base, ops, ledger, pass, at) /\ PatchesOK(base, ops, ledger, pass, at)
  BY <1>1 DEF LedgerInv, LinksGiven
<1>4. at \in DOMAIN ops
  <2>1. at <= Len(ops)
    BY DEF E!ReadClosedLink, E!ReadCreatedLink, E!SkipOther, E!Reads
  <2> QED
    BY <1>2, <1>3, <2>1, SequenceLength
<1>5. /\ Grown(base, ops, ledger, ledger')
      /\ GiversOK(base, ops, givers', at + 1) /\ Given(base, ops, ledger', at + 1)
  <2>1. CASE E!ReadClosedLink
    <3>1. ops[at].op = "link.close" /\ ledger' = ledger
      BY <2>1 DEF E!ReadClosedLink, E!Reads
    <3>2. PICK last \in ops[at].holders : givers' = [givers EXCEPT ![ops[at].item] = last]
      BY <2>1 DEF E!ReadClosedLink
    <3>3. GiversOK(base, ops, givers', at + 1)
      BY <1>2, <1>3, <1>4, <3>1, <3>2, ClosedLinkIsRemembered
    <3>4. Given(base, ops, ledger', at + 1)
      BY <1>2, <1>3, <1>4, <3>1, NoLinkIsGiven
    <3> QED
      BY <1>3, <3>1, <3>3, <3>4, GrownBySame
  <2>2. CASE E!ReadCreatedLink
    <3> DEFINE x == ops[at].item
               e == E!Entry(E!Transfer(x, E!Giver(x), ops[at].holder), at, E!None)
    <3>1. /\ ops[at].op = "link.create" /\ E!AppendOperation(e)
          /\ givers' = [givers EXCEPT ![x] = Nobody]
      BY <2>2 DEF E!ReadCreatedLink, E!Reads
    <3>2. /\ e.looks = E!Transfer(x, GiverOf(base, givers, x), ops[at].holder)
          /\ e.source = at /\ e.obligation = E!None
      BY DEF E!Entry, E!Giver, GiverOf
    <3> HIDE DEF e
    <3>3. ledger' = Recording(ledger, e)
      BY <3>1, AppendsByRecording
    <3>4. at \notin Upd(ops)
      BY <3>1 DEF Upd
    <3>5. Grown(base, ops, ledger, ledger')
      BY <1>2, <1>3, <3>2, <3>3, <3>4, GrownByOther
    <3>6. /\ \A c : Has(ledger, c) => Has(ledger', c)
          /\ Has(ledger', E!Transfer(x, GiverOf(base, givers, x), ops[at].holder))
      BY <1>3, <3>2, <3>3, RecordingIs
    <3>7. GiversOK(base, ops, givers', at + 1) /\ Given(base, ops, ledger', at + 1)
      BY <1>2, <1>3, <1>4, <3>1, <3>6, CreatedLinkIsGiven
    <3> QED
      BY <3>5, <3>7
  <2>3. CASE E!SkipOther
    <3>1. /\ ops[at].op \in {"event.create", "object.update", "object.create"}
          /\ ledger' = ledger /\ givers' = givers
      BY <1>1, <2>3 DEF E!SkipOther, E!Reads
    <3>2. GiversOK(base, ops, givers', at + 1)
      BY <1>2, <1>3, <1>4, <3>1, NoLinkGivesNothing
    <3>3. Given(base, ops, ledger', at + 1)
      BY <1>2, <1>3, <1>4, <3>1, NoLinkIsGiven
    <3> QED
      BY <1>3, <3>1, <3>2, <3>3, GrownBySame
  <2> QED
    BY <2>1, <2>2, <2>3
<1>6. EntriesOK(base, ops, ledger', pass, at) /\ PatchesOK(base, ops, ledger', pass, at)
  BY <1>3, <1>5, GrownKeeps
<1>7. EntriesOK(base, ops, ledger', pass, at + 1) /\ PatchesOK(base, ops, ledger', pass, at + 1)
  BY <1>1, <1>2, <1>3, <1>6, ReadingOn
<1> QED
  BY <1>1, <1>3, <1>5, <1>7 DEF LedgerInv, LinksGiven, Grown

\* Events, created or told, and links that the second pass skips.
LEMMA EventsStep ==
    ASSUME TurnInv, LedgerInv,
           \/ E!ReadCreatedEvent \/ E!ReadEvent
           \/ pass = "changes" /\ E!SkipOther
    PROVE  LedgerInv'
<1>1. /\ pass \in {"changes", "events"} /\ pass' = pass /\ at' = at + 1
      /\ base' = base /\ ops' = ops
      /\ pass = "changes" => at \notin Upd(ops)
  BY DEF E!ReadCreatedEvent, E!ReadEvent, E!SkipOther, E!Reads, E!turnVars, Upd
<1>2. base \in Bases /\ IsSequence(ops)
  BY DEF TurnInv, OpsOK
<1>3. /\ at \in Nat \ {0} /\ OnceEach(ledger) /\ \A i : Given(base, ops, ledger, i)
      /\ EntriesOK(base, ops, ledger, pass, at) /\ PatchesOK(base, ops, ledger, pass, at)
  BY <1>1 DEF LedgerInv, LinksGiven
<1>4. Grown(base, ops, ledger, ledger')
  <2>1. CASE ledger' = ledger
    BY <1>3, <2>1, GrownBySame
  <2>2. ASSUME NEW c, NEW i, i \notin Upd(ops), E!AppendOperation(E!Entry(c, i, E!None))
        PROVE  Grown(base, ops, ledger, ledger')
    <3> DEFINE e == E!Entry(c, i, E!None)
    <3>1. e.source = i /\ e.obligation = E!None
      BY DEF E!Entry
    <3> HIDE DEF e
    <3>2. ledger' = Recording(ledger, e)
      BY <2>2, AppendsByRecording DEF e
    <3> QED
      BY <1>2, <1>3, <2>2, <3>1, <3>2, GrownByOther
  <2>3. E!None \notin Upd(ops)
    BY <1>2, SequenceLength DEF E!None, Upd
  <2>4. CASE E!ReadCreatedEvent
    BY <1>1, <2>1, <2>2, <2>4 DEF E!ReadCreatedEvent
  <2>5. CASE E!ReadEvent
    BY <2>1, <2>2, <2>3, <2>5 DEF E!ReadEvent
  <2>6. CASE E!SkipOther
    BY <2>1, <2>6 DEF E!SkipOther
  <2> QED
    BY <2>4, <2>5, <2>6
<1>5. /\ EntriesOK(base, ops, ledger', pass, at) /\ PatchesOK(base, ops, ledger', pass, at)
      /\ \A i : Given(base, ops, ledger', i)
  BY <1>3, <1>4, GrownKeeps
<1>6. EntriesOK(base, ops, ledger', pass, at + 1) /\ PatchesOK(base, ops, ledger', pass, at + 1)
  BY <1>1, <1>2, <1>3, <1>5, ReadingOn
<1> QED
  BY <1>1, <1>3, <1>4, <1>5, <1>6 DEF LedgerInv, LinksGiven, Grown

LEMMA BeginsReading ==
    ASSUME TurnInv, LedgerInv, E!BeginDerivation
    PROVE  LedgerInv'
<1>1. /\ pass = "turn" /\ pass' = "links" /\ at' = at /\ base' = base /\ ops' = ops
      /\ ledger' = ledger /\ givers' = givers
  BY DEF E!BeginDerivation, E!turnVars
<1>2. /\ ledger = <<>> /\ at = 1 /\ givers = [x \in Items |-> Nobody] /\ IsSequence(ops)
  BY <1>1 DEF TurnInv, OpsOK
<1>3. \A x : /\ \A k \in Closed(ops, x) : ~(k < 1)
             /\ \A k \in Made(ops, x) : ~(k < 1)
  BY <1>2, SequenceLength DEF Closed, Made
<1>4. GiversOK(base, ops, givers, 1)
  BY <1>2, <1>3 DEF GiversOK, Forgotten
<1>5. Given(base, ops, ledger, 1)
  BY <1>3 DEF Given
<1>6. EntriesOK(base, ops, ledger, "links", at) /\ PatchesOK(base, ops, ledger, "links", at)
  BY <1>2, EmptyLedger DEF EntriesOK, PatchesOK, Done
<1> QED
  BY <1>1, <1>2, <1>4, <1>5, <1>6, EmptyLedger DEF LedgerInv, LinksGiven

LEMMA NextPassStep ==
    ASSUME TurnInv, LedgerInv,
           \/ E!NextPass("links", Len(ops), "changes")
           \/ E!NextPass("changes", Len(ops), "events")
           \/ E!NextPass("events", Len(events), "derived")
    PROVE  LedgerInv'
<1>1. /\ base' = base /\ ops' = ops /\ ledger' = ledger /\ at' = 1
      /\ \/ pass = "links" /\ at > Len(ops) /\ pass' = "changes"
         \/ pass = "changes" /\ at > Len(ops) /\ pass' = "events"
         \/ pass = "events" /\ pass' = "derived"
  BY DEF E!NextPass, E!turnVars
<1>2. IsSequence(ops)
  BY DEF TurnInv, OpsOK
<1>3. /\ at \in Nat \ {0} /\ OnceEach(ledger)
      /\ EntriesOK(base, ops, ledger, pass, at) /\ PatchesOK(base, ops, ledger, pass, at)
  BY <1>1 DEF LedgerInv
<1>4. \A i : Given(base, ops, ledger, i)
  <2>1. CASE pass = "links"
    <3>1. \A x : \A j \in Made(ops, x) : j < at
      BY <1>1, <1>2, <1>3, <2>1, SequenceLength DEF Made
    <3>2. Given(base, ops, ledger, at)
      BY <2>1 DEF LedgerInv, LinksGiven
    <3> QED
      BY <3>1, <3>2 DEF Given
  <2> QED
    BY <1>1, <2>1 DEF LedgerInv, LinksGiven
<1>5. \A k \in Upd(ops) : k \in 1..Len(ops) /\ Len(ops) \in Nat
  BY <1>2, SequenceLength DEF Upd
<1>6. /\ \A k \in Upd(ops) : ~(k < 1)
      /\ pass = "changes" => \A k \in Upd(ops) : k < at
  BY <1>1, <1>3, <1>5
<1>7. EntriesOK(base, ops, ledger, pass', 1)
  BY <1>1, <1>3 DEF EntriesOK, EntryOK
<1>8. PatchesOK(base, ops, ledger, pass', 1)
  BY <1>1, <1>3, <1>6 DEF PatchesOK, Done
<1> QED
  BY <1>1, <1>3, <1>4, <1>7, <1>8 DEF LedgerInv, LinksGiven

LEMMA BeginsUpdate ==
    ASSUME TurnInv, LedgerInv, E!ReadUpdate
    PROVE  LedgerInv'
<1>1. /\ pass = "changes" /\ pass' = "update" /\ at' = at /\ base' = base /\ ops' = ops
      /\ ledger' = ledger /\ ops[at].op = "object.update" /\ at <= Len(ops)
      /\ todo' = ChangesOf(base, ops[at].update) /\ owed' = ConcernOf(base, ops[at].update)
      /\ left' = E!Size(CashOf(base, ops[at].update))
  BY PatchesAreRead DEF E!ReadUpdate, E!Reads, E!turnVars, E!Update
<1>2. base \in Bases /\ IsSequence(ops) /\ OpsOK(ops)
  BY DEF TurnInv, OpsOK
<1>3. /\ at \in Nat \ {0} /\ OnceEach(ledger) /\ \A i : Given(base, ops, ledger, i)
      /\ EntriesOK(base, ops, ledger, pass, at) /\ PatchesOK(base, ops, ledger, pass, at)
  BY <1>1 DEF LedgerInv, LinksGiven
<1>4. at \in Upd(ops) /\ ops[at].update \in Patches
  <2>1. at \in DOMAIN ops
    BY <1>1, <1>2, <1>3, SequenceLength
  <2> QED
    BY <1>1, <1>2, <2>1 DEF Upd, OpsOK
<1>5. \A n \in DOMAIN ledger : ledger[n].source # at
  BY <1>1, <1>3, <1>4 DEF EntriesOK, EntryOK
<1>6. Accounting(base, ops[at].update, ledger, at, todo', owed', left')
  BY <1>1, <1>2, <1>4, <1>5, AccountingBegins
<1>7. \A k \in Upd(ops) : k < at => k <= at
  BY <1>2, <1>3, SequenceLength DEF Upd
<1>8. EntriesOK(base, ops, ledger, pass', at)
  BY <1>1, <1>3, <1>7 DEF EntriesOK, EntryOK
<1>9. PatchesOK(base, ops, ledger, pass', at)
  BY <1>1, <1>3 DEF PatchesOK, Done
<1> QED
  BY <1>1, <1>3, <1>4, <1>6, <1>8, <1>9 DEF LedgerInv, LinksGiven

\* What is recorded of the patch that is read.
LEMMA RecordsOwn ==
    ASSUME TurnInv, LedgerInv, pass = "update",
           NEW e, e.source = at, EntryOf(base, ops[at].update, e)
    PROVE  LET r == Recording(ledger, e)
           IN  /\ OnceEach(r)
               /\ \A i : Given(base, ops, r, i)
               /\ EntriesOK(base, ops, r, pass, at)
               /\ PatchesOK(base, ops, r, pass, at)
<1> DEFINE r == Recording(ledger, e)
<1>1. base \in Bases /\ IsSequence(ops)
  BY DEF TurnInv, OpsOK
<1>2. /\ at \in Nat \ {0} /\ OnceEach(ledger) /\ at \in Upd(ops)
      /\ \A i : Given(base, ops, ledger, i)
      /\ EntriesOK(base, ops, ledger, pass, at) /\ PatchesOK(base, ops, ledger, pass, at)
  BY DEF LedgerInv, LinksGiven
<1>3. /\ OnceEach(r) /\ \A c : Has(ledger, c) => Has(r, c)
      /\ \A n \in DOMAIN r : (n \in DOMAIN ledger /\ r[n] = ledger[n]) \/ r[n] = e
  BY <1>2, RecordingIs
<1>4. \A k : k # at => SettledOf(base, r, k) \subseteq SettledOf(base, ledger, k)
  BY <1>1, <1>2, RecordedElsewhere
<1> HIDE DEF r
<1>5. \A i : Given(base, ops, r, i)
  BY <1>2, <1>3, GivenStays
<1>6. EntryOK(base, ops, e, pass, at)
  BY <1>2 DEF EntryOK
<1>7. EntriesOK(base, ops, r, pass, at)
  BY <1>2, <1>3, <1>6 DEF EntriesOK
<1>8. PatchesOK(base, ops, r, pass, at)
  <2>1. ASSUME NEW k \in Upd(ops), k < at PROVE Accounted(base, ops[k].update, r, k)
    <3>1. Accounted(base, ops[k].update, ledger, k)
      BY <1>2, <2>1 DEF PatchesOK, Done
    <3>2. k # at
      BY <1>2, <2>1
    <3> QED
      BY <1>3, <1>4, <3>1, <3>2, AccountedStays
  <2> QED
    BY <2>1 DEF PatchesOK, Done
<1> QED
  BY <1>3, <1>5, <1>7, <1>8 DEF r

LEMMA RecordStep ==
    ASSUME TurnInv, LedgerInv, NEW c \in todo, E!Record(c)
    PROVE  LedgerInv'
<1> DEFINE e == E!Entry(c, at, E!None)
           u == ops[at].update
<1>1. /\ pass = "update" /\ pass' = pass /\ at' = at /\ base' = base /\ ops' = ops
      /\ E!AppendOperation(e) /\ todo' = todo \ {c} /\ owed' = owed /\ left' = left
  BY DEF E!Record, E!turnVars
<1>2. e.looks = c /\ e.source = at /\ e.obligation = E!None
  BY DEF E!Entry
<1> HIDE DEF e
<1>3. ledger' = Recording(ledger, e)
  BY <1>1, AppendsByRecording
<1>4. /\ at \in Nat \ {0} /\ OnceEach(ledger) /\ at \in Upd(ops) /\ base \in Bases
      /\ Accounting(base, u, ledger, at, todo, owed, left)
  BY <1>1 DEF LedgerInv, TurnInv
<1>5. c \in ChangesOf(base, u)
  BY <1>4 DEF Accounting
<1>6. EntryOf(base, u, e)
  BY <1>2, <1>5 DEF EntryOf
<1>7. Accounting(base, u, ledger', at, todo', owed', left')
  BY <1>1, <1>2, <1>3, <1>4, AccountingOfChange
<1>8. /\ OnceEach(ledger') /\ \A i : Given(base, ops, ledger', i)
      /\ EntriesOK(base, ops, ledger', pass, at) /\ PatchesOK(base, ops, ledger', pass, at)
  BY <1>1, <1>2, <1>3, <1>6, RecordsOwn
<1> QED
  BY <1>1, <1>4, <1>7, <1>8 DEF LedgerInv, LinksGiven

LEMMA SettleStep ==
    ASSUME TurnInv, LedgerInv, NEW o \in owed, E!Settle(o)
    PROVE  LedgerInv'
<1> DEFINE e == E!Entry(E!Settlement(o), at, o.key)
           u == ops[at].update
<1>1. /\ pass = "update" /\ pass' = pass /\ at' = at /\ base' = base /\ ops' = ops
      /\ todo' = todo /\ owed' = owed \ {o}
      /\ \A p \in owed : ~E!Before(p, o)
      /\ IF E!Payable(o) THEN left' = left - o.amount /\ E!AppendOperation(e)
         ELSE left' = left /\ ledger' = ledger
  BY DEF E!Settle, E!turnVars, E!Foremost
<1>2. e.looks = E!Settlement(o) /\ e.source = at /\ e.obligation = o.key
  BY DEF E!Entry
<1> HIDE DEF e
<1>3. /\ at \in Nat \ {0} /\ OnceEach(ledger) /\ at \in Upd(ops) /\ base \in Bases
      /\ Accounting(base, u, ledger, at, todo, owed, left)
      /\ u \in Patches
      /\ \A i : Given(base, ops, ledger, i)
      /\ EntriesOK(base, ops, ledger, pass, at) /\ PatchesOK(base, ops, ledger, pass, at)
  BY <1>1 DEF LedgerInv, LinksGiven, TurnInv, OpsOK, Upd
<1>4. CASE E!Payable(o)
  <2>1. o.amount > 0 /\ o.amount <= left
    BY <1>4 DEF E!Payable
  <2>2. ledger' = Recording(ledger, e)
    BY <1>1, <1>4, AppendsByRecording
  <2>3. o \in ConcernOf(base, u)
    BY <1>3 DEF Accounting
  <2>4. EntryOf(base, u, e)
    BY <1>2, <2>3 DEF EntryOf
  <2>5. Accounting(base, u, Recording(ledger, e), at, todo, owed \ {o}, left - o.amount)
    BY <1>1, <1>2, <1>3, <2>1, AccountingPays
  <2>6. /\ OnceEach(ledger') /\ \A i : Given(base, ops, ledger', i)
        /\ EntriesOK(base, ops, ledger', pass, at) /\ PatchesOK(base, ops, ledger', pass, at)
    BY <1>1, <1>2, <2>2, <2>4, RecordsOwn
  <2> QED
    BY <1>1, <1>3, <1>4, <2>2, <2>5, <2>6 DEF LedgerInv, LinksGiven
<1>5. CASE ~E!Payable(o)
  <2>1. ~(o.amount > 0 /\ left > 0 /\ o.amount <= left)
    BY <1>5 DEF E!Payable
  <2>2. Accounting(base, u, ledger, at, todo, owed \ {o}, left)
    BY <1>1, <1>3, <2>1, AccountingPassesOver
  <2> QED
    BY <1>1, <1>3, <1>5, <2>2 DEF LedgerInv, LinksGiven
<1> QED
  BY <1>4, <1>5

LEMMA EndsUpdate ==
    ASSUME TurnInv, LedgerInv, E!EndUpdate
    PROVE  LedgerInv'
<1>1. /\ pass = "update" /\ pass' = "changes" /\ at' = at + 1 /\ base' = base /\ ops' = ops
      /\ ledger' = ledger /\ todo = {} /\ owed = {}
  BY DEF E!EndUpdate, E!turnVars
<1>2. /\ at \in Nat \ {0} /\ OnceEach(ledger) /\ at \in Upd(ops) /\ base \in Bases
      /\ Accounting(base, ops[at].update, ledger, at, {}, {}, left)
      /\ ops[at].update \in Patches /\ IsSequence(ops)
      /\ \A i : Given(base, ops, ledger, i)
      /\ EntriesOK(base, ops, ledger, pass, at) /\ PatchesOK(base, ops, ledger, pass, at)
  BY <1>1 DEF LedgerInv, LinksGiven, TurnInv, OpsOK, Upd
<1>3. Accounted(base, ops[at].update, ledger, at)
  BY <1>2, AccountingEnds
<1>4. \A k \in Upd(ops) : /\ k <= at => k < at + 1
                          /\ k < at + 1 => (k < at \/ k = at)
  BY <1>2, SequenceLength DEF Upd
<1>5. EntriesOK(base, ops, ledger, pass', at')
  BY <1>1, <1>2, <1>4 DEF EntriesOK, EntryOK
<1>6. PatchesOK(base, ops, ledger, pass', at')
  BY <1>1, <1>2, <1>3, <1>4 DEF PatchesOK, Done
<1> QED
  BY <1>1, <1>2, <1>5, <1>6 DEF LedgerInv, LinksGiven

LEMMA LedgerStep ==
    ASSUME TurnInv, LedgerInv, [E!Next]_(E!vars)
    PROVE  LedgerInv'
<1>1. CASE pass' = "turn" /\ ledger' = <<>> /\ at' = 1
  <2>1. EntriesOK(base', ops', ledger', pass', at')
    BY <1>1, EmptyLedger DEF EntriesOK
  <2>2. PatchesOK(base', ops', ledger', pass', at')
    BY <1>1 DEF PatchesOK, Done
  <2> QED
    BY <1>1, <2>1, <2>2, EmptyLedger DEF LedgerInv, LinksGiven
<1>2. ASSUME NEW x \in Items, NEW e \in Entities, E!PutDown(x, e) \/ E!HandOver(x, e)
      PROVE  LedgerInv'
  BY <1>1, <1>2 DEF E!PutDown, E!HandOver, E!Happens, E!readVars, TurnInv
<1>9. CASE E!CreateObject
  BY <1>1, <1>9 DEF E!CreateObject, E!Happens, E!readVars, TurnInv
<1>3. ASSUME NEW u \in Patches, E!Patch(u) PROVE LedgerInv'
  BY <1>1, <1>3 DEF E!Patch, E!Happens, E!readVars, TurnInv
<1>4. ASSUME NEW e \in Told, E!Tell(e) PROVE LedgerInv'
  BY <1>1, <1>4 DEF E!Tell, E!Happens, E!readVars, TurnInv
<1>5. CASE E!SkipOther
  BY <1>5, LinksStep, EventsStep DEF E!SkipOther
<1>6. CASE UNCHANGED E!vars
  BY <1>6 DEF LedgerInv, LinksGiven, E!vars, E!turnVars, E!readVars
<1>7. ASSUME NEW c \in todo, E!Record(c) PROVE LedgerInv'
  BY <1>7, RecordStep
<1>8. ASSUME NEW o \in owed, E!Settle(o) PROVE LedgerInv'
  BY <1>8, SettleStep
<1> QED
  BY <1>2, <1>3, <1>4, <1>5, <1>6, <1>7, <1>8, <1>9, BeginsReading, LinksStep, EventsStep,
     NextPassStep, BeginsUpdate, EndsUpdate
  DEF E!Next

\* Patches settle different obligations.
LEMMA SettledOnce ==
    ASSUME TurnInv, LedgerInv, NEW i \in Upd(ops), NEW j \in Upd(ops),
           NEW o \in SettledOf(base, ledger, i) \cap SettledOf(base, ledger, j)
    PROVE  i = j
<1>1. o \in base.obligations
  BY DEF SettledOf
<1>2. /\ o.key # E!None
      /\ \A p \in base.obligations : p.key = o.key => p = o
  BY <1>1, EconomyAssumption DEF TurnInv, E!None
<1>3. ASSUME NEW k, NEW n \in DOMAIN ledger,
             ledger[n].source = k, ledger[n].obligation = o.key
      PROVE  ledger[n].looks = E!Settlement(o)
  <2>1. EntryOK(base, ops, ledger[n], pass, at)
    BY DEF LedgerInv, EntriesOK
  <2>2. PICK p \in ConcernOf(base, ops[ledger[n].source].update) :
            ledger[n].looks = E!Settlement(p) /\ ledger[n].obligation = p.key
    BY <1>2, <1>3, <2>1 DEF EntryOK, EntryOf
  <2>3. p \in base.obligations
    BY DEF ConcernOf
  <2> QED
    BY <1>2, <1>3, <2>2, <2>3
<1>4. PICK m \in DOMAIN ledger : ledger[m].source = i /\ ledger[m].obligation = o.key
  BY DEF SettledOf
<1>5. PICK n \in DOMAIN ledger : ledger[n].source = j /\ ledger[n].obligation = o.key
  BY DEF SettledOf
<1>6. m = n
  BY <1>3, <1>4, <1>5 DEF LedgerInv, OnceEach
<1> QED
  BY <1>4, <1>5, <1>6

LEMMA PatchIsCovered ==
    ASSUME NEW b \in Bases, NEW u \in Patches, NEW l, NEW i, Accounted(b, u, l, i)
    PROVE  LET covered == {o \in ConcernOf(b, u) : o.amount > 0 /\ Has(l, E!Settlement(o))}
           IN  /\ SettledOf(b, l, i) \subseteq covered
               /\ AmountIn(b, SettledOf(b, l, i)) <= E!Size(CashOf(b, u))
               /\ \A o \in ConcernOf(b, u) \ covered : o.amount > 0 =>
                     o.amount > E!Size(CashOf(b, u))
                                  - AmountIn(b, {p \in covered : E!Before(p, o)})
<1> DEFINE concern == ConcernOf(b, u)
           size == E!Size(CashOf(b, u))
           done == SettledOf(b, l, i)
           covered == {o \in concern : o.amount > 0 /\ Has(l, E!Settlement(o))}
<1>1. PICK paid \in SUBSET concern : Paying(b, u, l, i, {}, paid) /\ AmountIn(b, paid) <= size
  BY DEF Accounted
<1>2. concern \subseteq b.obligations /\ size \in Nat
  BY SizeOfCash DEF ConcernOf
<1>3. \A o \in paid : o.amount > 0
  BY <1>1 DEF Paying
<1>4. paid \subseteq covered /\ done \subseteq paid
  BY <1>1 DEF Paying
<1>5. \A o \in covered : o.amount > 0
  OBVIOUS
<1>6. covered \subseteq b.obligations
  BY <1>2
<1> HIDE DEF covered, done, concern, size
<1>7. AmountIn(b, done) <= size
  <2>1. AmountIn(b, done) <= AmountIn(b, paid)
    BY <1>2, <1>3, <1>4, Amounts
  <2>2. /\ done \subseteq b.obligations /\ paid \subseteq b.obligations
    BY <1>4, <1>6
  <2>3. AmountIn(b, done) \in Int /\ AmountIn(b, paid) \in Int
    BY <2>2, Amounts
  <2> QED
    BY <1>1, <1>2, <2>1, <2>3
<1>8. ASSUME NEW o \in concern \ covered, o.amount > 0
      PROVE  o.amount > size - AmountIn(b, {p \in covered : E!Before(p, o)})
  <2> DEFINE those == {p \in paid : E!Before(p, o)}
             all == {p \in covered : E!Before(p, o)}
  <2>1. o \notin paid
    BY <1>4, <1>8
  <2>2. o.amount > size - AmountIn(b, those)
    BY <1>1, <1>8, <2>1 DEF Paying, concern, size
  <2>3. /\ those \subseteq all /\ all \subseteq b.obligations /\ those \subseteq b.obligations
        /\ \A p \in all : p.amount > 0
    BY <1>4, <1>5, <1>6
  <2> HIDE DEF those, all
  <2>4. AmountIn(b, those) <= AmountIn(b, all)
    BY <2>3, Amounts
  <2>5. AmountIn(b, those) \in Int /\ AmountIn(b, all) \in Int
    BY <2>3, Amounts
  <2>6. o.amount \in Int
    BY <1>2, EconomyAssumption
  <2>7. o.amount > size - AmountIn(b, all)
    BY <1>2, <2>2, <2>4, <2>5, <2>6
  <2> QED
    BY <2>7 DEF all
<1> QED
  BY <1>4, <1>7, <1>8 DEF covered, done, concern, size

LEMMA SettlementsAreSound ==
    ASSUME TurnInv, LedgerInv, pass = "derived"
    PROVE  E!SettlementsAreCovered
<1>1. base \in Bases /\ OpsOK(ops)
  BY DEF TurnInv
<1>2. SUFFICES ASSUME NEW i \in Upd(ops)
      PROVE  LET u == E!Update(i)
                 covered == {o \in E!Concerned(u) :
                                o.amount > 0 /\ E!Recorded(E!Settlement(o))}
             IN  /\ E!Settled(i) \subseteq covered
                 /\ E!AmountOf(E!Settled(i)) <= E!Size(E!Cash(u))
                 /\ \A j \in Upd(ops) \ {i} : E!Settled(i) \cap E!Settled(j) = {}
                 /\ \A o \in E!Concerned(u) \ covered : o.amount > 0 =>
                       o.amount > E!Size(E!Cash(u))
                                    - E!AmountOf({p \in covered : E!Before(p, o)})
  BY PatchesAreRead DEF E!SettlementsAreCovered
<1> DEFINE u == ops[i].update
<1>3. E!Update(i) = u /\ u \in Patches
  BY <1>1 DEF E!Update, Upd, OpsOK
<1>4. Accounted(base, u, ledger, i)
  BY DEF LedgerInv, PatchesOK, Done
<1>5. \A c : E!Recorded(c) <=> Has(ledger, c)
  BY DEF E!Recorded, Has
<1>6. \A j \in Upd(ops) \ {i} : SettledOf(base, ledger, i) \cap SettledOf(base, ledger, j) = {}
  BY SettledOnce
<1> HIDE DEF u
<1>7. LET covered == {o \in ConcernOf(base, u) : o.amount > 0 /\ Has(ledger, E!Settlement(o))}
      IN  /\ SettledOf(base, ledger, i) \subseteq covered
          /\ AmountIn(base, SettledOf(base, ledger, i)) <= E!Size(CashOf(base, u))
          /\ \A o \in ConcernOf(base, u) \ covered : o.amount > 0 =>
                o.amount > E!Size(CashOf(base, u))
                             - AmountIn(base, {p \in covered : E!Before(p, o)})
  BY <1>1, <1>3, <1>4, PatchIsCovered
<1> QED
  BY <1>3, <1>5, <1>6, <1>7, PatchesAreRead

LEMMA StaffIsSound ==
    ASSUME TurnInv, LedgerInv, pass = "derived"
    PROVE  E!StaffIsAccountedFor
<1>1. base \in Bases /\ OpsOK(ops)
  BY DEF TurnInv
<1>2. SUFFICES ASSUME NEW i \in Upd(ops)
      PROVE  LET u == E!Update(i)
                 named(type) == {p.looks.to : p \in {q \in E!LedgerOf(i) : q.looks.type = type}}
             IN  /\ \A e \in E!Came(u) : E!Recorded(E!Hire(u.object, e))
                 /\ \A e \in E!Went(u) : E!Recorded(E!Fire(u.object, e))
                 /\ named("hire") \subseteq E!Came(u) /\ named("fire") \subseteq E!Went(u)
  BY PatchesAreRead DEF E!StaffIsAccountedFor
<1> DEFINE u == ops[i].update
<1>3. E!Update(i) = u
  BY DEF E!Update
<1>4. \A c \in ChangesOf(base, u) : Has(ledger, c)
  BY DEF LedgerInv, PatchesOK, Done, Accounted
<1>5. \A c : E!Recorded(c) <=> Has(ledger, c)
  BY DEF E!Recorded, Has
<1>6. ASSUME NEW n \in DOMAIN ledger, ledger[n].source = i
      PROVE  /\ ledger[n].looks.type = "hire" => ledger[n].looks.to \in CameOf(base, u)
             /\ ledger[n].looks.type = "fire" => ledger[n].looks.to \in WentOf(base, u)
  <2>1. EntryOf(base, u, ledger[n])
    BY <1>6 DEF LedgerInv, EntriesOK, EntryOK
  <2>2. CASE ledger[n].looks \in ChangesOf(base, u)
    BY <2>2 DEF ChangesOf, HireOf, E!Fire, TradeOf, E!Operation
  <2>3. ASSUME NEW o \in ConcernOf(base, u), ledger[n].looks = E!Settlement(o)
        PROVE  ledger[n].looks.type \notin {"hire", "fire"}
    <3>1. o.type \in {"debt", "wage", "profit_share", "tax"}
      BY DEF ConcernOf
    <3> QED
      BY <2>3, <3>1 DEF E!Settlement, E!Operation
  <2> QED
    BY <2>1, <2>2, <2>3 DEF EntryOf
<1>7. /\ \A e \in CameOf(base, u) : HireOf(base, u.object, e) \in ChangesOf(base, u)
      /\ \A e \in WentOf(base, u) : E!Fire(u.object, e) \in ChangesOf(base, u)
  BY DEF ChangesOf
<1> HIDE DEF u
<1>8. \A p \in E!LedgerOf(i) :
          /\ p.looks.type = "hire" => p.looks.to \in CameOf(base, u)
          /\ p.looks.type = "fire" => p.looks.to \in WentOf(base, u)
  BY <1>6 DEF E!LedgerOf
<1> QED
  BY <1>3, <1>4, <1>5, <1>7, <1>8, PatchesAreRead

LEMMA DerivedIsSound == ASSUME TurnInv, LedgerInv PROVE LedgerIsSound
<1>1. SUFFICES ASSUME pass = "derived"
      PROVE  /\ E!NothingIsRecordedTwice /\ E!SettlementsAreCovered
             /\ E!TransfersFollowItems /\ E!StaffIsAccountedFor
  BY DEF LedgerIsSound, E!LedgerIsSound
<1>2. E!NothingIsRecordedTwice
  BY DEF LedgerInv, OnceEach, E!NothingIsRecordedTwice
<1>3. E!TransfersFollowItems
  BY <1>1, TransfersAreSound DEF LedgerInv, LinksGiven
<1> QED
  BY <1>1, <1>2, <1>3, SettlementsAreSound, StaffIsSound

\* However a turn is told, in links, patches and events, the ledger made of it
\* is sound.
THEOREM LedgerCorrect == E!Spec => []LedgerIsSound
<1>1. E!Init => TurnInv /\ LedgerInv
  <2>1. E!Init => TurnInv
    BY InitTurn
  <2>2. E!Init => LedgerInv
    BY NothingRead DEF E!Init
  <2> QED
    BY <2>1, <2>2
<1>2. TurnInv /\ LedgerInv /\ [E!Next]_(E!vars) => (TurnInv /\ LedgerInv)'
  BY TurnGoesOn, LedgerStep
<1>3. TurnInv /\ LedgerInv => LedgerIsSound
  BY DerivedIsSound
<1> QED
  BY <1>1, <1>2, <1>3, PTL DEF E!Spec
=============================================================================

---------------------------- MODULE RetrievalProofs ----------------------------
(***************************************************************************)
(* What keeps the index, the texts kept for a prompt, the objects of a     *)
(* patch and the prompt itself right.  The words of an object never change *)
(* without their vector being written or asked for, and once nothing is    *)
(* left to be done the index is current, unless the job that wrote it last *)
(* was overtaken after its last look.  The spine passes over no more       *)
(* turns than failures cost it.  A patch, however often it is rolled back  *)
(* for an answer and applied again, makes of each creation an object that  *)
(* the vectors, the arbiter or the patch itself account for.  A pack       *)
(* counts what it spends and stops only when nothing else has room.        *)
(***************************************************************************)
EXTENDS Retrieval, SumTheorems, TLAPS

USE TextsAssumption, BoundsAssumption

-----------------------------------------------------------------------------
(* The inductive invariant. *)

Phases == {"reading", "embedding", "writing"}

\* What a worker of this phase and kind carries.
Carried(phase, k) ==
    CASE phase = "reading" -> {NoText}
      [] phase # "reading" /\ k = "context" -> SUBSET Links
      [] phase # "reading" /\ k = "profile" -> Profiles
      [] OTHER -> MaybeText

Works(j) ==
    /\ j = [phase |-> j.phase, kind |-> j.kind, text |-> j.text, late |-> j.late]
    /\ j.phase \in Phases /\ j.kind \in Kinds /\ j.late \in BOOLEAN
    /\ j.text \in Carried(j.phase, j.kind)

JobsOK ==
    /\ job = [w \in Workers |-> job[w]]
    /\ \A w \in Workers: job[w] = Idle \/ Works(job[w])

Tables ==
    /\ source \in Sources /\ index \in Indexed /\ events \in [Kinds -> Nat]
    /\ batch = NoBatch \/ batch \in Batches
    /\ overtaken \subseteq {"profile", "chronicle"}

Bounds ==
    /\ changes \in 0..MaxChanges /\ batches \in 0..MaxBatches
    /\ failures \in 0..MaxFailures

TypeInv == Tables /\ JobsOK /\ Bounds

\* A batch knows the words of the object, or has written their vector.
BatchSound ==
    batch.open =>
        IF batch.vector = Unwritten
        THEN batch.text.words = source.profile.words
        ELSE batch.vector.words = batch.text.words

\* This job tells these words of the object, or will look at them again.
Eager(j, words) ==
    /\ j.phase \in Phases /\ j.kind = "profile"
    /\ j.phase = "writing" => j.text.words = words
Stale(j, words) ==
    j.phase = "writing" /\ j.kind = "profile" /\ j.text.words # words

\* A vector of other words is seen to, and whoever is about to write one is late.
ProfileFollowed ==
    /\ \A w \in Workers: Stale(job[w], source.profile.words) => job[w].late
    /\ \/ index.profile.words = source.profile.words
       \/ "profile" \in overtaken \/ events["profile"] > 0
       \/ \E w \in Workers: Eager(job[w], source.profile.words)

\* This job tells the turn by what it is told by, or will look.
Telling(j, told) ==
    /\ j.phase \in Phases /\ j.kind = "chronicle"
    /\ j.phase # "reading" => j.text = told
Outmoded(j, told) ==
    j.phase \in {"embedding", "writing"} /\ j.kind = "chronicle" /\ j.text # told

\* Who carries what the turn was told by is late or has a successor.
ChronicleFollowed ==
    /\ \A w \in Workers: Outmoded(job[w], ChronicleText(source.chronicle)) =>
          \/ job[w].late \/ events["chronicle"] > 0
          \/ \E v \in Workers: Telling(job[v], ChronicleText(source.chronicle))
    /\ \/ index.chronicle = ChronicleText(source.chronicle)
       \/ "chronicle" \in overtaken \/ events["chronicle"] > 0
       \/ \E w \in Workers: Telling(job[w], ChronicleText(source.chronicle))

\* The part of the inductive invariant that says what is not current is seen to.
Followed == BatchSound /\ ProfileFollowed /\ ChronicleFollowed
-----------------------------------------------------------------------------
(* Jobs and tables. *)

\* A job that starts, and one that reads.
LEMMA JobFields ==
    ASSUME NEW phase \in Phases, NEW k \in Kinds, NEW text \in Carried(phase, k)
    PROVE  LET j == Job(phase, k, text)
           IN  /\ j.phase = phase /\ j.kind = k /\ j.text = text /\ ~j.late
               /\ Works(j)
BY DEF Job, Works

LEMMA IdleFacts ==
    \A j: /\ Works(j) => j.phase # "idle"
          /\ j = Idle => j.phase = "idle"
BY DEF Works, Phases, Idle

\* A job of which only late may have changed.
Alike(i, j) == i = j \/ (Works(j) /\ i = [j EXCEPT !.late = TRUE])

LEMMA AlikeFields ==
    ASSUME NEW i, NEW j, Alike(i, j), j = Idle \/ Works(j)
    PROVE  /\ i = Idle \/ Works(i)
           /\ i.phase = j.phase /\ i.kind = j.kind /\ i.text = j.text
           /\ Works(j) /\ j.late => i.late
           /\ \A words: /\ Eager(i, words) <=> Eager(j, words)
                        /\ Stale(i, words) <=> Stale(j, words)
           /\ \A told: /\ Telling(i, told) <=> Telling(j, told)
                       /\ Outmoded(i, told) <=> Outmoded(j, told)
<1>1. CASE i = j
  BY <1>1
<1>2. CASE Works(j) /\ i = [j EXCEPT !.late = TRUE]
  <2>1. /\ j = [phase |-> j.phase, kind |-> j.kind, text |-> j.text, late |-> j.late]
        /\ j.phase \in Phases /\ j.kind \in Kinds /\ j.text \in Carried(j.phase, j.kind)
    BY <1>2 DEF Works
  <2>2. i = [phase |-> j.phase, kind |-> j.kind, text |-> j.text, late |-> TRUE]
    BY <1>2, <2>1
  <2>3. i.phase = j.phase /\ i.kind = j.kind /\ i.text = j.text /\ i.late = TRUE
    BY <2>2
  <2>4. Works(i)
    BY <2>1, <2>2, <2>3 DEF Works
  <2> QED
    BY <2>3, <2>4 DEF Eager, Stale, Telling, Outmoded
<1> QED
  BY <1>1, <1>2 DEF Alike

\* Some jobs have become late.
LEMMA AlikeStep ==
    ASSUME JobsOK, job' = [w \in Workers |-> job'[w]],
           \A w \in Workers: Alike(job'[w], job[w])
    PROVE  JobsOK'
<1> SUFFICES ASSUME NEW w \in Workers PROVE job'[w] = Idle \/ Works(job'[w])
  BY DEF JobsOK
<1> QED
  BY AlikeFields DEF JobsOK

\* A step of one worker.
LEMMA JobStep ==
    ASSUME JobsOK, NEW w \in Workers, NEW next,
           next = Idle \/ Works(next),
           job' = [job EXCEPT ![w] = next]
    PROVE  /\ JobsOK' /\ job'[w] = next
           /\ \A v \in Workers \ {w}: job'[v] = job[v]
BY DEF JobsOK

\* The object has other words.
LEMMA OutdatedStep ==
    ASSUME JobsOK, NEW words, job' = Outdated(words)
    PROVE  /\ JobsOK' /\ \A w \in Workers: Alike(job'[w], job[w])
           /\ \A w \in Workers:
                 Stale(job[w], words) /\ (Stale(job[w], source.profile.words) => job[w].late)
                     => job'[w].late
           /\ words = source.profile.words => \A w \in Workers: job'[w] = job[w]
<1>1. \A w \in Workers:
          job'[w] = IF /\ job[w].phase = "writing" /\ job[w].kind = "profile"
                       /\ words # source.profile.words
                    THEN [job[w] EXCEPT !.late = TRUE] ELSE job[w]
  BY DEF Outdated
<1>2. ASSUME NEW w \in Workers
      PROVE  Alike(job'[w], job[w])
  <2>1. job[w].phase = "writing" => Works(job[w])
    BY DEF JobsOK, Idle
  <2> QED
    BY <1>1, <2>1 DEF Alike
<1>3. JobsOK'
  <2>1. job' = [w \in Workers |-> job'[w]]
    BY DEF Outdated
  <2> QED
    BY <1>2, <2>1, AlikeStep
<1>4. ASSUME NEW w \in Workers, Stale(job[w], words),
             Stale(job[w], source.profile.words) => job[w].late
      PROVE  job'[w].late
  <2>1. Works(job[w])
    BY <1>4 DEF JobsOK, Idle, Stale
  <2>2. CASE words = source.profile.words
    BY <1>1, <1>4, <2>2
  <2>3. CASE words # source.profile.words
    <3>1. job'[w] = [job[w] EXCEPT !.late = TRUE]
      BY <1>1, <1>4, <2>3 DEF Stale
    <3> QED
      BY <2>1, <3>1 DEF Works
  <2> QED
    BY <2>2, <2>3
<1> QED
  BY <1>1, <1>2, <1>3, <1>4

\* A worker is done, and others for the same turn are late.
LEMMA FinishedStep ==
    ASSUME JobsOK, NEW w \in Workers, job' = Finished(w)
    PROVE  /\ JobsOK' /\ job'[w] = Idle
           /\ \A v \in Workers \ {w}: Alike(job'[v], job[v])
           /\ \A v \in Workers \ {w}: \A told:
                 job[w].kind = "chronicle" /\ Outmoded(job'[v], told) => job'[v].late
<1>1. /\ job' = [v \in Workers |-> job'[v]] /\ job'[w] = Idle
      /\ \A v \in Workers \ {w}:
            job'[v] = IF /\ job[v].phase \in {"embedding", "writing"}
                         /\ job[v].kind = "chronicle" /\ job[w].kind = "chronicle"
                      THEN [job[v] EXCEPT !.late = TRUE] ELSE job[v]
  BY DEF Finished
<1>2. ASSUME NEW v \in Workers \ {w}
      PROVE  /\ Alike(job'[v], job[v]) /\ (job'[v] = Idle \/ Works(job'[v]))
             /\ \A told: job[w].kind = "chronicle" /\ Outmoded(job'[v], told)
                            => job'[v].late
  <2>1. job[v].phase \in {"embedding", "writing"} => Works(job[v])
    BY DEF JobsOK, Idle
  <2>2. Alike(job'[v], job[v])
    BY <1>1, <2>1 DEF Alike
  <2>3. job'[v] = Idle \/ Works(job'[v])
    BY <2>2, AlikeFields DEF JobsOK
  <2>4. ASSUME NEW told, job[w].kind = "chronicle", Outmoded(job'[v], told)
        PROVE  job'[v].late
    <3>1. Outmoded(job[v], told)
      BY <2>2, <2>4, AlikeFields DEF JobsOK
    <3>2. Works(job[v]) /\ job'[v] = [job[v] EXCEPT !.late = TRUE]
      BY <1>1, <2>1, <2>4, <3>1 DEF Outmoded
    <3> QED
      BY <3>2 DEF Works
  <2> QED
    BY <2>2, <2>3, <2>4
<1>3. JobsOK'
  BY <1>1, <1>2 DEF JobsOK
<1> QED
  BY <1>1, <1>2, <1>3

\* What the parts of the index are.
LEMMA TableFields ==
    ASSUME Tables
    PROVE  /\ source.profile \in Profiles /\ source.context \in SUBSET Links
           /\ source.chronicle.snippet \in MaybeText
           /\ source.chronicle.prose \in MaybeText
           /\ ChronicleText(source.chronicle) \in MaybeText
           /\ index.profile \in Profiles \cup {Unwritten}
           /\ index.chronicle \in MaybeText
           /\ index.context \in SUBSET Links
           /\ \A k \in Kinds: events[k] \in Nat
BY DEF Tables, Sources, Indexed, ChronicleText

\* Announcing a change, taking an event and giving it back.
LEMMA EventStep ==
    ASSUME Tables, NEW k \in Kinds,
           \/ events' = Announced(k)
           \/ events[k] > 0 /\ events' = [events EXCEPT ![k] = @ - 1]
    PROVE  /\ events' \in [Kinds -> Nat]
           /\ \A other \in Kinds \ {k}: events'[other] = events[other]
           /\ events' = Announced(k) => events'[k] > events[k] /\ events'[k] > 0
<1>1. events \in [Kinds -> Nat] /\ events[k] \in Nat
  BY DEF Tables
<1>2. CASE events' = Announced(k)
  <2>1. events'[k] = events[k] + 1
    BY <1>1, <1>2 DEF Announced
  <2>2. /\ events' \in [Kinds -> Nat]
        /\ \A other \in Kinds \ {k}: events'[other] = events[other]
    BY <1>1, <1>2 DEF Announced
  <2> QED
    BY <1>1, <2>1, <2>2
<1>3. CASE events[k] > 0 /\ events' = [events EXCEPT ![k] = @ - 1]
  <2>1. events[k] - 1 \in Nat
    BY <1>1, <1>3
  <2>2. /\ events' \in [Kinds -> Nat]
        /\ \A other \in Kinds \ {k}: events'[other] = events[other]
    BY <1>1, <1>3, <2>1
  <2>3. events'[k] = events[k] - 1
    BY <1>1, <1>3
  <2>4. events' # Announced(k)
    BY <1>1, <2>3 DEF Announced
  <2> QED
    BY <2>2, <2>4
<1> QED
  BY <1>2, <1>3
-----------------------------------------------------------------------------
(* What each action does: it preserves the types. *)

LEMMA InitType == Init => TypeInv
<1> SUFFICES ASSUME Init PROVE TypeInv
  OBVIOUS
<1>1. source \in Sources /\ index \in Indexed
  BY DEF Init, Indexed, MaybeText
<1>2. events \in [Kinds -> Nat]
  BY DEF Init
<1>3. JobsOK
  BY DEF Init, JobsOK
<1> QED
  BY <1>1, <1>2, <1>3 DEF Init, TypeInv, Tables, Bounds

\* Changes outside a batch.
LEMMA ChangeObjectStep ==
    ASSUME TypeInv, NEW t \in Profiles, ChangeObject(t)
    PROVE  /\ TypeInv' /\ source'.profile = t /\ source'.chronicle = source.chronicle
           /\ events'["profile"] > events["profile"] /\ events'["profile"] > 0
           /\ events'["chronicle"] = events["chronicle"]
           /\ "chronicle" \in overtaken => "chronicle" \in overtaken'
           /\ job' = Outdated(t.words) /\ ~batch'.open /\ UNCHANGED index
<1>1. /\ source' = [source EXCEPT !.profile = t] /\ events' = Announced("profile")
      /\ overtaken' = overtaken \ {"profile"} /\ job' = Outdated(t.words)
      /\ Change /\ ~batch.open /\ UNCHANGED <<index, batch, batches, failures>>
  BY DEF ChangeObject
<1>2. /\ source' \in Sources /\ source'.profile = t
      /\ source'.chronicle = source.chronicle
  BY <1>1 DEF TypeInv, Tables, Sources
<1>3. /\ events' \in [Kinds -> Nat] /\ events'["profile"] > events["profile"]
      /\ events'["profile"] > 0 /\ events'["chronicle"] = events["chronicle"]
  BY <1>1, EventStep DEF TypeInv, Kinds
<1>4. JobsOK'
  BY <1>1, OutdatedStep DEF TypeInv
<1>5. Tables'
  BY <1>1, <1>2, <1>3 DEF TypeInv, Tables
<1>6. Bounds'
  BY <1>1 DEF TypeInv, Bounds, Change
<1> QED
  BY <1>1, <1>2, <1>3, <1>4, <1>5, <1>6 DEF TypeInv

LEMMA AddLinkStep ==
    ASSUME TypeInv, NEW l \in Links, AddLink(l)
    PROVE  /\ TypeInv' /\ source'.profile = source.profile
           /\ source'.chronicle = source.chronicle
           /\ events'["profile"] = events["profile"]
           /\ events'["chronicle"] = events["chronicle"]
           /\ UNCHANGED <<index, job, batch, overtaken>>
<1>1. /\ source' = [source EXCEPT !.context = @ \cup {l}]
      /\ events' = Announced("context") /\ Change
      /\ UNCHANGED <<index, job, batch, overtaken, batches, failures>>
  BY DEF AddLink
<1>2. /\ source' \in Sources /\ source'.profile = source.profile
      /\ source'.chronicle = source.chronicle
  BY <1>1 DEF TypeInv, Tables, Sources
<1>3. /\ events' \in [Kinds -> Nat] /\ events'["profile"] = events["profile"]
      /\ events'["chronicle"] = events["chronicle"]
  BY <1>1, EventStep DEF TypeInv, Kinds
<1>4. Tables' /\ JobsOK'
  BY <1>1, <1>2, <1>3 DEF TypeInv, Tables, JobsOK
<1>5. Bounds'
  BY <1>1 DEF TypeInv, Bounds, Change
<1> QED
  BY <1>1, <1>2, <1>3, <1>4, <1>5 DEF TypeInv

LEMMA PatchTurnStep ==
    ASSUME TypeInv, NEW t \in MaybeText, PatchTurn(t)
    PROVE  /\ TypeInv' /\ source'.profile = source.profile
           /\ events'["profile"] = events["profile"]
           /\ events'["chronicle"] > events["chronicle"] /\ events'["chronicle"] > 0
           /\ "profile" \in overtaken => "profile" \in overtaken'
           /\ UNCHANGED <<index, job, batch>>
<1>1. /\ source' = [source EXCEPT !.chronicle.prose = t]
      /\ events' = Announced("chronicle") /\ Change
      /\ overtaken' = overtaken \ {"chronicle"}
      /\ UNCHANGED <<index, job, batch, batches, failures>>
  BY DEF PatchTurn
<1>2. source' \in Sources /\ source'.profile = source.profile
  <2>1. /\ source \in Sources
        /\ source.chronicle \in [snippet: MaybeText, prose: MaybeText]
    BY DEF TypeInv, Tables, Sources
  <2>2. [source.chronicle EXCEPT !.prose = t] \in [snippet: MaybeText, prose: MaybeText]
    BY <2>1
  <2>3. source' = [source EXCEPT !.chronicle = [source.chronicle EXCEPT !.prose = t]]
    BY <1>1
  <2> QED
    BY <2>1, <2>2, <2>3 DEF Sources
<1>3. /\ events' \in [Kinds -> Nat] /\ events'["profile"] = events["profile"]
      /\ events'["chronicle"] > events["chronicle"] /\ events'["chronicle"] > 0
  BY <1>1, EventStep DEF TypeInv, Kinds
<1>4. Tables' /\ JobsOK'
  BY <1>1, <1>2, <1>3 DEF TypeInv, Tables, JobsOK
<1>5. Bounds'
  BY <1>1 DEF TypeInv, Bounds, Change
<1> QED
  BY <1>1, <1>2, <1>3, <1>4, <1>5 DEF TypeInv

\* A step of a batch before its commit.
Batching ==
    \/ BeginBatch \/ Flush \/ RollbackBatch
    \/ \E t \in Profiles: PatchObject(t)
    \/ \E l \in Links: PatchLink(l) \/ PatchUnlink(l)

LEMMA BatchFrame ==
    ASSUME Batching
    PROVE  /\ UNCHANGED <<source, index, events, job, overtaken, failures>>
           /\ Change \/ UNCHANGED changes
           /\ \/ batches < MaxBatches /\ batches' = batches + 1
              \/ UNCHANGED batches
<1>1. CASE BeginBatch \/ Flush \/ RollbackBatch
  BY <1>1 DEF BeginBatch, Flush, RollbackBatch
<1>2. CASE \E t \in Profiles: PatchObject(t)
  BY <1>2 DEF PatchObject
<1>3. CASE \E l \in Links: PatchLink(l) \/ PatchUnlink(l)
  BY <1>3 DEF PatchLink, PatchUnlink
<1> QED
  BY <1>1, <1>2, <1>3 DEF Batching

LEMMA BatchType ==
    ASSUME TypeInv, Batching
    PROVE  TypeInv'
<1>1. UNCHANGED <<source, index, events, job, overtaken, failures>>
  BY BatchFrame
<1>2. changes' \in 0..MaxChanges /\ batches' \in 0..MaxBatches
  <2>1. /\ Change \/ UNCHANGED changes
        /\ \/ batches < MaxBatches /\ batches' = batches + 1
           \/ UNCHANGED batches
    BY BatchFrame
  <2>2. /\ changes \in 0..MaxChanges /\ batches \in 0..MaxBatches
        /\ MaxChanges \in Nat /\ MaxBatches \in Nat
    BY DEF TypeInv, Bounds
  <2> QED
    BY <2>1, <2>2 DEF Change
<1>3. batch' = NoBatch \/ batch' \in Batches
  <2>1. batch.open => batch \in Batches
    BY DEF TypeInv, Tables, NoBatch
  <2>2. CASE BeginBatch
    <3>1. source.context \in SUBSET Links /\ source.profile \in Profiles
      BY TableFields DEF TypeInv
    <3> QED
      BY <2>2, <3>1 DEF BeginBatch, Batches
  <2>3. CASE RollbackBatch
    BY <2>3 DEF RollbackBatch
  <2>4. CASE Flush
    <3>1. /\ batch \in Batches
          /\ batch' = [batch EXCEPT !.seen = LinksOf(batch),
                                    !.added = {}, !.closed = {}]
      BY <2>1, <2>4 DEF Flush
    <3>2. LinksOf(batch) \in SUBSET Links
      BY <3>1 DEF LinksOf, Batches
    <3> QED
      BY <3>1, <3>2 DEF Batches
  <2>5. ASSUME NEW t \in Profiles, PatchObject(t)
        PROVE  batch' \in Batches
    <3>1. PICK refresh \in Refreshes(batch.text, t):
              batch' = PatchedBatch(batch, t, refresh)
      BY <2>5 DEF PatchObject
    <3>2. batch \in Batches
      BY <2>1, <2>5 DEF PatchObject
    <3> QED
      BY <3>1, <3>2 DEF Batches, PatchedBatch
  <2>6. ASSUME NEW l \in Links, PatchLink(l)
        PROVE  batch' \in Batches
    <3>1. /\ batch \in Batches
          /\ batch' = Refreshed([batch EXCEPT !.added = @ \cup {l}])
      BY <2>1, <2>6 DEF PatchLink
    <3>2. [batch EXCEPT !.added = @ \cup {l}] \in Batches
      BY <3>1 DEF Batches
    <3> QED
      BY <3>1, <3>2 DEF Refreshed, Batches
  <2>7. ASSUME NEW l \in Links, PatchUnlink(l)
        PROVE  batch' \in Batches
    <3>1. /\ batch \in Batches
          /\ batch' = Refreshed([batch EXCEPT !.closed = @ \cup {l}])
      BY <2>1, <2>7 DEF PatchUnlink
    <3>2. [batch EXCEPT !.closed = @ \cup {l}] \in Batches
      BY <3>1 DEF Batches
    <3> QED
      BY <3>1, <3>2 DEF Refreshed, Batches
  <2> QED
    BY <2>2, <2>3, <2>4, <2>5, <2>6, <2>7 DEF Batching
<1>4. Tables'
  BY <1>1, <1>3 DEF TypeInv, Tables
<1>5. JobsOK' /\ Bounds'
  BY <1>1, <1>2 DEF TypeInv, JobsOK, Bounds
<1> QED
  BY <1>4, <1>5 DEF TypeInv

\* What a commit writes.
LEMMA CommitStep ==
    ASSUME TypeInv, BatchSound, CommitBatch
    PROVE  /\ TypeInv' /\ job' = Outdated(source'.profile.words) /\ ~batch'.open
           /\ source'.chronicle = source.chronicle
           /\ index'.chronicle = index.chronicle
           /\ "chronicle" \in overtaken => "chronicle" \in overtaken'
           /\ \/ /\ source'.profile.words = source.profile.words
                 /\ index'.profile = index.profile /\ UNCHANGED overtaken
              \/ index'.profile.words = source'.profile.words
           /\ UNCHANGED events
<1>1. PICK facts \in MarkedFacts(batch): source' = SourceOf(batch, facts)
  BY DEF CommitBatch
<1>2. /\ batch.open /\ batch \in Batches /\ index' = IndexedBy(batch)
      /\ overtaken' = IF batch.vector = Unwritten THEN overtaken
                      ELSE overtaken \ {"profile"}
      /\ job' = Outdated(batch.text.words) /\ batch' = NoBatch
      /\ UNCHANGED <<events, changes, batches, failures>>
  BY DEF TypeInv, Tables, NoBatch, CommitBatch
<1>3. /\ batch.vector \in Profiles \cup {Unwritten} /\ batch.context \in SUBSET Links
      /\ batch.text \in Profiles /\ batch.refreshed \in BOOLEAN
      /\ LinksOf(batch) \in SUBSET Links
  BY <1>2 DEF Batches, LinksOf
<1>4. [words |-> batch.text.words, facts |-> facts] \in Profiles
  <2>1. batch.text.words \in Texts /\ batch.text.facts \in Texts
    BY <1>3 DEF Profiles
  <2>2. facts \in Texts
    BY <2>1 DEF MarkedFacts
  <2> QED
    BY <2>1, <2>2 DEF Profiles
<1>5. /\ source' \in Sources /\ source'.chronicle = source.chronicle
      /\ source'.profile.words = batch.text.words
  BY <1>1, <1>3, <1>4 DEF TypeInv, Tables, Sources, SourceOf
<1>6. /\ index' \in Indexed /\ index'.chronicle = index.chronicle
      /\ index'.profile = IF batch.vector = Unwritten THEN index.profile
                          ELSE batch.vector
  BY <1>2, <1>3 DEF TypeInv, Tables, Indexed, IndexedBy
<1>7. JobsOK'
  BY <1>2, OutdatedStep DEF TypeInv
<1>8. TypeInv'
  <2>1. overtaken' \subseteq {"profile", "chronicle"}
    BY <1>2 DEF TypeInv, Tables
  <2> QED
    BY <1>2, <1>5, <1>6, <1>7, <2>1 DEF TypeInv, Tables, Bounds
<1>9. /\ batch.vector = Unwritten => batch.text.words = source.profile.words
      /\ batch.vector # Unwritten => batch.vector.words = batch.text.words
  BY <1>2 DEF BatchSound
<1>10. CASE batch.vector = Unwritten
  BY <1>2, <1>5, <1>6, <1>8, <1>9, <1>10 DEF NoBatch
<1>11. CASE batch.vector # Unwritten
  <2>1. index'.profile.words = source'.profile.words
    BY <1>5, <1>6, <1>9, <1>11
  <2>2. "chronicle" \in overtaken => "chronicle" \in overtaken'
    BY <1>2, <1>11
  <2> QED
    BY <1>2, <1>5, <1>6, <1>8, <2>1, <2>2 DEF NoBatch
<1> QED
  BY <1>10, <1>11
-----------------------------------------------------------------------------
(* The steps of a worker. *)

LEMMA TakeStep ==
    ASSUME TypeInv, NEW w \in Workers, NEW k \in Kinds, Take(w, k)
    PROVE  /\ TypeInv' /\ job[w] = Idle
           /\ job'[w].phase = "reading" /\ job'[w].kind = k
           /\ \A v \in Workers \ {w}: job'[v] = job[v]
           /\ \A other \in Kinds \ {k}: events'[other] = events[other]
           /\ UNCHANGED <<source, index, batch, overtaken>>
<1>1. /\ events[k] > 0 /\ events' = [events EXCEPT ![k] = @ - 1]
      /\ job' = [job EXCEPT ![w] = Job("reading", k, NoText)]
      /\ UNCHANGED <<source, index, batch, overtaken, changes, batches, failures>>
  BY DEF Take
<1>2. job[w] = Idle
  BY IdleFacts DEF Take, TypeInv, JobsOK
<1>3. NoText \in Carried("reading", k) /\ "reading" \in Phases
  BY DEF Carried, Phases
<1>4. LET j == Job("reading", k, NoText)
      IN  Works(j) /\ j.phase = "reading" /\ j.kind = k
  BY <1>3, JobFields
<1>5. /\ JobsOK' /\ job'[w] = Job("reading", k, NoText)
      /\ \A v \in Workers \ {w}: job'[v] = job[v]
  BY <1>1, <1>4, JobStep DEF TypeInv
<1>6. /\ events' \in [Kinds -> Nat]
      /\ \A other \in Kinds \ {k}: events'[other] = events[other]
  BY <1>1, EventStep DEF TypeInv
<1>7. Tables' /\ Bounds'
  BY <1>1, <1>6 DEF TypeInv, Tables, Bounds
<1> QED
  BY <1>1, <1>2, <1>4, <1>5, <1>6, <1>7 DEF TypeInv

\* Reading takes what there is to embed.
LEMMA ReadStep ==
    ASSUME TypeInv, NEW w \in Workers, Read(w)
    PROVE  /\ TypeInv' /\ Works(job[w]) /\ job[w].phase = "reading"
           /\ job'[w].phase = "embedding" /\ job'[w].kind = job[w].kind
           /\ job'[w].text = TextOf(job[w].kind)
           /\ \A v \in Workers \ {w}: job'[v] = job[v]
           /\ UNCHANGED <<source, index, events, batch, overtaken>>
<1> DEFINE k == job[w].kind
<1>1. /\ job[w].phase = "reading"
      /\ job' = [job EXCEPT ![w] = Job("embedding", k, TextOf(k))]
      /\ UNCHANGED <<source, index, events, batch, overtaken, changes, batches, failures>>
  BY DEF Read, TypeInv, JobsOK
<1>2. Works(job[w]) /\ k \in Kinds
  BY <1>1 DEF TypeInv, JobsOK, Idle, Works
<1> HIDE DEF k
<1>3. TextOf(k) \in Carried("embedding", k) /\ "embedding" \in Phases
  BY <1>2, TableFields DEF TypeInv, Carried, Kinds, TextOf, Phases
<1>4. LET j == Job("embedding", k, TextOf(k))
      IN  Works(j) /\ j.phase = "embedding" /\ j.kind = k /\ j.text = TextOf(k)
  BY <1>2, <1>3, JobFields
<1>5. /\ JobsOK' /\ job'[w] = Job("embedding", k, TextOf(k))
      /\ \A v \in Workers \ {w}: job'[v] = job[v]
  BY <1>1, <1>4, JobStep DEF TypeInv
<1>6. Tables' /\ Bounds'
  BY <1>1 DEF TypeInv, Tables, Bounds
<1> QED
  BY <1>1, <1>2, <1>4, <1>5, <1>6 DEF TypeInv, k

\* Reading again: a worker goes on to write, starts over or is done.
LEMMA RecheckStep ==
    ASSUME TypeInv, NEW w \in Workers, Recheck(w)
    PROVE  /\ TypeInv' /\ Works(job[w]) /\ job[w].phase = "embedding"
           /\ \/ /\ job[w].kind = "chronicle" /\ job' = Finished(w)
                 /\ index.chronicle = job[w].text
              \/ /\ \/ /\ job'[w].phase = "writing" /\ job'[w].kind = job[w].kind
                       /\ job'[w].text = job[w].text /\ job'[w].late = job[w].late
                       /\ job[w].kind # "chronicle" =>
                             source[job[w].kind] = job[w].text
                    \/ /\ job'[w].phase = "reading" /\ job'[w].kind = job[w].kind
                       /\ job[w].kind # "chronicle"
                 /\ \A v \in Workers \ {w}: job'[v] = job[v]
           /\ UNCHANGED <<source, index, events, batch, overtaken>>
<1> DEFINE k == job[w].kind
           text == job[w].text
           next == IF k = "chronicle" \/ source[k] = text
                   THEN [job[w] EXCEPT !.phase = "writing"]
                   ELSE Job("reading", k, NoText)
<1>1. /\ job[w].phase = "embedding"
      /\ job' = IF k = "chronicle" /\ index[k] = text THEN Finished(w)
                ELSE [job EXCEPT ![w] = next]
      /\ UNCHANGED <<source, index, events, batch, overtaken, changes, batches, failures>>
  BY DEF Recheck
<1>2. Works(job[w])
  BY <1>1 DEF TypeInv, JobsOK, Idle
<1>3. Tables' /\ Bounds'
  BY <1>1 DEF TypeInv, Tables, Bounds
<1>4. CASE k = "chronicle" /\ index[k] = text
  <2>1. JobsOK'
    BY <1>1, <1>4, FinishedStep DEF TypeInv
  <2> QED
    BY <1>1, <1>2, <1>3, <1>4, <2>1 DEF TypeInv
<1>5. CASE ~(k = "chronicle" /\ index[k] = text)
  <2>1. /\ job[w] = [phase |-> "embedding", kind |-> k, text |-> text,
                     late |-> job[w].late]
        /\ k \in Kinds /\ text \in Carried("embedding", k) /\ job[w].late \in BOOLEAN
    BY <1>1, <1>2 DEF Works
  <2>2. CASE k = "chronicle" \/ source[k] = text
    <3>1. next = [phase |-> "writing", kind |-> k, text |-> text, late |-> job[w].late]
      BY <2>1, <2>2
    <3>2. /\ next.phase = "writing" /\ next.kind = k /\ next.text = text
          /\ next.late = job[w].late
      BY <3>1
    <3>3. text \in Carried("writing", k)
      BY <2>1 DEF Carried
    <3>4. Works(next)
      BY <2>1, <3>1, <3>2, <3>3 DEF Works, Phases
    <3> HIDE DEF next
    <3>5. /\ JobsOK' /\ job'[w] = next
          /\ \A v \in Workers \ {w}: job'[v] = job[v]
      BY <1>1, <1>5, <3>4, JobStep DEF TypeInv
    <3> QED
      BY <1>1, <1>2, <1>3, <2>2, <3>2, <3>5 DEF TypeInv
  <2>3. CASE ~(k = "chronicle" \/ source[k] = text)
    <3>1. next = Job("reading", k, NoText)
      BY <2>3
    <3>2. NoText \in Carried("reading", k) /\ "reading" \in Phases
      BY DEF Carried, Phases
    <3>3. Works(next) /\ next.phase = "reading" /\ next.kind = k
      BY <2>1, <3>1, <3>2, JobFields
    <3> HIDE DEF next
    <3>4. /\ JobsOK' /\ job'[w] = next
          /\ \A v \in Workers \ {w}: job'[v] = job[v]
      BY <1>1, <1>5, <3>3, JobStep DEF TypeInv
    <3> QED
      BY <1>1, <1>2, <1>3, <2>3, <3>3, <3>4 DEF TypeInv
  <2> QED
    BY <2>2, <2>3
<1> QED
  BY <1>4, <1>5

\* Writing puts the text that was read into the index.
LEMMA WriteStep ==
    ASSUME TypeInv, NEW w \in Workers, Write(w)
    PROVE  /\ TypeInv' /\ Works(job[w]) /\ job[w].phase = "writing"
           /\ job' = Finished(w)
           /\ index'[job[w].kind] = job[w].text
           /\ \A k \in Kinds \ {job[w].kind}: index'[k] = index[k]
           /\ overtaken' = IF job[w].late /\ Differs(job[w].kind, job[w].text)
                           THEN overtaken \cup {job[w].kind}
                           ELSE overtaken \ {job[w].kind}
           /\ UNCHANGED <<source, events, batch>>
<1> DEFINE k == job[w].kind
           text == job[w].text
<1>1. /\ job[w].phase = "writing" /\ job' = Finished(w)
      /\ index' = [index EXCEPT ![k] = text]
      /\ overtaken' = IF job[w].late /\ Differs(k, text) THEN overtaken \cup {k}
                      ELSE overtaken \ {k}
      /\ UNCHANGED <<source, events, batch, changes, batches, failures>>
  BY DEF Write
<1>2. Works(job[w]) /\ k \in Kinds /\ text \in Carried("writing", k)
  BY <1>1 DEF TypeInv, JobsOK, Idle, Works
<1> HIDE DEF k, text
<1>3. index \in Indexed
  BY DEF TypeInv, Tables
<1>4. /\ index' \in Indexed /\ index'[k] = text
      /\ \A other \in Kinds \ {k}: index'[other] = index[other]
  <2>1. CASE k = "profile"
    BY <1>1, <1>2, <1>3, <2>1 DEF Indexed, Carried, Kinds
  <2>2. CASE k = "context"
    BY <1>1, <1>2, <1>3, <2>2 DEF Indexed, Carried, Kinds
  <2>3. CASE k = "chronicle"
    BY <1>1, <1>2, <1>3, <2>3 DEF Indexed, Carried, Kinds
  <2> QED
    BY <1>2, <2>1, <2>2, <2>3 DEF Kinds
<1>5. JobsOK'
  BY <1>1, FinishedStep DEF TypeInv
<1>6. overtaken' \subseteq {"profile", "chronicle"}
  BY <1>1, <1>2 DEF TypeInv, Tables, Differs, Kinds
<1>7. Tables' /\ Bounds'
  BY <1>1, <1>4, <1>6 DEF TypeInv, Tables, Bounds
<1> QED
  BY <1>1, <1>2, <1>4, <1>5, <1>7 DEF TypeInv, k, text

\* A failed attempt gives its event back.
LEMMA FailStep ==
    ASSUME TypeInv, NEW w \in Workers, FailJob(w)
    PROVE  /\ TypeInv' /\ Works(job[w]) /\ job'[w] = Idle
           /\ events'[job[w].kind] > 0
           /\ \A k \in Kinds \ {job[w].kind}: events'[k] = events[k]
           /\ \A v \in Workers \ {w}: job'[v] = job[v]
           /\ UNCHANGED <<source, index, batch, overtaken>>
<1> DEFINE k == job[w].kind
<1>1. /\ job[w].phase = "embedding" /\ job' = [job EXCEPT ![w] = Idle]
      /\ failures < MaxFailures /\ failures' = failures + 1
      /\ events' = Announced(k)
      /\ UNCHANGED <<source, index, batch, overtaken, changes, batches>>
  BY DEF FailJob, Announced
<1>2. Works(job[w]) /\ k \in Kinds
  BY <1>1 DEF TypeInv, JobsOK, Idle, Works
<1> HIDE DEF k
<1>3. /\ events' \in [Kinds -> Nat] /\ events'[k] > 0
      /\ \A other \in Kinds \ {k}: events'[other] = events[other]
  BY <1>1, <1>2, EventStep DEF TypeInv
<1>4. /\ JobsOK' /\ job'[w] = Idle
      /\ \A v \in Workers \ {w}: job'[v] = job[v]
  BY <1>1, JobStep DEF TypeInv
<1>5. Tables'
  BY <1>1, <1>3 DEF TypeInv, Tables
<1>6. Bounds'
  BY <1>1 DEF TypeInv, Bounds
<1> QED
  BY <1>1, <1>2, <1>3, <1>4, <1>5, <1>6 DEF TypeInv, k

LEMMA NextType ==
    ASSUME TypeInv, BatchSound, [Next]_vars
    PROVE  TypeInv'
<1>1. CASE UNCHANGED vars
  BY <1>1 DEF vars, TypeInv, Tables, JobsOK, Works, Bounds
<1>2. CASE \E t \in Profiles: ChangeObject(t) \/ PatchObject(t)
  BY <1>2, ChangeObjectStep, BatchType DEF Batching
<1>3. CASE \/ \E t \in MaybeText: PatchTurn(t)
           \/ \E l \in Links: AddLink(l) \/ PatchLink(l) \/ PatchUnlink(l)
           \/ BeginBatch \/ Flush \/ CommitBatch \/ RollbackBatch
  BY <1>3, PatchTurnStep, AddLinkStep, BatchType, CommitStep DEF Batching
<1>4. CASE \E w \in Workers:
              \/ \E k \in Kinds: Take(w, k)
              \/ Read(w) \/ Recheck(w) \/ Write(w) \/ FailJob(w)
  BY <1>4, TakeStep, ReadStep, RecheckStep, WriteStep, FailStep
<1> QED
  BY <1>1, <1>2, <1>3, <1>4 DEF Next
-----------------------------------------------------------------------------
(* Each action keeps what is not current followed. *)

LEMMA BatchSoundKept ==
    ASSUME TypeInv, BatchSound, [Next]_vars
    PROVE  BatchSound'
<1>1. CASE UNCHANGED <<source, batch>>
  BY <1>1 DEF BatchSound
<1>2. CASE ~batch'.open
  BY <1>2 DEF BatchSound
<1>3. ASSUME NEW t \in Profiles, PatchObject(t)
      PROVE  BatchSound'
  <2>1. /\ batch.open /\ batch \in Batches /\ UNCHANGED source
    BY <1>3 DEF PatchObject, TypeInv, Tables, NoBatch
  <2>2. PICK refresh \in Refreshes(batch.text, t):
            batch' = PatchedBatch(batch, t, refresh)
    BY <1>3 DEF PatchObject
  <2>3. /\ batch'.text = t
        /\ batch'.vector = IF refresh THEN t ELSE batch.vector
    BY <2>1, <2>2 DEF Batches, PatchedBatch
  <2>4. CASE refresh
    <3>1. batch'.vector = t
      BY <2>3, <2>4
    <3>2. t # Unwritten
      <4>1. t.words \in Texts /\ Unwritten.words = NoText
        BY DEF Profiles, Unwritten
      <4> QED
        BY <4>1
    <3> QED
      BY <2>3, <3>1, <3>2 DEF BatchSound
  <2>5. CASE ~refresh
    <3>1. t.words = batch.text.words
      BY <2>2, <2>5 DEF Refreshes
    <3>2. batch'.vector = batch.vector
      BY <2>3, <2>5
    <3> QED
      BY <2>1, <2>3, <3>1, <3>2 DEF BatchSound
  <2> QED
    BY <2>4, <2>5
<1>4. ASSUME NEW l \in Links, PatchLink(l) \/ PatchUnlink(l)
      PROVE  BatchSound'
  <2>1. batch.open /\ batch \in Batches /\ UNCHANGED source
    BY <1>4 DEF PatchLink, PatchUnlink, TypeInv, Tables, NoBatch
  <2>2. batch'.text = batch.text /\ batch'.vector = batch.vector
    BY <1>4, <2>1 DEF PatchLink, PatchUnlink, Refreshed, Batches
  <2> QED
    BY <2>1, <2>2 DEF BatchSound
<1>5. CASE Flush
  <2>1. batch.open /\ batch \in Batches /\ UNCHANGED source
    BY <1>5 DEF Flush, TypeInv, Tables, NoBatch
  <2>2. batch'.text = batch.text /\ batch'.vector = batch.vector
    BY <1>5, <2>1 DEF Flush, Batches
  <2> QED
    BY <2>1, <2>2 DEF BatchSound
<1>6. CASE BeginBatch
  <2>1. batch'.text = source.profile /\ batch'.vector = Unwritten /\ UNCHANGED source
    BY <1>6 DEF BeginBatch
  <2> QED
    BY <2>1 DEF BatchSound
<1>7. CASE CommitBatch \/ RollbackBatch
  <2>1. batch' = NoBatch
    BY <1>7 DEF CommitBatch, RollbackBatch
  <2> QED
    BY <1>2, <2>1 DEF NoBatch
<1>8. CASE \/ \E t \in Profiles: ChangeObject(t)
           \/ \E t \in MaybeText: PatchTurn(t)
           \/ \E l \in Links: AddLink(l)
  <2>1. ~batch'.open
    BY <1>8 DEF ChangeObject, PatchTurn, AddLink
  <2> QED
    BY <1>2, <2>1
<1>9. CASE \E w \in Workers:
              \/ \E k \in Kinds: Take(w, k)
              \/ Read(w) \/ Recheck(w) \/ Write(w) \/ FailJob(w)
  <2>1. UNCHANGED <<source, batch>>
    BY <1>9 DEF Take, Read, Recheck, Write, FailJob
  <2> QED
    BY <1>1, <2>1
<1>10. CASE UNCHANGED vars
  BY <1>1, <1>10 DEF vars
<1> QED
  BY <1>3, <1>4, <1>5, <1>6, <1>7, <1>8, <1>9, <1>10 DEF Next

\* Nothing about the vector of the object changes but, perhaps, what has become late.
LEMMA ProfileFrame ==
    ASSUME TypeInv, ProfileFollowed,
           source'.profile.words = source.profile.words,
           index'.profile = index.profile,
           "profile" \in overtaken => "profile" \in overtaken',
           events'["profile"] = events["profile"],
           \A w \in Workers:
               \/ Alike(job'[w], job[w])
               \/ /\ ~Eager(job[w], source.profile.words)
                  /\ ~Stale(job'[w], source.profile.words)
    PROVE  ProfileFollowed'
<1> DEFINE words == source.profile.words
<1>1. \A w \in Workers: Stale(job'[w], words) => job'[w].late
  <2> SUFFICES ASSUME NEW w \in Workers, Stale(job'[w], words), Alike(job'[w], job[w])
               PROVE  job'[w].late
    OBVIOUS
  <2>1. Stale(job[w], words) /\ (Works(job[w]) /\ job[w].late => job'[w].late)
    BY AlikeFields DEF TypeInv, JobsOK
  <2>2. job[w].late /\ Works(job[w])
    BY <2>1 DEF ProfileFollowed, TypeInv, JobsOK, Idle, Stale
  <2> QED
    BY <2>1, <2>2
<1>2. \A w \in Workers: Eager(job[w], words) => Eager(job'[w], words)
  BY AlikeFields DEF TypeInv, JobsOK
<1> QED
  BY <1>1, <1>2 DEF ProfileFollowed

LEMMA ChronicleFrame ==
    ASSUME TypeInv, ChronicleFollowed,
           source'.chronicle = source.chronicle,
           index'.chronicle = index.chronicle,
           "chronicle" \in overtaken => "chronicle" \in overtaken',
           events'["chronicle"] = events["chronicle"],
           \A w \in Workers:
               \/ Alike(job'[w], job[w])
               \/ /\ ~Telling(job[w], ChronicleText(source.chronicle))
                  /\ ~Outmoded(job'[w], ChronicleText(source.chronicle))
    PROVE  ChronicleFollowed'
<1> DEFINE told == ChronicleText(source.chronicle)
<1>1. \A w \in Workers: Telling(job[w], told) => Telling(job'[w], told)
  BY AlikeFields DEF TypeInv, JobsOK
<1>2. ASSUME NEW w \in Workers, Outmoded(job'[w], told)
      PROVE  \/ job'[w].late \/ events'["chronicle"] > 0
             \/ \E v \in Workers: Telling(job'[v], told)
  <2>1. Alike(job'[w], job[w])
    BY <1>2
  <2>2. Outmoded(job[w], told) /\ (Works(job[w]) /\ job[w].late => job'[w].late)
    BY <1>2, <2>1, AlikeFields DEF TypeInv, JobsOK
  <2>3. Works(job[w])
    BY <2>2 DEF TypeInv, JobsOK, Idle, Outmoded
  <2> QED
    BY <1>1, <2>2, <2>3 DEF ChronicleFollowed
<1> HIDE DEF told
<1>3. told = ChronicleText(source'.chronicle)
  BY DEF told
<1> QED
  BY <1>1, <1>2, <1>3 DEF ChronicleFollowed, told

LEMMA ChangeFollowed ==
    ASSUME TypeInv, ProfileFollowed, ChronicleFollowed,
           \/ \E t \in Profiles: ChangeObject(t)
           \/ \E t \in MaybeText: PatchTurn(t)
           \/ \E l \in Links: AddLink(l)
    PROVE  ProfileFollowed' /\ ChronicleFollowed'
<1>1. ASSUME NEW t \in Profiles, ChangeObject(t)
      PROVE  ProfileFollowed' /\ ChronicleFollowed'
  <2>1. /\ source'.profile = t /\ source'.chronicle = source.chronicle
        /\ events'["profile"] > 0 /\ events'["chronicle"] = events["chronicle"]
        /\ "chronicle" \in overtaken => "chronicle" \in overtaken'
        /\ job' = Outdated(t.words) /\ UNCHANGED index
    BY <1>1, ChangeObjectStep
  <2>2. /\ JobsOK /\ \A w \in Workers: Alike(job'[w], job[w])
        /\ \A w \in Workers: Stale(job[w], t.words) => job'[w].late
    BY <2>1, OutdatedStep DEF TypeInv, ProfileFollowed
  <2>3. \A w \in Workers: Stale(job'[w], t.words) => job'[w].late
    BY <2>2, AlikeFields DEF JobsOK
  <2>4. ProfileFollowed'
    BY <2>1, <2>3 DEF ProfileFollowed
  <2>5. ChronicleFollowed'
    BY <2>1, <2>2, ChronicleFrame
  <2> QED
    BY <2>4, <2>5
<1>2. ASSUME NEW t \in MaybeText, PatchTurn(t)
      PROVE  ProfileFollowed' /\ ChronicleFollowed'
  <2>1. /\ source'.profile = source.profile
        /\ events'["profile"] = events["profile"] /\ events'["chronicle"] > 0
        /\ "profile" \in overtaken => "profile" \in overtaken'
        /\ UNCHANGED <<index, job, batch>>
    BY <1>2, PatchTurnStep
  <2>2. ProfileFollowed'
    BY <2>1, ProfileFrame DEF Alike
  <2>3. ChronicleFollowed'
    BY <2>1 DEF ChronicleFollowed
  <2> QED
    BY <2>2, <2>3
<1>3. ASSUME NEW l \in Links, AddLink(l)
      PROVE  ProfileFollowed' /\ ChronicleFollowed'
  BY <1>3, AddLinkStep, ProfileFrame, ChronicleFrame DEF Alike
<1> QED
  BY <1>1, <1>2, <1>3

LEMMA BatchFollowed ==
    ASSUME TypeInv, ProfileFollowed, ChronicleFollowed,
           Batching \/ UNCHANGED vars
    PROVE  ProfileFollowed' /\ ChronicleFollowed'
<1>1. UNCHANGED <<source, index, events, job, overtaken>>
  BY BatchFrame DEF vars
<1> QED
  BY <1>1, ProfileFrame, ChronicleFrame DEF Alike

\* A commit writes other words together with their vector, and makes late
\* whoever is about to write another one.
LEMMA CommitFollowed ==
    ASSUME TypeInv, BatchSound, ProfileFollowed, ChronicleFollowed, CommitBatch
    PROVE  ProfileFollowed' /\ ChronicleFollowed'
<1> DEFINE words == source'.profile.words
<1>1. /\ job' = Outdated(words) /\ source'.chronicle = source.chronicle
      /\ index'.chronicle = index.chronicle
      /\ "chronicle" \in overtaken => "chronicle" \in overtaken'
      /\ \/ /\ words = source.profile.words
            /\ index'.profile = index.profile /\ UNCHANGED overtaken
         \/ index'.profile.words = words
      /\ UNCHANGED events
  BY CommitStep
<1>2. /\ JobsOK /\ \A w \in Workers: Alike(job'[w], job[w])
      /\ \A w \in Workers: Stale(job[w], words) => job'[w].late
  BY <1>1, OutdatedStep DEF TypeInv, ProfileFollowed
<1>3. ChronicleFollowed'
  BY <1>1, <1>2, ChronicleFrame
<1>4. CASE index'.profile.words = words
  <2>1. \A w \in Workers: Stale(job'[w], words) => job'[w].late
    BY <1>2, AlikeFields DEF JobsOK
  <2> QED
    BY <1>3, <1>4, <2>1 DEF ProfileFollowed
<1>5. CASE /\ words = source.profile.words
           /\ index'.profile = index.profile /\ UNCHANGED overtaken
  BY <1>1, <1>2, <1>3, <1>5, ProfileFrame
<1> QED
  BY <1>1, <1>4, <1>5

\* A worker takes an event, and will look.
LEMMA TakeFollowed ==
    ASSUME TypeInv, ProfileFollowed, ChronicleFollowed,
           NEW w \in Workers, NEW k \in Kinds, Take(w, k)
    PROVE  ProfileFollowed' /\ ChronicleFollowed'
<1>1. /\ job[w] = Idle /\ job'[w].phase = "reading" /\ job'[w].kind = k
      /\ \A v \in Workers \ {w}: job'[v] = job[v]
      /\ \A other \in Kinds \ {k}: events'[other] = events[other]
      /\ UNCHANGED <<source, index, overtaken>>
  BY TakeStep
<1>2. /\ \A words: ~Eager(job[w], words) /\ ~Stale(job'[w], words)
      /\ \A told: ~Telling(job[w], told) /\ ~Outmoded(job'[w], told)
  BY <1>1, IdleFacts DEF Eager, Stale, Telling, Outmoded, Phases, Idle
<1>3. \A v \in Workers \ {w}: Alike(job'[v], job[v])
  BY <1>1 DEF Alike
<1>4. ProfileFollowed'
  <2>1. CASE k = "profile"
    <3>1. \A words: Eager(job'[w], words)
      BY <1>1, <2>1 DEF Eager, Phases
    <3>2. \A v \in Workers: Stale(job'[v], source.profile.words) => job'[v].late
      BY <1>1, <1>2 DEF ProfileFollowed
    <3> QED
      BY <1>1, <3>1, <3>2 DEF ProfileFollowed
  <2>2. CASE k # "profile"
    <3>1. events'["profile"] = events["profile"]
      BY <1>1, <2>2 DEF Kinds
    <3> QED
      BY <1>1, <1>2, <1>3, <3>1, ProfileFrame
  <2> QED
    BY <2>1, <2>2
<1>5. ChronicleFollowed'
  <2>1. CASE k = "chronicle"
    <3>1. \A told: Telling(job'[w], told)
      BY <1>1, <2>1 DEF Telling, Phases
    <3> QED
      BY <3>1 DEF ChronicleFollowed
  <2>2. CASE k # "chronicle"
    <3>1. events'["chronicle"] = events["chronicle"]
      BY <1>1, <2>2 DEF Kinds
    <3> QED
      BY <1>1, <1>2, <1>3, <3>1, ChronicleFrame
  <2> QED
    BY <2>1, <2>2
<1> QED
  BY <1>4, <1>5

\* A worker goes on with its job: it still tells what it told, or looks again.
LEMMA OneWorker ==
    ASSUME TypeInv, ProfileFollowed, ChronicleFollowed, NEW w \in Workers,
           UNCHANGED <<source, index, events, overtaken>>,
           \A v \in Workers \ {w}: job'[v] = job[v],
           \A words: Eager(job[w], words) => Eager(job'[w], words),
           \A told: Telling(job[w], told) => Telling(job'[w], told),
           ~Stale(job'[w], source.profile.words),
           Outmoded(job'[w], ChronicleText(source.chronicle)) =>
               /\ Outmoded(job[w], ChronicleText(source.chronicle))
               /\ job'[w].late = job[w].late
    PROVE  ProfileFollowed' /\ ChronicleFollowed'
<1> DEFINE words == source.profile.words
           told == ChronicleText(source.chronicle)
<1>1. /\ \A v \in Workers: Eager(job[v], words) => Eager(job'[v], words)
      /\ \A v \in Workers: Telling(job[v], told) => Telling(job'[v], told)
  OBVIOUS
<1>2. \A v \in Workers: Stale(job'[v], words) => job'[v].late
  BY DEF ProfileFollowed
<1>3. ProfileFollowed'
  BY <1>1, <1>2 DEF ProfileFollowed
<1>4. \A v \in Workers: Outmoded(job'[v], told) =>
          \/ job'[v].late \/ events["chronicle"] > 0
          \/ \E u \in Workers: Telling(job[u], told)
  BY DEF ChronicleFollowed
<1>5. ChronicleFollowed'
  BY <1>1, <1>4 DEF ChronicleFollowed
<1> QED
  BY <1>3, <1>5

LEMMA ReadFollowed ==
    ASSUME TypeInv, ProfileFollowed, ChronicleFollowed, NEW w \in Workers, Read(w)
    PROVE  ProfileFollowed' /\ ChronicleFollowed'
<1> DEFINE told == ChronicleText(source.chronicle)
<1>1. /\ job[w].phase = "reading"
      /\ job'[w].phase = "embedding" /\ job'[w].kind = job[w].kind
      /\ job'[w].text = TextOf(job[w].kind)
      /\ \A v \in Workers \ {w}: job'[v] = job[v]
      /\ UNCHANGED <<source, index, events, overtaken>>
  BY ReadStep
<1>2. /\ \A words: Eager(job[w], words) => Eager(job'[w], words)
      /\ \A words: ~Stale(job'[w], words)
  BY <1>1 DEF Eager, Stale, Phases
<1>3. job'[w].kind = "chronicle" => job'[w].text = told
  BY <1>1 DEF TextOf
<1>4. ~Outmoded(job'[w], told)
  BY <1>3 DEF Outmoded
<1>5. Telling(job[w], told) => Telling(job'[w], told)
  BY <1>1, <1>3 DEF Telling, Phases
<1> HIDE DEF told
<1>6. ProfileFollowed'
  <2>1. \A v \in Workers: Stale(job'[v], source.profile.words) => job'[v].late
    BY <1>1, <1>2 DEF ProfileFollowed
  <2>2. \A v \in Workers: Eager(job[v], source.profile.words)
            => Eager(job'[v], source.profile.words)
    BY <1>1, <1>2
  <2> QED
    BY <1>1, <2>1, <2>2 DEF ProfileFollowed
<1>7. ChronicleFollowed'
  <2>1. \A v \in Workers: Telling(job[v], told) => Telling(job'[v], told)
    BY <1>1, <1>5
  <2>2. \A v \in Workers: Outmoded(job'[v], told) =>
            \/ job'[v].late \/ events["chronicle"] > 0
            \/ \E u \in Workers: Telling(job[u], told)
    BY <1>1, <1>4 DEF ChronicleFollowed, told
  <2> QED
    BY <1>1, <2>1, <2>2 DEF ChronicleFollowed, told
<1> QED
  BY <1>6, <1>7

\* What a turn's worker finds in the index is what it read, and a worker that
\* goes on to write has read what there is.
LEMMA RecheckFollowed ==
    ASSUME TypeInv, ProfileFollowed, ChronicleFollowed, NEW w \in Workers, Recheck(w)
    PROVE  ProfileFollowed' /\ ChronicleFollowed'
<1> DEFINE told == ChronicleText(source.chronicle)
<1>1. /\ Works(job[w]) /\ job[w].phase = "embedding"
      /\ UNCHANGED <<source, index, events, batch, overtaken>>
  BY RecheckStep
<1>2. CASE /\ job[w].kind = "chronicle" /\ job' = Finished(w)
           /\ index.chronicle = job[w].text
  <2>1. /\ JobsOK /\ job'[w] = Idle
        /\ \A v \in Workers \ {w}: Alike(job'[v], job[v])
        /\ \A v \in Workers \ {w}: Outmoded(job'[v], told) => job'[v].late
    BY <1>2, FinishedStep DEF TypeInv
  <2>2. /\ \A words: ~Eager(job[w], words) /\ ~Stale(job'[w], words)
        /\ ~Outmoded(job'[w], told)
    BY <1>2, <2>1, IdleFacts DEF Eager, Stale, Outmoded
  <2>3. ProfileFollowed'
    BY <1>1, <2>1, <2>2, ProfileFrame
  <2>4. \A v \in Workers: Outmoded(job'[v], told) => job'[v].late
    BY <2>1, <2>2
  <2>5. \A v \in Workers: Telling(job[v], told) =>
            index.chronicle = told \/ Telling(job'[v], told)
    <3>1. Telling(job[w], told) => index.chronicle = told
      BY <1>1, <1>2 DEF Telling
    <3>2. \A v \in Workers \ {w}: Telling(job[v], told) => Telling(job'[v], told)
      BY <2>1, AlikeFields DEF JobsOK
    <3> QED
      BY <3>1, <3>2
  <2>6. ChronicleFollowed'
    BY <1>1, <2>4, <2>5 DEF ChronicleFollowed
  <2> QED
    BY <2>3, <2>6
<1>3. CASE /\ job'[w].phase = "writing" /\ job'[w].kind = job[w].kind
           /\ job'[w].text = job[w].text /\ job'[w].late = job[w].late
           /\ job[w].kind # "chronicle" => source[job[w].kind] = job[w].text
           /\ \A v \in Workers \ {w}: job'[v] = job[v]
  <2>1. job[w].kind = "profile" => job'[w].text = source.profile
    BY <1>3
  <2>2. /\ ~Stale(job'[w], source.profile.words)
        /\ Eager(job[w], source.profile.words) => Eager(job'[w], source.profile.words)
    BY <1>3, <2>1 DEF Eager, Stale, Phases
  <2>3. /\ Telling(job[w], told) => Telling(job'[w], told)
        /\ Outmoded(job'[w], told) => Outmoded(job[w], told)
    BY <1>1, <1>3 DEF Telling, Outmoded, Phases
  <2> HIDE DEF told
  <2>4. ProfileFollowed'
    <3>1. \A v \in Workers: Stale(job'[v], source.profile.words) => job'[v].late
      BY <1>3, <2>2 DEF ProfileFollowed
    <3>2. \A v \in Workers: Eager(job[v], source.profile.words)
              => Eager(job'[v], source.profile.words)
      BY <1>3, <2>2
    <3> QED
      BY <1>1, <3>1, <3>2 DEF ProfileFollowed
  <2>5. ChronicleFollowed'
    <3>1. \A v \in Workers: Telling(job[v], told) => Telling(job'[v], told)
      BY <1>3, <2>3
    <3>2. \A v \in Workers: Outmoded(job'[v], told) =>
              \/ job'[v].late \/ events["chronicle"] > 0
              \/ \E u \in Workers: Telling(job[u], told)
      BY <1>3, <2>3 DEF ChronicleFollowed, told
    <3> QED
      BY <1>1, <3>1, <3>2 DEF ChronicleFollowed, told
  <2> QED
    BY <2>4, <2>5
<1>4. CASE /\ job'[w].phase = "reading" /\ job'[w].kind = job[w].kind
           /\ job[w].kind # "chronicle"
           /\ \A v \in Workers \ {w}: job'[v] = job[v]
  <2>1. /\ \A words: ~Stale(job'[w], words)
        /\ \A words: Eager(job[w], words) => Eager(job'[w], words)
        /\ ~Telling(job[w], told) /\ ~Outmoded(job'[w], told)
    BY <1>4 DEF Eager, Stale, Telling, Outmoded, Phases
  <2>2. \A v \in Workers \ {w}: Alike(job'[v], job[v])
    BY <1>4 DEF Alike
  <2>3. ChronicleFollowed'
    BY <1>1, <2>1, <2>2, ChronicleFrame
  <2>4. ProfileFollowed'
    <3>1. \A v \in Workers: Stale(job'[v], source.profile.words) => job'[v].late
      BY <1>4, <2>1 DEF ProfileFollowed
    <3>2. \A v \in Workers: Eager(job[v], source.profile.words)
              => Eager(job'[v], source.profile.words)
      BY <1>4, <2>1
    <3> QED
      BY <1>1, <3>1, <3>2 DEF ProfileFollowed
  <2> QED
    BY <2>3, <2>4
<1> QED
  BY <1>2, <1>3, <1>4, RecheckStep

\* Who writes something else than there is was overtaken, or has a successor.
LEMMA WriteFollowed ==
    ASSUME TypeInv, ProfileFollowed, ChronicleFollowed, NEW w \in Workers, Write(w)
    PROVE  ProfileFollowed' /\ ChronicleFollowed'
<1> DEFINE k == job[w].kind
           words == source.profile.words
           told == ChronicleText(source.chronicle)
<1>1. /\ Works(job[w]) /\ job[w].phase = "writing" /\ job' = Finished(w)
      /\ index'[k] = job[w].text
      /\ \A other \in Kinds \ {k}: index'[other] = index[other]
      /\ overtaken' = IF job[w].late /\ Differs(k, job[w].text)
                      THEN overtaken \cup {k} ELSE overtaken \ {k}
      /\ UNCHANGED <<source, events>>
  BY WriteStep
<1>2. /\ JobsOK /\ job'[w] = Idle
      /\ \A v \in Workers \ {w}: Alike(job'[v], job[v])
      /\ \A v \in Workers \ {w}: k = "chronicle" /\ Outmoded(job'[v], told)
                                    => job'[v].late
  BY <1>1, FinishedStep DEF TypeInv
<1>3. ~Stale(job'[w], words) /\ ~Outmoded(job'[w], told)
  BY <1>2, IdleFacts DEF Stale, Outmoded, Idle
<1>4. \A v \in Workers \ {w}:
          /\ Eager(job[v], words) => Eager(job'[v], words)
          /\ Stale(job'[v], words) => Stale(job[v], words)
          /\ Telling(job[v], told) => Telling(job'[v], told)
          /\ job[v].late /\ Works(job[v]) => job'[v].late
  BY <1>2, AlikeFields DEF JobsOK
<1>5. \A v \in Workers: Stale(job[v], words) => Works(job[v])
  BY <1>2 DEF JobsOK, Stale, Idle
<1>6. \A v \in Workers: Stale(job'[v], words) => job'[v].late
  BY <1>3, <1>4, <1>5 DEF ProfileFollowed
<1>7. CASE k = "profile"
  <2>1. index'.profile = job[w].text /\ index'.chronicle = index.chronicle
    BY <1>1, <1>7 DEF Kinds
  <2>2. index'.profile.words = words \/ "profile" \in overtaken'
    <3>1. CASE job[w].text.words = words
      BY <2>1, <3>1
    <3>2. CASE job[w].text.words # words
      <4>1. Stale(job[w], words) /\ Differs(k, job[w].text)
        BY <1>1, <1>7, <3>2 DEF Stale, Differs
      <4>2. job[w].late
        BY <4>1 DEF ProfileFollowed
      <4> QED
        BY <1>1, <1>7, <4>1, <4>2
    <3> QED
      BY <3>1, <3>2
  <2>3. ProfileFollowed'
    BY <1>1, <1>6, <2>2 DEF ProfileFollowed
  <2>4. ~Telling(job[w], told)
    BY <1>7 DEF Telling
  <2>5. "chronicle" \in overtaken => "chronicle" \in overtaken'
    BY <1>1, <1>7
  <2>6. ChronicleFollowed'
    BY <1>1, <1>2, <1>3, <2>1, <2>4, <2>5, ChronicleFrame
  <2> QED
    BY <2>3, <2>6
<1>8. CASE k # "profile"
  <2>1. index'.profile = index.profile
    BY <1>1, <1>8 DEF Kinds
  <2>2. ~Eager(job[w], words)
    BY <1>8 DEF Eager
  <2>3. "profile" \in overtaken => "profile" \in overtaken'
    BY <1>1, <1>8
  <2>4. ProfileFollowed'
    BY <1>1, <1>2, <1>3, <2>1, <2>2, <2>3, ProfileFrame
  <2>5. CASE k = "chronicle"
    <3>1. \A v \in Workers: Outmoded(job'[v], told) => job'[v].late
      BY <1>2, <1>3, <2>5
    <3>2. \/ index'.chronicle = told \/ "chronicle" \in overtaken'
          \/ events["chronicle"] > 0 \/ \E v \in Workers: Telling(job'[v], told)
      <4>1. CASE job[w].text = told
        BY <1>1, <2>5, <4>1
      <4>2. CASE job[w].text # told
        <5>1. Outmoded(job[w], told) /\ ~Telling(job[w], told)
          BY <1>1, <2>5, <4>2 DEF Outmoded, Telling
        <5>2. Differs(k, job[w].text)
          BY <2>5, <4>2 DEF Differs
        <5>3. job[w].late => "chronicle" \in overtaken'
          BY <1>1, <2>5, <5>2
        <5>4. \/ job[w].late \/ events["chronicle"] > 0
              \/ \E v \in Workers: Telling(job[v], told)
          BY <5>1 DEF ChronicleFollowed
        <5> QED
          BY <1>4, <5>1, <5>3, <5>4
      <4> QED
        BY <4>1, <4>2
    <3> HIDE DEF told
    <3>3. told = ChronicleText(source'.chronicle) /\ UNCHANGED events
      BY <1>1 DEF told
    <3> QED
      BY <2>4, <3>1, <3>2, <3>3 DEF ChronicleFollowed
  <2>6. CASE k # "chronicle"
    <3>1. /\ index'.chronicle = index.chronicle /\ ~Telling(job[w], told)
          /\ "chronicle" \in overtaken => "chronicle" \in overtaken'
      BY <1>1, <2>6 DEF Kinds, Telling
    <3>2. ChronicleFollowed'
      BY <1>1, <1>2, <1>3, <3>1, ChronicleFrame
    <3> QED
      BY <2>4, <3>2
  <2> QED
    BY <2>5, <2>6
<1> QED
  BY <1>7, <1>8

LEMMA FailFollowed ==
    ASSUME TypeInv, ProfileFollowed, ChronicleFollowed, NEW w \in Workers, FailJob(w)
    PROVE  ProfileFollowed' /\ ChronicleFollowed'
<1> DEFINE k == job[w].kind
<1>1. /\ Works(job[w]) /\ job'[w] = Idle /\ events'[k] > 0
      /\ \A other \in Kinds \ {k}: events'[other] = events[other]
      /\ \A v \in Workers \ {w}: job'[v] = job[v]
      /\ UNCHANGED <<source, index, overtaken>>
  BY FailStep
<1>2. /\ \A words: ~Stale(job'[w], words)
      /\ \A told: ~Outmoded(job'[w], told)
  BY <1>1, IdleFacts DEF Stale, Outmoded, Idle
<1>3. \A v \in Workers \ {w}: Alike(job'[v], job[v])
  BY <1>1 DEF Alike
<1>4. ProfileFollowed'
  <2>1. CASE k = "profile"
    <3>1. \A v \in Workers: Stale(job'[v], source.profile.words) => job'[v].late
      BY <1>1, <1>2 DEF ProfileFollowed
    <3> QED
      BY <1>1, <2>1, <3>1 DEF ProfileFollowed
  <2>2. CASE k # "profile"
    <3>1. /\ events'["profile"] = events["profile"]
          /\ ~Eager(job[w], source.profile.words)
      BY <1>1, <2>2 DEF Kinds, Eager
    <3> QED
      BY <1>1, <1>2, <1>3, <3>1, ProfileFrame
  <2> QED
    BY <2>1, <2>2
<1>5. ChronicleFollowed'
  <2>1. CASE k = "chronicle"
    BY <1>1, <2>1 DEF ChronicleFollowed
  <2>2. CASE k # "chronicle"
    <3>1. /\ events'["chronicle"] = events["chronicle"]
          /\ ~Telling(job[w], ChronicleText(source.chronicle))
      BY <1>1, <2>2 DEF Kinds, Telling
    <3> QED
      BY <1>1, <1>2, <1>3, <3>1, ChronicleFrame
  <2> QED
    BY <2>1, <2>2
<1> QED
  BY <1>4, <1>5

LEMMA NextFollowed ==
    ASSUME TypeInv, Followed, [Next]_vars
    PROVE  Followed'
<1>1. BatchSound /\ ProfileFollowed /\ ChronicleFollowed
  BY DEF Followed
<1>2. BatchSound'
  BY <1>1, BatchSoundKept
<1>3. CASE UNCHANGED vars
  BY <1>1, <1>2, <1>3, BatchFollowed DEF Followed
<1>4. CASE \E t \in Profiles: ChangeObject(t) \/ PatchObject(t)
  BY <1>1, <1>2, <1>4, ChangeFollowed, BatchFollowed DEF Followed, Batching
<1>5. CASE \/ \E t \in MaybeText: PatchTurn(t)
           \/ \E l \in Links: AddLink(l) \/ PatchLink(l) \/ PatchUnlink(l)
           \/ BeginBatch \/ Flush \/ CommitBatch \/ RollbackBatch
  BY <1>1, <1>2, <1>5, ChangeFollowed, BatchFollowed, CommitFollowed
  DEF Followed, Batching
<1>6. CASE \E w \in Workers:
              \/ \E k \in Kinds: Take(w, k)
              \/ Read(w) \/ Recheck(w) \/ Write(w) \/ FailJob(w)
  BY <1>1, <1>2, <1>6, TakeFollowed, ReadFollowed, RecheckFollowed,
     WriteFollowed, FailFollowed DEF Followed
<1> QED
  BY <1>3, <1>4, <1>5, <1>6 DEF Next

LEMMA InitFollowed == Init => Followed
<1> SUFFICES ASSUME Init PROVE Followed
  OBVIOUS
<1>1. \A w \in Workers: job[w] = Idle
  BY DEF Init
<1>2. \A w \in Workers: /\ \A words: ~Stale(job[w], words)
                        /\ \A told: ~Outmoded(job[w], told)
  BY <1>1, IdleFacts DEF Stale, Outmoded, Idle
<1>3. events["profile"] > 0 /\ events["chronicle"] > 0
  BY DEF Init, Kinds
<1>4. BatchSound
  BY DEF Init, BatchSound, NoBatch
<1> QED
  BY <1>2, <1>3, <1>4 DEF Followed, ProfileFollowed, ChronicleFollowed
-----------------------------------------------------------------------------
(* The theorems. *)

LEMMA Inductive == Spec => [](TypeInv /\ Followed)
<1>1. TypeInv /\ Followed /\ [Next]_vars => TypeInv' /\ Followed'
  BY NextType, NextFollowed DEF Followed
<1> QED
  BY <1>1, InitType, InitFollowed, PTL DEF Spec

\* Nothing is left to be done only when the object is found by the words it has,
\* and the turn by what it is told by, or when the job that wrote the vector was
\* overtaken: after its last look the words changed, or another job for the turn
\* ended (_run_object_profile_refresh_outbox_event,
\* _sync_turn_chronicle_embeddings).
THEOREM IndexCorrect == Spec => []IndexIsCurrent
<1>1. TypeInv /\ Followed => IndexIsCurrent
  <2> SUFFICES ASSUME TypeInv, Followed, Quiet
               PROVE  /\ "profile" \notin overtaken =>
                            index.profile.words = source.profile.words
                      /\ "chronicle" \notin overtaken =>
                            index.chronicle = ChronicleText(source.chronicle)
    BY DEF IndexIsCurrent
  <2>1. /\ events["profile"] = 0 /\ events["chronicle"] = 0
        /\ \A w \in Workers: job[w] = Idle
    BY DEF Quiet, Kinds
  <2>2. \A w \in Workers: /\ \A words: ~Eager(job[w], words)
                          /\ \A told: ~Telling(job[w], told)
    BY <2>1, IdleFacts DEF Eager, Telling, Phases, Idle
  <2> QED
    BY <2>1, <2>2 DEF Followed, ProfileFollowed, ChronicleFollowed
<1> QED
  BY <1>1, Inductive, PTL

\* Other words of an object are committed together with their vector or with an
\* event for it, however a batch came to them, and what a turn is told by
\* changes with an event only (_should_refresh_npc_profile_embedding and the
\* like, _enqueue_object_profile_refresh_event, patch_turn).
THEOREM ChangesCorrect == Spec => ChangesAreFollowed
<1>1. ASSUME TypeInv, Followed, [Next]_vars
      PROVE  /\ source'.profile.words # source.profile.words =>
                    \/ events'["profile"] > events["profile"]
                    \/ index'.profile.words = source'.profile.words
             /\ ChronicleText(source'.chronicle) # ChronicleText(source.chronicle) =>
                    events'["chronicle"] > events["chronicle"]
  <2>1. CASE \/ \E t \in Profiles: ChangeObject(t)
             \/ \E t \in MaybeText: PatchTurn(t)
             \/ \E l \in Links: AddLink(l)
    BY <1>1, <2>1, ChangeObjectStep, PatchTurnStep, AddLinkStep
  <2>2. CASE CommitBatch
    BY <1>1, <2>2, CommitStep DEF Followed
  <2>3. CASE Batching \/ UNCHANGED vars
    <3>1. UNCHANGED source
      BY <2>3, BatchFrame DEF vars
    <3> QED
      BY <3>1
  <2>4. CASE \E w \in Workers:
                \/ \E k \in Kinds: Take(w, k)
                \/ Read(w) \/ Recheck(w) \/ Write(w) \/ FailJob(w)
    <3>1. UNCHANGED source
      BY <2>4 DEF Take, Read, Recheck, Write, FailJob
    <3> QED
      BY <3>1
  <2> QED
    BY <1>1, <2>1, <2>2, <2>3, <2>4 DEF Next, Batching
<1>2. TypeInv /\ Followed /\ [Next]_vars =>
          [/\ source'.profile.words # source.profile.words =>
                  \/ events'["profile"] > events["profile"]
                  \/ index'.profile.words = source'.profile.words
           /\ ChronicleText(source'.chronicle) # ChronicleText(source.chronicle) =>
                  events'["chronicle"] > events["chronicle"]]_vars
  BY <1>1
<1> QED
  BY <1>2, Inductive, PTL DEF Spec, ChangesAreFollowed
-----------------------------------------------------------------------------
(***************************************************************************)
(* The narrative spine and the chunks of the world prompt.                 *)
(***************************************************************************)
HIDE TextsAssumption
HIDE BoundsAssumption
USE PromptTextsAssumption

LEMMA SameCardinality == \A S : T!Cardinality(S) = Cardinality(S)
  BY DEF Cardinality, T!Cardinality

LEMMA MaxOfTwo ==
    ASSUME NEW m \in Int, NEW n \in Int
    PROVE  T!Max({m, n}) = IF m >= n THEN m ELSE n
<1> DEFINE top == IF m >= n THEN m ELSE n
<1>1. top \in {m, n} /\ \A y \in {m, n} : top >= y
  OBVIOUS
<1>2. \A x \in {m, n} : (\A y \in {m, n} : x >= y) => x = top
  OBVIOUS
<1> QED
  BY <1>1, <1>2 DEF T!Max

Spine == [at : Nat, told : SUBSET (Nat \ {0})]
TellsItsTurns(s) == s \in Spine /\ s.told \subseteq 1..s.at

\* The turns that a spine has passed over for good.
PassedOver(s) == (1..s.at) \ s.told

\* The turns that an update after turn t would have passed over by then.
Lost(s, t) == IF t - s.at > Cadence THEN t - s.at - Cadence ELSE 0

\* What the spine has lost, and would lose now, has been paid for.
IsPaidFor(s, t) ==
    /\ TellsItsTurns(s) /\ s.at <= t
    /\ Cardinality(PassedOver(s)) + Lost(s, t) <= missed

\* While a turn is planned the spine is the one that was handed over; a turn
\* that has been planned can be committed without loss.
PlannerOK ==
    \/ planner = T!Idle
    \/ /\ planner = [phase |-> "telling", at |-> turn,
                     told |-> spine.told \cup T!SourceTurns]
       /\ T!Due /\ turn < MaxTurns
    \/ /\ planner = [phase |-> "planned"]
       /\ turn < MaxTurns /\ IsPaidFor(spine, turn + 1)

StoryInv ==
    /\ turn \in 0..MaxTurns /\ missed \in Nat
    /\ saved = [turn |-> saved.turn, spine |-> saved.spine]
    /\ saved.turn \in 0..MaxTurns
    /\ IsPaidFor(spine, turn) /\ IsPaidFor(saved.spine, saved.turn)
    /\ PlannerOK

LEMMA SkippedTurns ==
    ASSUME NEW s, TellsItsTurns(s)
    PROVE  IsFiniteSet(PassedOver(s)) /\ Cardinality(PassedOver(s)) \in Nat
<1>1. IsFiniteSet(1..s.at)
  BY FS_Interval DEF TellsItsTurns, Spine
<1> QED
  BY <1>1, FS_Subset, FS_CardinalityType DEF PassedOver

\* Time, and a failure, only make what is due greater by one.
LEMMA LostByOne ==
    ASSUME NEW s, TellsItsTurns(s), NEW t \in Nat, s.at <= t
    PROVE  /\ Lost(s, t) \in Nat /\ Lost(s, t) <= Lost(s, t + 1)
           /\ Lost(s, t + 1) <= Lost(s, t) + 1
           /\ t - s.at < Cadence => Lost(s, t + 1) = 0
BY DEF Lost, TellsItsTurns, Spine

\* An update tells the turns that it is handed, and passes over what lies
\* between them and the last one.
LEMMA UpdatedSpine ==
    ASSUME StoryInv, T!Due,
           NEW s, s = [at |-> turn, told |-> spine.told \cup T!SourceTurns]
    PROVE  IsPaidFor(s, turn) /\ IsPaidFor(s, turn + 1)
<1> USE DEF IsPaidFor, TellsItsTurns, Spine
<1>1. /\ turn \in Nat /\ spine.at \in Nat /\ spine.told \subseteq 1..spine.at
      /\ turn - spine.at >= Cadence /\ missed \in Nat
  BY DEF StoryInv, T!Due
<1> DEFINE first == IF 1 >= turn - Cadence + 1 THEN 1 ELSE turn - Cadence + 1
           gap == (spine.at + 1)..(turn - Cadence)
<1>2. T!SourceTurns = first..turn
  BY <1>1, MaxOfTwo DEF T!SourceTurns
<1>3. first \in Nat \ {0} /\ first <= turn
  BY <1>1
<1>4. s.at = turn /\ s.told = spine.told \cup (first..turn)
  BY <1>2
<1>5. s.told \subseteq 1..turn /\ s \in Spine
  BY <1>1, <1>3, <1>4
<1>6. PassedOver(s) \subseteq PassedOver(spine) \cup gap
  BY <1>1, <1>4 DEF PassedOver
<1>7. IsFiniteSet(gap) /\ Cardinality(gap) = Lost(spine, turn)
  <2>1. spine.at + 1 \in Int /\ turn - Cadence \in Int
    BY <1>1
  <2>2. /\ IsFiniteSet(gap)
        /\ Cardinality(gap) = IF spine.at + 1 > turn - Cadence THEN 0
                              ELSE (turn - Cadence) - (spine.at + 1) + 1
    BY <2>1, FS_Interval
  <2> HIDE DEF gap
  <2> QED
    BY <1>1, <2>2 DEF Lost
<1>8. IsFiniteSet(PassedOver(spine)) /\ Cardinality(PassedOver(spine)) \in Nat
  BY SkippedTurns DEF StoryInv
<1> HIDE DEF gap
<1>9. /\ IsFiniteSet(PassedOver(spine) \cup gap)
      /\ Cardinality(PassedOver(spine) \cup gap)
            = Cardinality(PassedOver(spine)) + Cardinality(gap)
                - Cardinality(PassedOver(spine) \cap gap)
      /\ Cardinality(PassedOver(spine) \cap gap) \in Nat
  BY <1>7, <1>8, FS_Union, FS_Intersection, FS_CardinalityType
<1>10. /\ Cardinality(PassedOver(s)) <= Cardinality(PassedOver(spine) \cup gap)
       /\ Cardinality(PassedOver(s)) \in Nat
  BY <1>6, <1>9, FS_Subset, FS_CardinalityType
<1>11. /\ Cardinality(PassedOver(spine)) + Lost(spine, turn) <= missed
       /\ Lost(spine, turn) \in Nat
  BY <1>1, LostByOne DEF StoryInv
<1>12. Cardinality(PassedOver(s)) <= missed
  BY <1>1, <1>7, <1>8, <1>9, <1>10, <1>11
<1>13. Lost(s, turn) = 0 /\ Lost(s, turn + 1) = 0
  BY <1>1, <1>4 DEF Lost
<1> QED
  BY <1>1, <1>4, <1>5, <1>10, <1>12, <1>13

LEMMA InitStory == ASSUME T!Init PROVE StoryInv
<1>1. /\ turn = 0 /\ missed = 0 /\ planner = T!Idle
      /\ spine = [at |-> 0, told |-> {}]
      /\ saved = [turn |-> 0, spine |-> [at |-> 0, told |-> {}]]
  BY DEF T!Init, T!NoSpine
<1>2. spine.at = 0 /\ spine.told = {} /\ spine \in Spine
  BY <1>1 DEF Spine
<1>3. PassedOver(spine) = {} /\ Lost(spine, 0) = 0
  BY <1>2 DEF PassedOver, Lost
<1>4. Cardinality(PassedOver(spine)) = 0
  BY <1>3, FS_EmptySet
<1>5. IsPaidFor(spine, 0)
  BY <1>1, <1>2, <1>3, <1>4 DEF IsPaidFor, TellsItsTurns
<1> QED
  BY <1>1, <1>5 DEF StoryInv, PlannerOK

\* A failure pays for one turn, whichever spine it is about.
LEMMA PaidForByOneMore ==
    ASSUME NEW s, NEW t \in Nat, IsPaidFor(s, t), missed \in Nat,
           missed' = missed + 1
    PROVE  /\ IsPaidFor(s, t)' /\ IsPaidFor(s, t + 1)'
<1>1. TellsItsTurns(s) /\ s.at <= t /\ s.at \in Nat
  BY DEF IsPaidFor, TellsItsTurns, Spine
<1>2. /\ Lost(s, t) \in Nat /\ Lost(s, t + 1) <= Lost(s, t) + 1
      /\ Lost(s, t + 1) \in Nat
  BY <1>1, LostByOne DEF Lost
<1>3. Cardinality(PassedOver(s)) \in Nat
  BY <1>1, SkippedTurns
<1>4. Cardinality(PassedOver(s)) + Lost(s, t) <= missed
  BY DEF IsPaidFor
<1>5. /\ Cardinality(PassedOver(s)) + Lost(s, t) <= missed + 1
      /\ Cardinality(PassedOver(s)) + Lost(s, t + 1) <= missed + 1
  BY <1>2, <1>3, <1>4
<1>6. s.at <= t + 1
  BY <1>1
<1> QED
  BY <1>1, <1>5, <1>6 DEF IsPaidFor

LEMMA StoryStep == ASSUME StoryInv, [T!Next]_(T!vars) PROVE StoryInv'
<1> DEFINE story == <<turn, spine, saved, planner, missed>>
<1>1. /\ turn \in Nat /\ missed \in Nat /\ turn \in 0..MaxTurns
      /\ saved.turn \in Nat
      /\ IsPaidFor(spine, turn) /\ IsPaidFor(saved.spine, saved.turn)
      /\ TellsItsTurns(spine) /\ spine.at <= turn
  BY DEF StoryInv, IsPaidFor
<1>2. CASE UNCHANGED story
  BY <1>2 DEF StoryInv, PlannerOK, IsPaidFor, T!Due, T!SourceTurns
<1>3. CASE T!BeginPlan
  <2>1. /\ planner = T!Idle /\ turn < MaxTurns
        /\ planner' = IF T!Due THEN [phase |-> "telling", at |-> turn,
                                     told |-> spine.told \cup T!SourceTurns]
                      ELSE [phase |-> "planned"]
        /\ UNCHANGED <<turn, spine, saved, missed>>
    BY <1>3 DEF T!BeginPlan
  <2>2. CASE T!Due
    BY <2>1, <2>2 DEF StoryInv, PlannerOK, IsPaidFor, T!Due, T!SourceTurns
  <2>3. CASE ~T!Due
    <3>1. Lost(spine, turn + 1) = 0 /\ Lost(spine, turn) \in Nat
      BY <1>1, <2>3, LostByOne DEF T!Due, TellsItsTurns, Spine
    <3>2. Cardinality(PassedOver(spine)) \in Nat
      BY <1>1, SkippedTurns
    <3>3. IsPaidFor(spine, turn + 1)
      BY <1>1, <3>1, <3>2 DEF IsPaidFor, TellsItsTurns, Spine
    <3> QED
      BY <2>1, <2>3, <3>3 DEF StoryInv, PlannerOK, IsPaidFor
  <2> QED
    BY <2>2, <2>3
<1>4. CASE T!WriteSpine
  <2>1. /\ planner.phase = "telling"
        /\ spine' = IF spine.at >= planner.at THEN spine
                    ELSE [at |-> planner.at, told |-> planner.told]
        /\ planner' = [phase |-> "planned"]
        /\ UNCHANGED <<turn, saved, missed>>
    BY <1>4 DEF T!WriteSpine
  <2>2. /\ planner = [phase |-> "telling", at |-> turn,
                      told |-> spine.told \cup T!SourceTurns]
        /\ T!Due /\ turn < MaxTurns
    BY <2>1 DEF StoryInv, PlannerOK, T!Idle
  <2>3. spine' = [at |-> turn, told |-> spine.told \cup T!SourceTurns]
    BY <1>1, <2>1, <2>2 DEF T!Due, TellsItsTurns, Spine
  <2>4. IsPaidFor(spine', turn) /\ IsPaidFor(spine', turn + 1)
    BY <2>2, <2>3, UpdatedSpine
  <2>5. IsPaidFor(spine, turn)' /\ IsPaidFor(spine, turn + 1)'
    BY <2>1, <2>4 DEF IsPaidFor
  <2> QED
    BY <2>1, <2>2, <2>5 DEF StoryInv, PlannerOK, IsPaidFor
<1>5. CASE T!FailSpine
  <2>1. /\ planner.phase = "telling" /\ missed' = missed + 1
        /\ planner' = [phase |-> "planned"]
        /\ UNCHANGED <<turn, spine, saved>>
    BY <1>5 DEF T!FailSpine
  <2>2. turn < MaxTurns
    BY <2>1 DEF StoryInv, PlannerOK, T!Idle
  <2>3. /\ IsPaidFor(spine, turn)' /\ IsPaidFor(spine, turn + 1)'
        /\ IsPaidFor(saved.spine, saved.turn)'
    BY <1>1, <2>1, PaidForByOneMore
  <2> QED
    BY <1>1, <2>1, <2>2, <2>3 DEF StoryInv, PlannerOK
<1>6. CASE T!FailPlan
  BY <1>6 DEF T!FailPlan, StoryInv, PlannerOK, IsPaidFor
<1>7. CASE T!CommitTurn
  <2>1. /\ planner.phase = "planned" /\ turn' = turn + 1 /\ planner' = T!Idle
        /\ UNCHANGED <<spine, saved, missed>>
    BY <1>7 DEF T!CommitTurn
  <2>2. turn < MaxTurns /\ IsPaidFor(spine, turn + 1)
    BY <2>1 DEF StoryInv, PlannerOK, T!Idle
  <2>3. IsPaidFor(spine, turn)' /\ IsPaidFor(saved.spine, saved.turn)'
    BY <1>1, <2>1, <2>2 DEF IsPaidFor
  <2>4. turn' \in 0..MaxTurns
    BY <1>1, <2>1, <2>2
  <2> QED
    BY <2>1, <2>3, <2>4 DEF StoryInv, PlannerOK
<1>8. CASE T!CommitUnplanned
  <2>1. /\ planner = T!Idle /\ turn < MaxTurns
        /\ turn' = turn + 1 /\ missed' = missed + 1
        /\ UNCHANGED <<spine, saved, planner>>
    BY <1>8 DEF T!CommitUnplanned
  <2>2. /\ TellsItsTurns(spine) /\ spine.at <= turn + 1
        /\ Cardinality(PassedOver(spine)) + Lost(spine, turn + 1) <= missed + 1
        /\ IsPaidFor(saved.spine, saved.turn)'
    BY <1>1, <2>1, PaidForByOneMore DEF IsPaidFor
  <2>3. IsPaidFor(spine, turn)'
    BY <2>1, <2>2 DEF IsPaidFor
  <2>4. turn' \in 0..MaxTurns /\ missed' \in Nat
    BY <1>1, <2>1
  <2> QED
    BY <2>1, <2>2, <2>3, <2>4 DEF StoryInv, PlannerOK
<1>9. CASE T!Capture
  <2>1. /\ saved' = [turn |-> turn, spine |-> spine]
        /\ planner = T!Idle /\ UNCHANGED <<turn, spine, planner, missed>>
    BY <1>9 DEF T!Capture
  <2>2. saved'.turn = turn /\ saved'.spine = spine
    BY <2>1
  <2>3. IsPaidFor(spine, turn)' /\ IsPaidFor(saved.spine, saved.turn)'
    BY <1>1, <2>1, <2>2 DEF IsPaidFor
  <2> QED
    BY <1>1, <2>1, <2>2, <2>3 DEF StoryInv, PlannerOK
<1>10. CASE T!Restore
  <2>1. /\ planner = T!Idle /\ turn' = saved.turn /\ spine' = saved.spine
        /\ UNCHANGED <<saved, planner, missed>>
    BY <1>10 DEF T!Restore
  <2>2. IsPaidFor(spine, turn)' /\ IsPaidFor(saved.spine, saved.turn)'
    BY <1>1, <2>1 DEF IsPaidFor
  <2> QED
    BY <2>1, <2>2 DEF StoryInv, PlannerOK
<1> QED
  BY <1>2, <1>3, <1>4, <1>5, <1>6, <1>7, <1>8, <1>9, <1>10
     DEF T!Next, T!vars, T!storyVars, T!BeginIndex, T!FinishIndex, T!FailIndex,
         T!ChangePrompt

\* Chunks are of the prompt that was reported, and written by one indexer.
ChunksInv ==
    /\ prompt \in Prompts /\ reported \in Prompts \cup {NoPrompt}
    /\ indexer = [i \in Indexers |-> indexer[i]]
    /\ \A i \in Indexers :
          indexer[i] # T!Idle => indexer[i].of \in Prompts
    /\ IF reported = NoPrompt THEN chunks = {}
       ELSE \E i \in Indexers : chunks = {[of |-> reported, by |-> i]}

LEMMA ChunksStep == ASSUME ChunksInv, [T!Next]_(T!vars) PROVE ChunksInv'
<1>1. CASE UNCHANGED <<prompt, chunks, indexer, reported, edits>>
  BY <1>1 DEF ChunksInv
<1>2. ASSUME NEW i \in Indexers, T!BeginIndex(i) PROVE ChunksInv'
  <2>1. CASE T!HasIndex(prompt)
    <3>1. \E c \in chunks : c.of = prompt
      BY <2>1 DEF T!HasIndex
    <3>2. reported' = prompt /\ UNCHANGED <<prompt, chunks, indexer>>
      BY <1>2, <2>1 DEF T!BeginIndex
    <3>3. reported = prompt
      BY <3>1 DEF ChunksInv
    <3> QED
      BY <3>2, <3>3 DEF ChunksInv
  <2>2. CASE ~T!HasIndex(prompt)
    <3>1. /\ indexer' = [indexer EXCEPT ![i] = [phase |-> "embedding", of |-> prompt]]
          /\ UNCHANGED <<prompt, chunks, reported>>
      BY <1>2, <2>2 DEF T!BeginIndex
    <3>2. /\ indexer' = [j \in Indexers |-> indexer'[j]]
          /\ \A j \in Indexers :
                indexer'[j] = IF j = i THEN [phase |-> "embedding", of |-> prompt]
                              ELSE indexer[j]
      BY <3>1 DEF ChunksInv
    <3> QED
      BY <3>1, <3>2 DEF ChunksInv
  <2> QED
    BY <2>1, <2>2
<1>3. ASSUME NEW i \in Indexers, T!FinishIndex(i) PROVE ChunksInv'
  <2> DEFINE p == indexer[i].of
  <2>1. /\ p \in Prompts /\ reported' = p /\ UNCHANGED prompt
        /\ indexer' = [indexer EXCEPT ![i] = T!Idle]
        /\ IF T!HasIndex(p) THEN UNCHANGED chunks ELSE T!WriteChunks(i, p)
    BY <1>3 DEF T!FinishIndex, ChunksInv
  <2>2. /\ indexer' = [j \in Indexers |-> indexer'[j]]
        /\ \A j \in Indexers : indexer'[j] = IF j = i THEN T!Idle ELSE indexer[j]
    BY <2>1 DEF ChunksInv
  <2>3. \E j \in Indexers : chunks' = {[of |-> p, by |-> j]}
    <3>1. CASE T!HasIndex(p)
      BY <2>1, <3>1 DEF T!HasIndex, ChunksInv
    <3>2. CASE ~T!HasIndex(p)
      BY <2>1, <3>2 DEF T!WriteChunks
    <3> QED
      BY <3>1, <3>2
  <2> HIDE DEF p
  <2> QED
    BY <2>1, <2>2, <2>3 DEF ChunksInv
<1>4. ASSUME NEW i \in Indexers, T!FailIndex(i) PROVE ChunksInv'
  <2>1. /\ indexer' = [indexer EXCEPT ![i] = T!Idle]
        /\ UNCHANGED <<prompt, chunks, reported>>
    BY <1>4 DEF T!FailIndex
  <2>2. /\ indexer' = [j \in Indexers |-> indexer'[j]]
        /\ \A j \in Indexers : indexer'[j] = IF j = i THEN T!Idle ELSE indexer[j]
    BY <2>1 DEF ChunksInv
  <2> QED
    BY <2>1, <2>2 DEF ChunksInv
<1>5. ASSUME NEW p \in Prompts, T!ChangePrompt(p) PROVE ChunksInv'
  BY <1>5 DEF T!ChangePrompt, ChunksInv
<1> QED
  BY <1>1, <1>2, <1>3, <1>4, <1>5
     DEF T!Next, T!vars, T!chunkVars, T!BeginPlan, T!WriteSpine, T!FailSpine,
         T!FailPlan, T!CommitTurn, T!CommitUnplanned, T!Capture, T!Restore

\* The spine tells no turn that was undone and passes over no more turns than
\* failed updates and turns without a pack have cost it, however turns,
\* failures, snapshots and restores follow each other; and the chunks of the
\* world prompt are those of the prompt that was reported last, whichever
\* indexers meet (_update_narrative_spine, _ensure_world_prompt_chunks_indexed).
THEOREM TextsCorrect == T!Spec => []TextsAreSound
<1>1. T!Init => StoryInv /\ ChunksInv
  <2>1. T!Init => ChunksInv
    BY DEF T!Init, ChunksInv
  <2> QED
    BY <2>1, InitStory
<1>2. StoryInv /\ ChunksInv /\ [T!Next]_(T!vars) => StoryInv' /\ ChunksInv'
  BY StoryStep, ChunksStep
<1>3. StoryInv /\ ChunksInv => TextsAreSound
  <2> SUFFICES ASSUME StoryInv, ChunksInv PROVE TextsAreSound
    OBVIOUS
  <2>1. T!TypeOK
    BY DEF T!TypeOK, StoryInv, ChunksInv, IsPaidFor, TellsItsTurns, Spine
  <2>2. T!SpineTellsTheStory
    <3>1. TellsItsTurns(spine) /\ spine.at <= turn /\ turn \in Nat /\ missed \in Nat
      BY DEF StoryInv, IsPaidFor
    <3>2. Cardinality(PassedOver(spine)) \in Nat /\ Lost(spine, turn) \in Nat
      BY <3>1, SkippedTurns, LostByOne
    <3>3. Cardinality(PassedOver(spine)) <= missed
      BY <3>1, <3>2 DEF StoryInv, IsPaidFor
    <3> QED
      BY <3>1, <3>3, SameCardinality DEF T!SpineTellsTheStory, PassedOver
  <2>3. T!ChunksAreOfOnePrompt
    <3>1. CASE reported = NoPrompt
      <4>1. chunks = {} /\ T!Cardinality(chunks) = 0
        BY <3>1, FS_EmptySet, SameCardinality DEF ChunksInv
      <4> QED
        BY <3>1, <4>1 DEF T!ChunksAreOfOnePrompt, T!RelevantChunks
    <3>2. CASE reported # NoPrompt
      <4>1. PICK i \in Indexers : chunks = {[of |-> reported, by |-> i]}
        BY <3>2 DEF ChunksInv
      <4>2. T!Cardinality(chunks) = 1
        BY <4>1, FS_Singleton, SameCardinality
      <4>3. chunks = T!RelevantChunks(reported)
        BY <4>1 DEF T!RelevantChunks
      <4> QED
        BY <3>2, <4>2, <4>3 DEF T!ChunksAreOfOnePrompt
    <3> QED
      BY <3>1, <3>2
  <2> QED
    BY <2>1, <2>2, <2>3 DEF TextsAreSound, T!TextsAreSound
<1> QED
  BY <1>1, <1>2, <1>3, PTL DEF T!Spec
-----------------------------------------------------------------------------
(***************************************************************************)
(* The objects of a patch.                                                 *)
(***************************************************************************)
HIDE PromptTextsAssumption
USE ObjectsAssumption

Maybe == O!Row \cup {O!NoRow}
Texted == [sort : O!Sorts, desc : O!Words, fact : O!Words, by : {"model", "plain"}]
Key == [sort : O!Sorts, brief : BOOLEAN, desc : O!Words, fact : O!Words,
        status : O!Words]
Question == [incoming : Texted, candidate : Texted, vector : Texted]
Table == [Ids -> Maybe]
VectorTable == [Ids -> Texted \cup {O!Untold}]
Operation == O!Creation \cup O!Update

LEMMA NoneDiffers ==
    /\ O!NoRow \notin O!Row /\ O!Untold \notin Texted
    /\ \A r \in O!Row : r.sort # "none"
<1>1. "none" \notin O!Sorts
  BY DEF O!Sorts
<1>2. \A r \in O!Row : r.sort \in O!Sorts
  BY DEF O!Row
<1>3. \A x \in Texted : x.sort \in O!Sorts
  BY DEF Texted
<1>4. O!NoRow.sort = "none" /\ O!Untold.sort = "none"
  BY DEF O!NoRow, O!Untold
<1> QED
  BY <1>1, <1>2, <1>3, <1>4

\* What texts, keys and questions are made of tells them apart.
LEMMA KindsDiffer ==
    ASSUME NEW x
    PROVE  /\ ~(x \in Texted /\ x \in Key)
           /\ ~(x \in Texted /\ x \in Question)
           /\ ~(x \in Key /\ x \in Question)
<1>1. x \in Texted => DOMAIN x = {"sort", "desc", "fact", "by"}
  BY DEF Texted
<1>2. x \in Key => DOMAIN x = {"sort", "brief", "desc", "fact", "status"}
  BY DEF Key
<1>3. x \in Question => DOMAIN x = {"incoming", "candidate", "vector"}
  BY DEF Question
<1>4. /\ "by" \notin {"sort", "brief", "desc", "fact", "status"}
      /\ "by" \notin {"incoming", "candidate", "vector"}
      /\ "sort" \notin {"incoming", "candidate", "vector"}
  OBVIOUS
<1> QED
  BY <1>1, <1>2, <1>3, <1>4

\* A text says of a row, or of its key, what the row says.
Says(text, row) ==
    text.sort = row.sort /\ text.desc = row.desc /\ text.fact = row.fact

\* What is stored by key.
TextsOK(f) ==
    /\ f = [k \in DOMAIN f |-> f[k]]
    /\ \A k \in DOMAIN f : k \in Key /\ f[k] \in Texted /\ Says(f[k], k)

LEMMA KeyFacts ==
    ASSUME NEW row \in O!Row
    PROVE  O!CacheKey(row) \in Key /\ \A x : Says(x, O!CacheKey(row)) <=> Says(x, row)
<1>1. /\ row.sort \in O!Sorts /\ row.brief \in BOOLEAN /\ row.desc \in O!Words
      /\ row.fact \in O!Words /\ row.status \in O!Words
  BY DEF O!Row
<1>2. O!CacheKey(row) \in Key
  BY <1>1, Zenon DEF O!CacheKey, Key
<1>3. /\ O!CacheKey(row).sort = row.sort /\ O!CacheKey(row).desc = row.desc
      /\ O!CacheKey(row).fact = row.fact
  BY DEF O!CacheKey
<1> QED
  BY <1>2, <1>3 DEF Says

LEMMA ProfileFacts ==
    ASSUME NEW row \in O!Row, NEW by \in {"model", "plain"}
    PROVE  O!Profile(row, by) \in Texted /\ Says(O!Profile(row, by), row)
<1>1. row.sort \in O!Sorts /\ row.desc \in O!Words /\ row.fact \in O!Words
  BY DEF O!Row
<1> QED
  BY <1>1 DEF O!Profile, Texted, Says

LEMMA LearntTexts ==
    ASSUME NEW f, TextsOK(f), NEW row \in O!Row, NEW text \in Texted, Says(text, row),
           NEW g, g = O!With(f, O!CacheKey(row), text)
    PROVE  TextsOK(g)
<1> DEFINE k == O!CacheKey(row)
<1>1. k \in Key /\ Says(text, k) /\ g = O!With(f, k, text)
  BY KeyFacts
<1> HIDE DEF k
<1>2. /\ DOMAIN g = DOMAIN f \cup {k} /\ g = [x \in DOMAIN g |-> g[x]]
      /\ g[k] = text /\ \A x \in DOMAIN f : x # k => g[x] = f[x]
  BY <1>1 DEF O!With
<1> QED
  BY <1>1, <1>2 DEF TextsOK

\* The texts there are, in the cache and among the answers.
TextsAreStored == TextsOK(cache) /\ TextsOK(artifacts.texts)

LEMMA TextTells ==
    ASSUME TextsAreStored, NEW row \in O!Row
    PROVE  /\ O!TextOf(row) \in Texted \cup {O!Untold}
           /\ O!TextOf(row) # O!Untold =>
                 O!TextOf(row) \in Texted /\ Says(O!TextOf(row), row)
           /\ O!TextOf(row) = O!Untold => O!CacheKey(row) \notin DOMAIN artifacts.texts
<1>1. O!CacheKey(row) \in Key /\ \A x : Says(x, O!CacheKey(row)) <=> Says(x, row)
  BY KeyFacts
<1>2. CASE O!CacheKey(row) \in DOMAIN cache
  <2>1. O!TextOf(row) = cache[O!CacheKey(row)]
    BY <1>2 DEF O!TextOf
  <2> QED
    BY <1>1, <1>2, <2>1, NoneDiffers DEF TextsAreStored, TextsOK
<1>3. CASE /\ O!CacheKey(row) \notin DOMAIN cache
           /\ O!CacheKey(row) \in DOMAIN artifacts.texts
  <2>1. O!TextOf(row) = artifacts.texts[O!CacheKey(row)]
    BY <1>3 DEF O!TextOf
  <2> QED
    BY <1>1, <1>3, <2>1, NoneDiffers DEF TextsAreStored, TextsOK
<1>4. CASE /\ O!CacheKey(row) \notin DOMAIN cache
           /\ O!CacheKey(row) \notin DOMAIN artifacts.texts
  BY <1>4 DEF O!TextOf
<1> QED
  BY <1>2, <1>3, <1>4

LEMMA SynthesizedTells ==
    ASSUME TextsAreStored, NEW row \in O!Row, NEW by \in {"model", "plain"}
    PROVE  O!Synthesized(row, by) \in Texted /\ Says(O!Synthesized(row, by), row)
  BY KeyFacts, ProfileFacts DEF O!Synthesized, TextsAreStored, TextsOK

\* The answers there are; what has been asked for is among them.
ArtifactsOK ==
    /\ artifacts = [texts |-> artifacts.texts, vectors |-> artifacts.vectors,
                    verdicts |-> artifacts.verdicts]
    /\ artifacts.vectors \subseteq Texted
    /\ artifacts.verdicts = [q \in DOMAIN artifacts.verdicts |-> artifacts.verdicts[q]]
    /\ \A q \in DOMAIN artifacts.verdicts :
          q \in Question /\ artifacts.verdicts[q] \in BOOLEAN
Answered ==
    DOMAIN artifacts.texts \cup artifacts.vectors \cup DOMAIN artifacts.verdicts

VerdictRequest(q) == [kind |-> "verdict", question |-> q]

\* A request for what is not there.
IsRequest(r) ==
    \/ \E row \in O!Row : r = O!TextRequest(row)
    \/ \E texts \in SUBSET Texted : r = O!VectorRequest(texts)
    \/ \E q \in Question : r = VerdictRequest(q)
FreshRequest(r) ==
    \/ \E row \in O!Row :
          /\ r = O!TextRequest(row)
          /\ O!CacheKey(row) \notin DOMAIN artifacts.texts
    \/ \E texts \in SUBSET Texted :
          r = O!VectorRequest(texts) /\ texts \cap artifacts.vectors = {}
    \/ \E q \in Question :
          r = VerdictRequest(q) /\ q \notin DOMAIN artifacts.verdicts

LEMMA RequestKinds ==
    ASSUME NEW r, IsRequest(r)
    PROVE  /\ r.kind \in {"text", "vectors", "verdict"}
           /\ r \notin {O!NoNeed, O!Refusal}
           /\ r.kind = "text" => r.row \in O!Row /\ r = O!TextRequest(r.row)
           /\ r.kind = "vectors" =>
                 r.texts \in SUBSET Texted /\ r = O!VectorRequest(r.texts)
           /\ r.kind = "verdict" =>
                 r.question \in Question /\ r = VerdictRequest(r.question)
<1>1. O!NoNeed.kind = "none" /\ O!Refusal.kind = "refused"
  BY DEF O!NoNeed, O!Refusal
<1>2. CASE \E row \in O!Row : r = O!TextRequest(row)
  BY <1>1, <1>2 DEF O!TextRequest
<1>3. CASE \E texts \in SUBSET Texted : r = O!VectorRequest(texts)
  BY <1>1, <1>3 DEF O!VectorRequest
<1>4. CASE \E q \in Question : r = VerdictRequest(q)
  BY <1>1, <1>4 DEF VerdictRequest
<1> QED
  BY <1>2, <1>3, <1>4 DEF IsRequest

\* Nothing is asked for that is among the answers.
LEMMA FreshRequests ==
    ASSUME TextsAreStored, ArtifactsOK, NEW r, FreshRequest(r)
    PROVE  IsRequest(r) /\ Answered \cap O!Asks(r) = {}
<1>1. IsRequest(r)
  BY DEF IsRequest, FreshRequest
<1>2. /\ DOMAIN artifacts.texts \subseteq Key /\ artifacts.vectors \subseteq Texted
      /\ DOMAIN artifacts.verdicts \subseteq Question
  BY DEF TextsAreStored, TextsOK, ArtifactsOK
<1>3. ASSUME NEW row \in O!Row, r = O!TextRequest(row),
             O!CacheKey(row) \notin DOMAIN artifacts.texts
      PROVE  Answered \cap O!Asks(r) = {}
  <2>1. O!Asks(r) = {O!CacheKey(row)}
    BY <1>3 DEF O!TextRequest, O!Asks
  <2>2. O!CacheKey(row) \in Key
    BY KeyFacts
  <2> QED
    BY <1>2, <1>3, <2>1, <2>2, KindsDiffer DEF Answered
<1>4. ASSUME NEW texts \in SUBSET Texted, r = O!VectorRequest(texts),
             texts \cap artifacts.vectors = {}
      PROVE  Answered \cap O!Asks(r) = {}
  <2>1. O!Asks(r) = texts
    BY <1>4 DEF O!VectorRequest, O!Asks
  <2> QED
    BY <1>2, <1>4, <2>1, KindsDiffer DEF Answered
<1>5. ASSUME NEW q \in Question, r = VerdictRequest(q),
             q \notin DOMAIN artifacts.verdicts
      PROVE  Answered \cap O!Asks(r) = {}
  <2>1. O!Asks(r) = {q}
    BY <1>5 DEF VerdictRequest, O!Asks
  <2> QED
    BY <1>2, <1>5, <2>1, KindsDiffer DEF Answered
<1> QED
  BY <1>1, <1>3, <1>4, <1>5 DEF FreshRequest

\* The vectors of a table are of its rows, and say what is to be known of them.
VectorsTell(table, vs) ==
    \A o \in Ids :
        vs[o] # O!Untold =>
            /\ table[o] \in O!Row
            /\ vs[o].sort = table[o].sort /\ vs[o].desc = table[o].desc
            /\ table[o].sort \in {"npc", "player"} => vs[o].fact = table[o].fact

IsAttempt(st) ==
    /\ st = [at |-> st.at, rows |-> st.rows, vectors |-> st.vectors,
             db |-> st.db, refs |-> st.refs, need |-> st.need]
    /\ st.at \in Nat \ {0}
    /\ st.rows \in Table /\ st.vectors \in VectorTable
    /\ st.db = [rows |-> st.db.rows, vectors |-> st.db.vectors]
    /\ st.db.rows \in Table /\ st.db.vectors \in VectorTable
    /\ st.refs = [r \in DOMAIN st.refs |-> st.refs[r]]
    /\ \A r \in DOMAIN st.refs : st.refs[r] \in Ids
    /\ st.need = O!NoNeed

\* An attempt that goes on with other rows and vectors.
Onward(st, table, vs) ==
    [at |-> st.at, rows |-> table, vectors |-> vs,
     db |-> st.db, refs |-> st.refs, need |-> st.need]

LEMMA UpsertFacts ==
    ASSUME TextsAreStored, ArtifactsOK, NEW st, IsAttempt(st),
           NEW o \in Ids, st.rows[o] \in O!Row,
           NEW res, res = O!UpsertProfileEmbedding(st, o)
    PROVE  \/ FreshRequest(res.need)
           \/ /\ O!TextOf(st.rows[o]) # O!Untold
              /\ res = Onward(st, st.rows,
                              [st.vectors EXCEPT ![o] = O!TextOf(st.rows[o])])
<1> DEFINE row == st.rows[o]
           text == O!TextOf(row)
<1>1. \A r : O!Needs(st, r).need = r
  BY DEF O!Needs, IsAttempt
<1>2. CASE text = O!Untold
  <2>1. res = O!Needs(st, O!TextRequest(row))
    BY <1>2 DEF O!UpsertProfileEmbedding
  <2>2. O!CacheKey(row) \notin DOMAIN artifacts.texts
    BY <1>2, TextTells
  <2> QED
    BY <1>1, <2>1, <2>2 DEF FreshRequest
<1>3. CASE text # O!Untold /\ O!Missing({text}) # {}
  <2>1. res = O!Needs(st, O!VectorRequest({text}))
    BY <1>3 DEF O!UpsertProfileEmbedding
  <2>2. {text} \in SUBSET Texted /\ {text} \cap artifacts.vectors = {}
    BY <1>3, TextTells DEF O!Missing
  <2>3. res.need = O!VectorRequest({text})
    BY <1>1, <2>1
  <2> HIDE DEF text
  <2> QED
    BY <2>2, <2>3 DEF FreshRequest
<1>4. CASE text # O!Untold /\ O!Missing({text}) = {}
  <2>1. res = [st EXCEPT !.vectors[o] = text]
    BY <1>4 DEF O!UpsertProfileEmbedding
  <2> HIDE DEF text
  <2>2. res = Onward(st, st.rows, [st.vectors EXCEPT ![o] = text])
    BY <2>1 DEF Onward, IsAttempt
  <2> QED
    BY <1>4, <2>2 DEF text
<1> QED
  BY <1>2, <1>3, <1>4

-----------------------------------------------------------------------------
\* The name an operation gives to what it is about.
NameOf(j) == IF O!IsCreate(j) THEN patch[j].ref ELSE patch[j].target

\* An update before this operation has put the object out of the world.
GoneBy(refs, o, i) ==
    \E u \in 1..(i - 1) :
        ~O!IsCreate(u) /\ O!Subject(refs, u) = o /\ patch[u].values.status = "inactive"

\* What CreationsAreResolved says of an object the patch had not dealt with.
Justified(refs, o, i) ==
    LET op == patch[i]
    IN  IF objects[o] = O!NoRow
        THEN \/ op.unique \/ op.sort = "player"
             \/ \A x \in O!Twins(op) : ~O!LeftAlone(refs, x, i)
        ELSE o \in O!Twins(op) \/ O!Affirmed(op, o)

\* The parts of the invariant of an attempt: no row vanishes or changes its
\* sort;
RowsStay(st) ==
    \A o \in Ids :
        /\ objects[o] \in O!Row => st.rows[o] \in O!Row
        /\ st.db.rows[o] \in O!Row =>
              st.rows[o] \in O!Row /\ st.rows[o].sort = st.db.rows[o].sort

\* what no operation was about is as it was, for the patch and for a SELECT;
AloneStay(st) ==
    \A o \in Ids :
        O!LeftAlone(st.refs, o, st.at) =>
            /\ st.rows[o] = objects[o] /\ st.vectors[o] = vectors[o]
            /\ st.db.rows[o] = objects[o] /\ st.db.vectors[o] = vectors[o]

\* what a SELECT still finds alive is gone only by an update of this patch;
DeathsAreKnown(st) ==
    \A o \in Ids :
        /\ st.db.rows[o] \in O!Row /\ st.db.rows[o].status # "inactive"
        /\ st.rows[o].status = "inactive"
        => GoneBy(st.refs, o, st.at)

\* every operation so far was about an object;
NamesAreKnown(st) ==
    \A j \in 1..(st.at - 1) : NameOf(j) \in DOMAIN st.refs \cup Ids

\* every creation so far is what it should be;
CreationOK(st, i) ==
    LET o == O!Subject(st.refs, i)
    IN  /\ st.rows[o] \in O!Row /\ st.rows[o].sort = patch[i].sort
        /\ st.rows[o].status = "inactive" => GoneBy(st.refs, o, st.at)
        /\ O!LeftAlone(st.refs, o, i) => Justified(st.refs, o, i)
CreationsAreOK(st) == \A i \in 1..(st.at - 1) : O!IsCreate(i) => CreationOK(st, i)

\* and within a chunk all of it is told.
ChunkIsTold(i) == \A j \in O!Chunk(i) : O!TextOf(O!Created(patch[j])) # O!Untold
RestIsTold(st) ==
    st.at \in 1..Len(patch) /\ O!IsCreate(st.at) /\ ~O!FirstOfChunk(st.at)
        => ChunkIsTold(st.at)

AttemptInv(st) ==
    /\ IsAttempt(st) /\ st.at <= Len(patch) + 1
    /\ VectorsTell(st.rows, st.vectors)
    /\ RowsStay(st) /\ AloneStay(st) /\ DeathsAreKnown(st)
    /\ NamesAreKnown(st) /\ CreationsAreOK(st) /\ RestIsTold(st)

StoreInv ==
    /\ objects \in Table /\ vectors \in VectorTable /\ VectorsTell(objects, vectors)
    /\ TextsAreStored /\ ArtifactsOK
    /\ patch \in Patches \cup {<<>>}
    /\ patches \in 0..MaxPatches /\ noise \in 0..MaxNoise

StageInv ==
    /\ stage \in {"idle", "apply", "prepare"}
    /\ IF stage = "apply"
       THEN asked \subseteq Answered /\ \E st : st = attempt /\ AttemptInv(st)
       ELSE attempt = O!NoTx
    /\ IF stage = "prepare"
       THEN IsRequest(need) /\ asked \subseteq Answered \cup O!Asks(need)
       ELSE need = O!NoNeed

PatchInv == StoreInv /\ StageInv

-----------------------------------------------------------------------------
LEMMA OperationFacts ==
    ASSUME NEW op \in Operation
    PROVE  /\ op.op = "create" =>
                 op \in O!Creation /\ O!Created(op) \in O!Row
           /\ op.op # "create" => op \in O!Update /\ op.values \in O!Values
<1>1. op \in O!Creation => op.op = "create"
  BY DEF O!Creation
<1>2. op \in O!Update => op.op = "update" /\ op.values \in O!Values
  BY DEF O!Update
<1>3. ASSUME op \in O!Creation  PROVE O!Created(op) \in O!Row
  <2>1. /\ op.sort \in O!Sorts /\ op.brief \in BOOLEAN
        /\ op.desc \in O!Words /\ op.fact \in O!Words
    BY <1>3 DEF O!Creation
  <2>2. "active" \in O!Words
    BY DEF O!Words
  <2>3. FALSE \in BOOLEAN
    BY Zenon
  <2> QED
    BY <2>1, <2>2, <2>3, Zenon DEF O!Created, O!Row
<1>4. op \in O!Creation \/ op \in O!Update
  BY DEF Operation
<1>5. "create" # "update"
  OBVIOUS
<1> HIDE ObjectsAssumption
<1> QED
  BY <1>1, <1>2, <1>3, <1>4, <1>5

LEMMA PatchFacts ==
    ASSUME patch \in Patches \cup {<<>>}, NEW i \in 1..Len(patch)
    PROVE  /\ DOMAIN patch = 1..Len(patch) /\ Len(patch) \in Nat
           /\ patch[i] \in Operation
           /\ O!IsCreate(i) =>
                 /\ patch[i] \in O!Creation /\ patch[i].ref \notin Ids
                 /\ O!Created(patch[i]) \in O!Row
           /\ ~O!IsCreate(i) =>
                 patch[i] \in O!Update /\ patch[i].values \in O!Values
<1>1. patch \in Seq(Operation)
  BY DEF Operation
<1>2. /\ DOMAIN patch = 1..Len(patch) /\ Len(patch) \in Nat
      /\ patch[i] \in Operation
  BY <1>1
<1>3. patch \in Patches
  BY <1>2
<1>4. O!IsCreate(i) => patch[i].ref \notin Ids
  BY <1>2, <1>3 DEF O!IsCreate
<1> QED
  BY <1>2, <1>4, OperationFacts DEF O!IsCreate

\* The row that a patch makes of another.
Patched(row, p) ==
    [f \in DOMAIN row |-> IF f \in DOMAIN p /\ p[f] # O!Keep THEN p[f] ELSE row[f]]

LEMMA PatchedFacts ==
    ASSUME NEW row \in O!Row, NEW p \in O!Values, NEW new, new = Patched(row, p)
    PROVE  /\ new \in O!Row /\ new.sort = row.sort
           /\ new.desc = IF p.desc # O!Keep THEN p.desc ELSE row.desc
           /\ new.fact = IF p.fact # O!Keep THEN p.fact ELSE row.fact
           /\ new.status = IF p.status # O!Keep THEN p.status ELSE row.status
<1>1. /\ DOMAIN row = {"sort", "brief", "here", "desc", "fact", "status"}
      /\ DOMAIN p = {"desc", "fact", "status"}
      /\ row.sort \in O!Sorts /\ row.brief \in BOOLEAN /\ row.here \in BOOLEAN
      /\ row.desc \in O!Words /\ row.fact \in O!Words /\ row.status \in O!Words
      /\ p.desc \in O!Words /\ p.fact \in O!Words /\ p.status \in O!Words
  BY DEF O!Row, O!Values
<1>2. /\ DOMAIN new = DOMAIN row /\ new = [f \in DOMAIN new |-> new[f]]
      /\ new.sort = row.sort /\ new.brief = row.brief /\ new.here = row.here
      /\ new.desc = IF p.desc # O!Keep THEN p.desc ELSE row.desc
      /\ new.fact = IF p.fact # O!Keep THEN p.fact ELSE row.fact
      /\ new.status = IF p.status # O!Keep THEN p.status ELSE row.status
  BY <1>1 DEF Patched
<1>3. /\ new.desc \in O!Words /\ new.fact \in O!Words /\ new.status \in O!Words
  BY <1>1, <1>2
<1>4. new = [sort |-> new.sort, brief |-> new.brief, here |-> new.here,
             desc |-> new.desc, fact |-> new.fact, status |-> new.status]
  BY <1>1, <1>2
<1> QED
  BY <1>1, <1>2, <1>3, <1>4 DEF O!Row

\* Where no new vector is written, the old one still tells the object.
LEMMA NoRefreshNeeded ==
    ASSUME NEW row \in O!Row, NEW p \in O!Values, ~O!ShouldRefresh(p, row),
           NEW new, new = Patched(row, p)
    PROVE  /\ new.desc = row.desc
           /\ row.sort \in {"npc", "player"} => new.fact = row.fact
<1>1. /\ new.desc = IF p.desc # O!Keep THEN p.desc ELSE row.desc
      /\ new.fact = IF p.fact # O!Keep THEN p.fact ELSE row.fact
  BY PatchedFacts
<1>2. CASE row.sort = "npc"
  BY <1>1, <1>2 DEF O!ShouldRefresh, O!RefreshNpc, O!Tells
<1>3. CASE row.sort = "player"
  BY <1>1, <1>3 DEF O!ShouldRefresh, O!RefreshPlayer, O!Tells, O!Changes
<1>4. CASE row.sort \notin {"npc", "player"}
  BY <1>1, <1>4 DEF O!ShouldRefresh, O!RefreshByText, O!Changes
<1> QED
  BY <1>2, <1>3, <1>4

\* An attempt in which nothing but one object has changed, by p.
ChangedBy(st, res, o, p) ==
    /\ IsAttempt(res) /\ VectorsTell(res.rows, res.vectors)
    /\ res.at = st.at /\ res.db = st.db /\ res.refs = st.refs
    /\ res.rows[o] \in O!Row /\ res.rows[o].sort = st.rows[o].sort
    /\ res.rows[o].status = IF p.status # O!Keep THEN p.status ELSE st.rows[o].status
    /\ \A x \in Ids : x # o =>
          res.rows[x] = st.rows[x] /\ res.vectors[x] = st.vectors[x]

LEMMA ApplyFacts ==
    ASSUME TextsAreStored, ArtifactsOK,
           NEW st, IsAttempt(st), VectorsTell(st.rows, st.vectors),
           NEW o \in Ids, st.rows[o] \in O!Row, NEW p \in O!Values,
           NEW res, res = O!ApplyObjectPatch(st, o, p)
    PROVE  FreshRequest(res.need) \/ ChangedBy(st, res, o, p)
<1> DEFINE old == st.rows[o]
           new == Patched(old, p)
           table == [st.rows EXCEPT ![o] = new]
           patched == Onward(st, table, st.vectors)
<1>1. /\ new \in O!Row /\ new.sort = old.sort
      /\ new.status = IF p.status # O!Keep THEN p.status ELSE old.status
  BY PatchedFacts
<1>2. res = IF O!ShouldRefresh(p, old)
            THEN O!UpsertProfileEmbedding([st EXCEPT !.rows[o] = new], o)
            ELSE [st EXCEPT !.rows[o] = new]
  BY DEF O!ApplyObjectPatch, Patched
<1>3. ~O!ShouldRefresh(p, old) =>
          new.desc = old.desc /\ (old.sort \in {"npc", "player"} => new.fact = old.fact)
  BY NoRefreshNeeded
<1> HIDE DEF new
<1>4. [st EXCEPT !.rows[o] = new] = patched
  BY DEF Onward, IsAttempt
<1>5. /\ table \in Table /\ table[o] = new
      /\ \A x \in Ids : x # o => table[x] = st.rows[x]
  BY <1>1 DEF Table, Maybe, IsAttempt
<1>6. IsAttempt(patched)
  BY <1>5 DEF Onward, IsAttempt
<1>7. CASE ~O!ShouldRefresh(p, old)
  <2>1. res = patched
    BY <1>2, <1>4, <1>7
  <2>2. VectorsTell(table, st.vectors)
    <3> SUFFICES ASSUME NEW x \in Ids, st.vectors[x] # O!Untold
                 PROVE  /\ table[x] \in O!Row
                        /\ st.vectors[x].sort = table[x].sort
                        /\ st.vectors[x].desc = table[x].desc
                        /\ table[x].sort \in {"npc", "player"} =>
                              st.vectors[x].fact = table[x].fact
      BY DEF VectorsTell
    <3>1. /\ st.rows[x] \in O!Row
          /\ st.vectors[x].sort = st.rows[x].sort
          /\ st.vectors[x].desc = st.rows[x].desc
          /\ st.rows[x].sort \in {"npc", "player"} =>
                st.vectors[x].fact = st.rows[x].fact
      BY DEF VectorsTell
    <3> QED
      BY <1>1, <1>3, <1>5, <1>7, <3>1
  <2> QED
    BY <1>1, <1>5, <1>6, <2>1, <2>2 DEF ChangedBy, Onward
<1>8. CASE O!ShouldRefresh(p, old)
  <2> DEFINE text == O!TextOf(new)
             vs == [st.vectors EXCEPT ![o] = text]
  <2>1. res = O!UpsertProfileEmbedding(patched, o)
    BY <1>2, <1>4, <1>8
  <2>2. patched.rows = table /\ patched.vectors = st.vectors
    BY DEF Onward
  <2>3. \/ FreshRequest(res.need)
        \/ /\ text # O!Untold
           /\ res = Onward(patched, table, vs)
    <3> HIDE DEF patched, table
    <3>1. patched.rows[o] = new /\ new \in O!Row
      BY <1>1, <1>5, <2>2
    <3>2. \/ FreshRequest(res.need)
          \/ /\ O!TextOf(patched.rows[o]) # O!Untold
             /\ res = Onward(patched, patched.rows,
                   [patched.vectors EXCEPT ![o] = O!TextOf(patched.rows[o])])
      BY <1>6, <2>1, <3>1, UpsertFacts
    <3> QED
      BY <2>2, <3>1, <3>2
  <2>4. SUFFICES ASSUME text # O!Untold, res = Onward(patched, table, vs)
                 PROVE  ChangedBy(st, res, o, p)
    BY <2>3
  <2>5. text \in Texted /\ Says(text, new)
    BY <1>1, <2>4, TextTells
  <2> HIDE DEF text
  <2>6. res = Onward(st, table, vs)
    BY <2>4 DEF Onward
  <2>7. /\ vs \in VectorTable /\ vs[o] = text
        /\ \A x \in Ids : x # o => vs[x] = st.vectors[x]
    BY <2>5 DEF VectorTable, IsAttempt
  <2>8. VectorsTell(table, vs)
    <3> SUFFICES ASSUME NEW x \in Ids, vs[x] # O!Untold
                 PROVE  /\ table[x] \in O!Row
                        /\ vs[x].sort = table[x].sort /\ vs[x].desc = table[x].desc
                        /\ table[x].sort \in {"npc", "player"} =>
                              vs[x].fact = table[x].fact
      BY DEF VectorsTell
    <3>1. CASE x = o
      BY <1>1, <1>5, <2>5, <2>7, <3>1 DEF Says
    <3>2. CASE x # o
      BY <1>5, <2>7, <3>2 DEF VectorsTell
    <3> QED
      BY <3>1, <3>2
  <2>9. IsAttempt(res)
    BY <1>6, <2>6, <2>7 DEF Onward, IsAttempt
  <2> QED
    BY <1>1, <1>5, <2>6, <2>7, <2>8, <2>9 DEF ChangedBy, Onward
<1> QED
  BY <1>7, <1>8

\* What an operation may do to an attempt.
Proceeds(st, res) ==
    LET i == st.at
        o == O!Subject(res.refs, i)
    IN  /\ IsAttempt(res) /\ res.at = i /\ VectorsTell(res.rows, res.vectors)
        /\ DOMAIN st.refs \subseteq DOMAIN res.refs
        /\ \A name \in DOMAIN st.refs \cup Ids :
              O!Resolved(res.refs, name) = O!Resolved(st.refs, name)
        /\ NameOf(i) \in DOMAIN res.refs \cup Ids
        /\ \A x \in Ids :
              /\ st.rows[x] \in O!Row =>
                    res.rows[x] \in O!Row /\ res.rows[x].sort = st.rows[x].sort
              /\ x # o => res.rows[x] = st.rows[x] /\ res.vectors[x] = st.vectors[x]
              /\ st.rows[x] \in O!Row /\ res.rows[x].status = "inactive" =>
                    \/ st.rows[x].status = "inactive"
                    \/ /\ ~O!IsCreate(i) /\ x = o
                       /\ patch[i].values.status = "inactive"
        /\ res.db = st.db \/ res.db = [rows |-> res.rows, vectors |-> st.vectors]
        /\ O!IsCreate(i) =>
              /\ res.rows[o] \in O!Row /\ res.rows[o].sort = patch[i].sort
              /\ res.rows[o].status = "inactive" => GoneBy(st.refs, o, i)
              /\ O!LeftAlone(st.refs, o, i) => Justified(st.refs, o, i)

LEMMA SubjectIsNamed ==
    \A refs, i : O!Subject(refs, i) = O!Resolved(refs, NameOf(i))
  BY DEF O!Subject, NameOf

LEMMA SubjectsStay ==
    ASSUME NEW st, IsAttempt(st), NamesAreKnown(st), NEW res, Proceeds(st, res)
    PROVE  /\ \A j \in 1..(st.at - 1) : O!Subject(res.refs, j) = O!Subject(st.refs, j)
           /\ \A j \in 1..st.at : O!Subject(res.refs, j) \in Ids
           /\ \A x : \A i \in 1..st.at :
                 O!LeftAlone(res.refs, x, i) <=> O!LeftAlone(st.refs, x, i)
           /\ \A x : \A i \in 1..st.at :
                 Justified(res.refs, x, i) <=> Justified(st.refs, x, i)
<1>1. st.at \in Nat \ {0}
  BY DEF IsAttempt
<1>2. ASSUME NEW j \in 1..(st.at - 1)
      PROVE  O!Subject(res.refs, j) = O!Subject(st.refs, j)
  BY SubjectIsNamed DEF Proceeds, NamesAreKnown
<1>3. ASSUME NEW j \in 1..st.at
      PROVE  O!Subject(res.refs, j) \in Ids
  <2>1. NameOf(j) \in DOMAIN res.refs \cup Ids
    BY <1>1 DEF Proceeds, NamesAreKnown
  <2>2. \A r \in DOMAIN res.refs : res.refs[r] \in Ids
    BY DEF Proceeds, IsAttempt
  <2> QED
    BY <2>1, <2>2, SubjectIsNamed DEF O!Resolved
<1>4. ASSUME NEW i \in 1..st.at, NEW x
      PROVE  O!LeftAlone(res.refs, x, i) <=> O!LeftAlone(st.refs, x, i)
  BY <1>1, <1>2 DEF O!LeftAlone
<1>5. ASSUME NEW i \in 1..st.at, NEW x
      PROVE  Justified(res.refs, x, i) <=> Justified(st.refs, x, i)
  BY <1>4 DEF Justified
<1> QED
  BY <1>2, <1>3, <1>4, <1>5

\* What an operation may do keeps the invariant.
LEMMA NextAttempt ==
    ASSUME patch \in Patches \cup {<<>>}, NEW st, AttemptInv(st), st.at <= Len(patch),
           O!IsCreate(st.at) => ChunkIsTold(st.at),
           NEW res, Proceeds(st, res), NEW nxt, nxt = [res EXCEPT !.at = @ + 1]
    PROVE  AttemptInv(nxt)
<1> DEFINE i == st.at
           o == O!Subject(res.refs, i)
<1>1. /\ i \in Nat \ {0} /\ IsAttempt(st) /\ IsAttempt(res) /\ res.at = i
      /\ Len(patch) \in Nat /\ i \in 1..Len(patch)
  <2>1. Len(patch) \in Nat
    BY DEF Operation
  <2> QED
    BY <2>1 DEF Proceeds, AttemptInv, IsAttempt
<1>2. /\ nxt.at = i + 1 /\ nxt.rows = res.rows /\ nxt.vectors = res.vectors
      /\ nxt.db = res.db /\ nxt.refs = res.refs /\ nxt.need = res.need
      /\ nxt = [at |-> nxt.at, rows |-> nxt.rows, vectors |-> nxt.vectors,
                db |-> nxt.db, refs |-> nxt.refs, need |-> nxt.need]
  BY <1>1 DEF IsAttempt
<1>3. IsAttempt(nxt) /\ nxt.at <= Len(patch) + 1
  BY <1>1, <1>2 DEF IsAttempt
<1>4. /\ \A j \in 1..(i - 1) : O!Subject(res.refs, j) = O!Subject(st.refs, j)
      /\ \A j \in 1..i : O!Subject(res.refs, j) \in Ids
      /\ \A x : \A k \in 1..i :
            O!LeftAlone(res.refs, x, k) <=> O!LeftAlone(st.refs, x, k)
      /\ \A x : \A k \in 1..i :
            Justified(res.refs, x, k) <=> Justified(st.refs, x, k)
  BY <1>1, SubjectsStay DEF AttemptInv
<1>5. ASSUME NEW x, GoneBy(st.refs, x, i)
      PROVE  GoneBy(nxt.refs, x, nxt.at)
  <2>1. PICK u \in 1..(i - 1) :
            /\ ~O!IsCreate(u) /\ O!Subject(st.refs, u) = x
            /\ patch[u].values.status = "inactive"
    BY <1>5 DEF GoneBy
  <2>2. u \in 1..(nxt.at - 1) /\ O!Subject(nxt.refs, u) = x
    BY <1>1, <1>2, <1>4, <2>1
  <2> QED
    BY <2>1, <2>2 DEF GoneBy
<1>6. /\ \A name \in DOMAIN st.refs \cup Ids :
            O!Resolved(res.refs, name) = O!Resolved(st.refs, name)
      /\ DOMAIN st.refs \subseteq DOMAIN res.refs
      /\ NameOf(i) \in DOMAIN res.refs \cup Ids
      /\ VectorsTell(res.rows, res.vectors)
      /\ res.db = st.db \/ res.db = [rows |-> res.rows, vectors |-> st.vectors]
      /\ O!IsCreate(i) =>
            /\ res.rows[o] \in O!Row /\ res.rows[o].sort = patch[i].sort
            /\ res.rows[o].status = "inactive" => GoneBy(st.refs, o, i)
            /\ O!LeftAlone(st.refs, o, i) => Justified(st.refs, o, i)
  BY DEF Proceeds
<1>7. ASSUME NEW x \in Ids
      PROVE  /\ st.rows[x] \in O!Row =>
                    res.rows[x] \in O!Row /\ res.rows[x].sort = st.rows[x].sort
             /\ x # o => res.rows[x] = st.rows[x] /\ res.vectors[x] = st.vectors[x]
             /\ st.rows[x] \in O!Row /\ res.rows[x].status = "inactive" =>
                    \/ st.rows[x].status = "inactive"
                    \/ /\ ~O!IsCreate(i) /\ x = o
                       /\ patch[i].values.status = "inactive"
  BY DEF Proceeds
<1>8. ASSUME NEW x \in Ids, st.rows[x] \in O!Row, res.rows[x].status = "inactive",
             st.rows[x].status = "inactive" => GoneBy(st.refs, x, i)
      PROVE  GoneBy(nxt.refs, x, nxt.at)
  <2>1. CASE st.rows[x].status = "inactive"
    BY <1>5, <1>8, <2>1
  <2>2. CASE st.rows[x].status # "inactive"
    <3>1. /\ ~O!IsCreate(i) /\ x = O!Subject(nxt.refs, i)
          /\ patch[i].values.status = "inactive"
      BY <1>2, <1>7, <1>8, <2>2
    <3>2. i \in 1..(nxt.at - 1)
      BY <1>1, <1>2
    <3> QED
      BY <3>1, <3>2 DEF GoneBy
  <2> QED
    BY <2>1, <2>2
<1> HIDE DEF i, o
<1>9. RowsStay(nxt)
  <2> SUFFICES ASSUME NEW x \in Ids
               PROVE  /\ objects[x] \in O!Row => res.rows[x] \in O!Row
                      /\ res.db.rows[x] \in O!Row =>
                            /\ res.rows[x] \in O!Row
                            /\ res.rows[x].sort = res.db.rows[x].sort
    BY <1>2 DEF RowsStay
  <2>1. /\ objects[x] \in O!Row => st.rows[x] \in O!Row
        /\ st.db.rows[x] \in O!Row =>
              st.rows[x] \in O!Row /\ st.rows[x].sort = st.db.rows[x].sort
    BY DEF AttemptInv, RowsStay
  <2> QED
    BY <1>6, <1>7, <2>1
<1>10. AloneStay(nxt)
  <2> SUFFICES ASSUME NEW x \in Ids, O!LeftAlone(nxt.refs, x, nxt.at)
               PROVE  /\ res.rows[x] = objects[x] /\ res.vectors[x] = vectors[x]
                      /\ res.db.rows[x] = objects[x] /\ res.db.vectors[x] = vectors[x]
    BY <1>2 DEF AloneStay
  <2>1. \A j \in 1..i : O!Subject(res.refs, j) # x
    BY <1>1, <1>2 DEF O!LeftAlone, i
  <2>2. O!LeftAlone(st.refs, x, st.at) /\ x # o
    BY <1>1, <1>4, <2>1 DEF O!LeftAlone, i, o
  <2>3. /\ st.rows[x] = objects[x] /\ st.vectors[x] = vectors[x]
        /\ st.db.rows[x] = objects[x] /\ st.db.vectors[x] = vectors[x]
    BY <2>2 DEF AttemptInv, AloneStay
  <2> QED
    BY <1>6, <1>7, <2>2, <2>3
<1>11. DeathsAreKnown(nxt)
  <2> SUFFICES ASSUME NEW x \in Ids, res.db.rows[x] \in O!Row,
                      res.db.rows[x].status # "inactive",
                      res.rows[x].status = "inactive"
               PROVE  GoneBy(nxt.refs, x, nxt.at)
    BY <1>2 DEF DeathsAreKnown
  <2>1. res.db = st.db
    BY <1>6
  <2>2. st.rows[x] \in O!Row
    BY <2>1 DEF AttemptInv, RowsStay
  <2>3. st.rows[x].status = "inactive" => GoneBy(st.refs, x, i)
    BY <2>1 DEF AttemptInv, DeathsAreKnown, i
  <2> QED
    BY <1>8, <2>2, <2>3
<1>12. NamesAreKnown(nxt)
  <2>1. \A j \in 1..(i - 1) : NameOf(j) \in DOMAIN st.refs \cup Ids
    BY DEF AttemptInv, NamesAreKnown, i
  <2>2. \A j \in 1..(nxt.at - 1) : j = i \/ j \in 1..(i - 1)
    BY <1>1, <1>2
  <2> QED
    BY <1>2, <1>6, <2>1, <2>2 DEF NamesAreKnown
<1>13. CreationsAreOK(nxt)
  <2> SUFFICES ASSUME NEW k \in 1..(nxt.at - 1), O!IsCreate(k)
               PROVE  CreationOK(nxt, k)
    BY DEF CreationsAreOK
  <2>1. k \in 1..i
    BY <1>1, <1>2
  <2> DEFINE x == O!Subject(res.refs, k)
  <2>2. x \in Ids
    BY <1>4, <2>1
  <2>3. CASE k = i
    <3>1. x = o
      BY <2>3 DEF i, o
    <3>2. /\ res.rows[x] \in O!Row /\ res.rows[x].sort = patch[k].sort
          /\ res.rows[x].status = "inactive" => GoneBy(nxt.refs, x, nxt.at)
          /\ O!LeftAlone(res.refs, x, k) => Justified(res.refs, x, k)
      BY <1>4, <1>5, <1>6, <2>1, <2>3, <3>1
    <3> QED
      BY <1>2, <3>2 DEF CreationOK
  <2>4. CASE k # i
    <3>1. k \in 1..(i - 1)
      BY <1>1, <2>1, <2>4
    <3>2. O!Subject(st.refs, k) = x
      BY <1>4, <3>1
    <3>3. CreationOK(st, k)
      BY <3>1 DEF AttemptInv, CreationsAreOK, i
    <3>4. /\ st.rows[x] \in O!Row /\ st.rows[x].sort = patch[k].sort
          /\ st.rows[x].status = "inactive" => GoneBy(st.refs, x, i)
          /\ O!LeftAlone(st.refs, x, k) => Justified(st.refs, x, k)
      BY <3>2, <3>3 DEF CreationOK, i
    <3>5. /\ res.rows[x] \in O!Row /\ res.rows[x].sort = patch[k].sort
          /\ res.rows[x].status = "inactive" => GoneBy(nxt.refs, x, nxt.at)
      BY <1>7, <1>8, <2>2, <3>4
    <3>6. O!LeftAlone(res.refs, x, k) => Justified(res.refs, x, k)
      BY <1>4, <2>1, <3>4
    <3> QED
      BY <1>2, <3>5, <3>6 DEF CreationOK
  <2> QED
    BY <2>3, <2>4
<1>14. RestIsTold(nxt)
  <2> SUFFICES ASSUME nxt.at \in 1..Len(patch), ~O!FirstOfChunk(nxt.at),
                      NEW j \in O!Chunk(nxt.at)
               PROVE  O!TextOf(O!Created(patch[j])) # O!Untold
    BY DEF RestIsTold, ChunkIsTold
  <2>1. nxt.at - 1 = i
    BY <1>1, <1>2
  <2>2. O!IsCreate(i)
    BY <2>1 DEF O!FirstOfChunk
  <2>3. j \in O!Chunk(i)
    <3>1. j \in (i + 1)..Len(patch) /\ \A k \in (i + 1)..j : O!IsCreate(k)
      BY <1>2 DEF O!Chunk, i
    <3>2. j \in i..Len(patch) /\ \A k \in i..j : k = i \/ k \in (i + 1)..j
      BY <1>1, <3>1
    <3> QED
      BY <2>2, <3>1, <3>2 DEF O!Chunk
  <2> QED
    BY <2>2, <2>3 DEF ChunkIsTold, i
<1> QED
  BY <1>2, <1>3, <1>6, <1>9, <1>10, <1>11, <1>12, <1>13, <1>14 DEF AttemptInv

-----------------------------------------------------------------------------
LEMMA UpdateProceeds ==
    ASSUME TextsAreStored, ArtifactsOK, patch \in Patches \cup {<<>>},
           NEW st, AttemptInv(st), st.at <= Len(patch), ~O!IsCreate(st.at),
           NEW res, res = O!ObjectUpdate(st, patch[st.at])
    PROVE  \/ res.need = O!Refusal \/ FreshRequest(res.need)
           \/ res.need = O!NoNeed /\ Proceeds(st, res)
<1> DEFINE i == st.at
           p == patch[i].values
           o == O!Resolved(st.refs, patch[i].target)
<1>1. IsAttempt(st) /\ VectorsTell(st.rows, st.vectors) /\ i \in 1..Len(patch)
  <2>1. Len(patch) \in Nat
    BY DEF Operation
  <2> QED
    BY <2>1 DEF AttemptInv, IsAttempt
<1>2. p \in O!Values
  BY <1>1, PatchFacts
<1>3. CASE o \notin Ids \/ st.rows[o] = O!NoRow
  <2>1. res = O!Refused(st)
    BY <1>3 DEF O!ObjectUpdate
  <2> QED
    BY <1>1, <2>1 DEF O!Refused, O!Needs, IsAttempt
<1>4. CASE o \in Ids /\ st.rows[o] # O!NoRow
  <2>1. res = O!ApplyObjectPatch(st, o, p)
    BY <1>4 DEF O!ObjectUpdate
  <2>2. st.rows[o] \in O!Row
    BY <1>1, <1>4 DEF IsAttempt, Table, Maybe
  <2>3. FreshRequest(res.need) \/ ChangedBy(st, res, o, p)
    <3> HIDE DEF o, p
    <3> QED
      BY <1>1, <1>2, <1>4, <2>1, <2>2, ApplyFacts
  <2>4. SUFFICES ASSUME ChangedBy(st, res, o, p)
                 PROVE  res.need = O!NoNeed /\ Proceeds(st, res)
    BY <2>3
  <2>5. NameOf(i) = patch[i].target /\ O!Subject(res.refs, i) = o
    BY <2>4 DEF NameOf, O!Subject, ChangedBy
  <2>6. NameOf(i) \in DOMAIN st.refs \cup Ids
    BY <1>4, <2>5 DEF O!Resolved
  <2> HIDE DEF o
  <2>7. ASSUME NEW x \in Ids
        PROVE  /\ st.rows[x] \in O!Row =>
                     res.rows[x] \in O!Row /\ res.rows[x].sort = st.rows[x].sort
               /\ x # o => res.rows[x] = st.rows[x] /\ res.vectors[x] = st.vectors[x]
               /\ st.rows[x] \in O!Row /\ res.rows[x].status = "inactive" =>
                     \/ st.rows[x].status = "inactive"
                     \/ x = o /\ p.status = "inactive"
    BY <2>4 DEF ChangedBy
  <2>8. /\ IsAttempt(res) /\ res.at = i /\ VectorsTell(res.rows, res.vectors)
        /\ res.refs = st.refs /\ res.db = st.db /\ res.need = O!NoNeed
    BY <2>4 DEF ChangedBy, IsAttempt
  <2> QED
    BY <2>5, <2>6, <2>7, <2>8 DEF Proceeds
<1> QED
  BY <1>3, <1>4

\* The references with one more.
OneMore(refs, ref, o, more) ==
    /\ DOMAIN more = DOMAIN refs \cup {ref} /\ more = [r \in DOMAIN more |-> more[r]]
    /\ \A r \in DOMAIN refs : more[r] = refs[r]
    /\ more[ref] = o /\ O!Resolved(more, ref) = o
    /\ \A name \in DOMAIN refs \cup Ids :
          O!Resolved(more, name) = O!Resolved(refs, name)

LEMMA WithRef ==
    ASSUME NEW refs, NEW ref, ref \notin DOMAIN refs, ref \notin Ids, NEW o
    PROVE  OneMore(refs, ref, o, O!With(refs, ref, o))
<1> DEFINE more == O!With(refs, ref, o)
<1>1. /\ DOMAIN more = DOMAIN refs \cup {ref} /\ more = [r \in DOMAIN more |-> more[r]]
      /\ \A r \in DOMAIN refs : more[r] = refs[r]
      /\ more[ref] = o
  BY DEF O!With
<1> HIDE DEF more
<1>2. OneMore(refs, ref, o, more)
  BY <1>1 DEF OneMore, O!Resolved
<1> QED
  BY <1>2 DEF more

\* A creation that is found to be an old object.
LEMMA ReuseProceeds ==
    ASSUME TextsAreStored, ArtifactsOK, patch \in Patches \cup {<<>>},
           NEW st, AttemptInv(st), st.at <= Len(patch), O!IsCreate(st.at),
           patch[st.at].ref \notin DOMAIN st.refs,
           NEW o \in O!Candidates(st, patch[st.at]),
           O!LeftAlone(st.refs, o, st.at) => Justified(st.refs, o, st.at),
           NEW res, res = O!Reuse(st, patch[st.at], o)
    PROVE  FreshRequest(res.need) \/ (res.need = O!NoNeed /\ Proceeds(st, res))
<1> DEFINE i == st.at
           op == patch[i]
           refs == O!With(st.refs, op.ref, o)
           p == O!ReusePatch(op, st.rows[o])
           named == [at |-> i, rows |-> st.rows, vectors |-> st.vectors,
                     db |-> st.db, refs |-> refs, need |-> st.need]
<1>1. IsAttempt(st) /\ VectorsTell(st.rows, st.vectors) /\ i \in 1..Len(patch)
  <2>1. Len(patch) \in Nat
    BY DEF Operation
  <2> QED
    BY <2>1 DEF AttemptInv, IsAttempt
<1>2. op \in O!Creation /\ op.ref \notin Ids /\ op.sort \in O!Sorts
  BY <1>1, PatchFacts DEF O!Creation
<1>3. /\ o \in Ids /\ st.db.rows[o] \in O!Row /\ st.db.rows[o].sort = op.sort
      /\ st.db.rows[o].status # "inactive"
  <2>1. /\ o \in Ids /\ st.db.rows[o].sort = op.sort
        /\ st.db.rows[o].status # "inactive"
    BY DEF O!Candidates
  <2>2. st.db.rows[o] \in O!Row \cup {O!NoRow}
    BY <1>1, <2>1 DEF IsAttempt, Table, Maybe
  <2>3. O!NoRow.sort = "none" /\ "none" \notin O!Sorts
    BY DEF O!NoRow, O!Sorts
  <2> QED
    BY <1>2, <2>1, <2>2, <2>3
<1>4. st.rows[o] \in O!Row /\ st.rows[o].sort = op.sort
  BY <1>3 DEF AttemptInv, RowsStay
<1>5. st.rows[o].status = "inactive" => GoneBy(st.refs, o, i)
  BY <1>3 DEF AttemptInv, DeathsAreKnown
<1>6. p \in O!Values /\ p.status \in {"active", O!Keep}
  <2>1. /\ "active" \in O!Words /\ O!Keep \in O!Words
        /\ op.desc \in O!Words /\ op.fact \in O!Words
    BY <1>2 DEF O!Words, O!Creation
  <2> QED
    BY <2>1 DEF O!ReusePatch, O!Values
<1>7. OneMore(st.refs, op.ref, o, refs)
  <2>1. op.ref \notin DOMAIN st.refs /\ op.ref \notin Ids
    BY <1>2
  <2> HIDE DEF op
  <2> QED
    BY <2>1, Zenon, WithRef
<1> HIDE DEF refs, p
<1>8. res = O!ApplyObjectPatch(named, o, p)
  <2>1. [st EXCEPT !.refs = refs] = named
    BY <1>1 DEF IsAttempt
  <2> QED
    BY <2>1 DEF O!Reuse, refs, p
<1>9. IsAttempt(named)
  BY <1>1, <1>3, <1>7 DEF IsAttempt, OneMore
<1>10. /\ named.rows = st.rows /\ named.vectors = st.vectors /\ named.at = i
       /\ named.refs = refs /\ named.db = st.db
  OBVIOUS
<1> HIDE DEF named
<1>11. FreshRequest(res.need) \/ ChangedBy(named, res, o, p)
  BY <1>1, <1>3, <1>4, <1>6, <1>8, <1>9, <1>10, ApplyFacts
<1>12. SUFFICES ASSUME ChangedBy(named, res, o, p)
                PROVE  res.need = O!NoNeed /\ Proceeds(st, res)
  BY <1>11
<1>13. /\ IsAttempt(res) /\ res.at = i /\ VectorsTell(res.rows, res.vectors)
       /\ res.refs = refs /\ res.db = st.db /\ res.need = O!NoNeed
       /\ res.rows[o] \in O!Row /\ res.rows[o].sort = op.sort
       /\ res.rows[o].status = IF p.status # O!Keep THEN p.status ELSE st.rows[o].status
  BY <1>4, <1>10, <1>12 DEF ChangedBy, IsAttempt
<1>14. res.rows[o].status = "inactive" => st.rows[o].status = "inactive"
  BY <1>6, <1>13
<1>15. NameOf(i) = op.ref /\ O!Subject(res.refs, i) = o
  BY <1>7, <1>13 DEF NameOf, O!Subject, OneMore
<1>16. ASSUME NEW x \in Ids
       PROVE  /\ st.rows[x] \in O!Row =>
                    res.rows[x] \in O!Row /\ res.rows[x].sort = st.rows[x].sort
              /\ x # o => res.rows[x] = st.rows[x] /\ res.vectors[x] = st.vectors[x]
              /\ st.rows[x] \in O!Row /\ res.rows[x].status = "inactive" =>
                    st.rows[x].status = "inactive"
  BY <1>4, <1>10, <1>12, <1>13, <1>14 DEF ChangedBy
<1> QED
  BY <1>5, <1>7, <1>13, <1>14, <1>15, <1>16 DEF Proceeds, OneMore

\* A creation that becomes an object of its own.
LEMMA AddProceeds ==
    ASSUME TextsAreStored, ArtifactsOK, patch \in Patches \cup {<<>>},
           NEW st, AttemptInv(st), st.at <= Len(patch), O!IsCreate(st.at),
           patch[st.at].ref \notin DOMAIN st.refs, O!IdsAreLeft(st.rows),
           O!TextOf(O!Created(patch[st.at])) # O!Untold,
           \A o \in Ids : objects[o] = O!NoRow => Justified(st.refs, o, st.at),
           NEW res, res = O!AddObject(st, patch[st.at], O!TextOf(O!Created(patch[st.at])))
    PROVE  res.need = O!NoNeed /\ Proceeds(st, res)
<1> DEFINE i == st.at
           op == patch[i]
           row == O!Created(op)
           text == O!TextOf(row)
           id == CHOOSE o \in Ids : st.rows[o] = O!NoRow
           refs == O!With(st.refs, op.ref, id)
           table == [st.rows EXCEPT ![id] = row]
           vs == [st.vectors EXCEPT ![id] = text]
           db == [rows |-> table, vectors |-> st.vectors]
<1>1. IsAttempt(st) /\ VectorsTell(st.rows, st.vectors) /\ i \in 1..Len(patch)
  <2>1. Len(patch) \in Nat
    BY DEF Operation
  <2> QED
    BY <2>1 DEF AttemptInv, IsAttempt
<1>2. op \in O!Creation /\ op.ref \notin Ids /\ row \in O!Row
  BY <1>1, PatchFacts
<1>3. id \in Ids /\ st.rows[id] = O!NoRow
  BY DEF O!IdsAreLeft
<1>4. text \in Texted /\ Says(text, row)
  BY <1>2, TextTells
<1>5. row.sort = op.sort /\ row.status = "active"
  BY DEF O!Created
<1>6. res = [st EXCEPT !.rows = table, !.vectors[id] = text, !.db = db, !.refs = refs]
  BY DEF O!AddObject
<1>7. OneMore(st.refs, op.ref, id, refs)
  <2>1. op.ref \notin DOMAIN st.refs /\ op.ref \notin Ids
    BY <1>2
  <2> HIDE DEF op
  <2> QED
    BY <2>1, Zenon, WithRef
<1> HIDE DEF row, text, id, refs
<1>8. res = [at |-> i, rows |-> table, vectors |-> vs, db |-> db,
             refs |-> refs, need |-> O!NoNeed]
  BY <1>1, <1>6 DEF IsAttempt
<1>9. /\ table \in Table /\ table[id] = row
      /\ \A x \in Ids : x # id => table[x] = st.rows[x]
      /\ vs \in VectorTable /\ vs[id] = text
      /\ \A x \in Ids : x # id => vs[x] = st.vectors[x]
  BY <1>1, <1>2, <1>3, <1>4 DEF IsAttempt, Table, Maybe, VectorTable
<1> HIDE DEF table, vs
<1>10. /\ res.at = i /\ res.rows = table /\ res.vectors = vs /\ res.db = db
       /\ res.refs = refs /\ res.need = O!NoNeed
  BY <1>8
<1>11. \A r \in DOMAIN refs : refs[r] \in Ids
  BY <1>1, <1>3, <1>7 DEF IsAttempt, OneMore
<1>12. IsAttempt(res)
  BY <1>1, <1>7, <1>8, <1>9, <1>11 DEF IsAttempt, OneMore
<1>13. VectorsTell(table, vs)
  <2> SUFFICES ASSUME NEW x \in Ids, vs[x] # O!Untold
               PROVE  /\ table[x] \in O!Row
                      /\ vs[x].sort = table[x].sort /\ vs[x].desc = table[x].desc
                      /\ table[x].sort \in {"npc", "player"} =>
                            vs[x].fact = table[x].fact
    BY DEF VectorsTell
  <2>1. CASE x = id
    BY <1>2, <1>4, <1>9, <2>1 DEF Says
  <2>2. CASE x # id
    BY <1>1, <1>9, <2>2 DEF VectorsTell
  <2> QED
    BY <2>1, <2>2
<1>14. NameOf(i) = op.ref /\ O!Subject(refs, i) = id
  BY <1>7 DEF NameOf, O!Subject, OneMore
<1>15. O!LeftAlone(st.refs, id, i) => Justified(st.refs, id, i)
  <2>1. O!LeftAlone(st.refs, id, i) => objects[id] = st.rows[id]
    BY <1>3 DEF AttemptInv, AloneStay
  <2> QED
    BY <1>3, <2>1
<1>16. ASSUME NEW x \in Ids
       PROVE  /\ st.rows[x] \in O!Row =>
                    table[x] \in O!Row /\ table[x].sort = st.rows[x].sort
              /\ x # id => table[x] = st.rows[x] /\ vs[x] = st.vectors[x]
              /\ st.rows[x] \in O!Row /\ table[x].status = "inactive" =>
                    st.rows[x].status = "inactive"
  BY <1>3, <1>9, NoneDiffers
<1>17. table[id] \in O!Row /\ table[id].sort = op.sort /\ table[id].status # "inactive"
  BY <1>2, <1>5, <1>9
<1> QED
  BY <1>7, <1>10, <1>12, <1>13, <1>14, <1>15, <1>16, <1>17 DEF Proceeds, OneMore

-----------------------------------------------------------------------------
\* A chunk is told, or the patch asks for what it lacks.
LEMMA ChunkOutcome ==
    ASSUME TextsAreStored, ArtifactsOK, patch \in Patches \cup {<<>>},
           NEW st, IsAttempt(st), NEW i \in 1..Len(patch), O!IsCreate(i),
           NEW res, res = O!PrepareChunk(st, i)
    PROVE  FreshRequest(res.need) \/ (res = st /\ ChunkIsTold(i))
<1> DEFINE Told(j) == O!TextOf(O!Created(patch[j]))
           untold == {j \in O!Chunk(i) : Told(j) = O!Untold}
           texts == {Told(j) : j \in O!Chunk(i)}
           unseen == {j \in O!Chunk(i) : O!Missing({Told(j)}) # {}}
           First(js) == CHOOSE j \in js : \A k \in js : j <= k
<1>1. Len(patch) \in Nat
  BY DEF Operation
<1>2. \A j \in O!Chunk(i) : j \in 1..Len(patch) /\ O!Created(patch[j]) \in O!Row
  <2> SUFFICES ASSUME NEW j \in O!Chunk(i)
               PROVE  j \in 1..Len(patch) /\ O!Created(patch[j]) \in O!Row
    OBVIOUS
  <2>1. j \in 1..Len(patch) /\ O!IsCreate(j)
    BY <1>1 DEF O!Chunk
  <2> QED
    BY <2>1, PatchFacts
<1>3. \A r : O!Needs(st, r).need = r
  BY DEF O!Needs, IsAttempt
<1>4. CASE untold # {}
  <2> DEFINE j == First(untold)
  <2>1. j \in untold
    <3>1. untold \subseteq Nat
      BY <1>2
    <3>2. \E x \in untold : \A k \in untold : x <= k
      <4> HIDE DEF untold
      <4> QED
        BY <1>4, <3>1, HasLeast
    <3> HIDE DEF untold
    <3> QED
      BY <3>2
  <2>2. res = O!Needs(st, O!TextRequest(O!Created(patch[j])))
    BY <1>4 DEF O!PrepareChunk
  <2> HIDE DEF j
  <2>3. /\ O!Created(patch[j]) \in O!Row
        /\ O!CacheKey(O!Created(patch[j])) \notin DOMAIN artifacts.texts
    BY <1>2, <2>1, TextTells
  <2> QED
    BY <1>3, <2>2, <2>3 DEF FreshRequest
<1>5. ASSUME untold = {}
      PROVE  ChunkIsTold(i) /\ texts \in SUBSET Texted
  <2>1. ChunkIsTold(i)
    BY <1>5 DEF ChunkIsTold
  <2>2. \A j \in O!Chunk(i) : Told(j) \in Texted
    BY <1>2, <2>1, TextTells DEF ChunkIsTold
  <2> QED
    BY <2>1, <2>2
<1>6. CASE untold = {} /\ unseen # {}
  <2> DEFINE lacking == {t \in O!Missing(texts) : t.sort = patch[First(unseen)].sort}
  <2>1. res = O!Needs(st, O!VectorRequest(lacking))
    BY <1>6 DEF O!PrepareChunk
  <2>2. lacking \in SUBSET Texted /\ lacking \cap artifacts.vectors = {}
    BY <1>5, <1>6 DEF O!Missing
  <2> HIDE DEF lacking
  <2> QED
    BY <1>3, <2>1, <2>2 DEF FreshRequest
<1>7. CASE untold = {} /\ unseen = {}
  <2>1. res = st
    BY <1>7 DEF O!PrepareChunk
  <2> QED
    BY <1>5, <1>7, <2>1
<1> QED
  BY <1>4, <1>6, <1>7

LEMMA SimilarityFacts ==
    ASSUME NEW a, NEW b
    PROVE  /\ O!Similarity(a, b) \in {0, 1, 2}
           /\ O!Similarity(a, b) = 2 <=> a.desc = b.desc /\ a.fact = b.fact
<1>1. CASE a.desc = b.desc /\ a.fact = b.fact
  BY <1>1 DEF O!Similarity
<1>2. CASE a.desc = b.desc /\ a.fact # b.fact
  BY <1>2 DEF O!Similarity
<1>3. CASE a.desc # b.desc
  BY <1>3 DEF O!Similarity
<1> QED
  BY <1>1, <1>2, <1>3

LEMMA NearestFacts ==
    ASSUME NEW st, NEW op, O!TextOf(O!Created(op)) # O!Untold, NEW o \in O!Nearest(st, op)
    PROVE  \/ o = O!Nobody /\ O!Candidates(st, op) = {}
           \/ /\ o \in O!Candidates(st, op) /\ o \in Ids /\ o # O!Nobody
              /\ \A x \in O!Candidates(st, op) :
                    O!Similarity(O!TextOf(O!Created(op)), st.db.vectors[o])
                        >= O!Similarity(O!TextOf(O!Created(op)), st.db.vectors[x])
<1>1. O!Candidates(st, op) \subseteq Ids
  BY DEF O!Candidates
<1> QED
  BY <1>1 DEF O!Nearest

\* What a SELECT finds and the patch left alone is a twin, if the texts agree.
LEMMA TwinsAreCandidates ==
    ASSUME VectorsTell(objects, vectors), NEW st, AloneStay(st),
           NEW op, op.sort \in O!Sorts,
           NEW x \in Ids, O!LeftAlone(st.refs, x, st.at)
    PROVE  /\ st.db.rows[x] = objects[x] /\ st.db.vectors[x] = vectors[x]
           /\ ~op.unique /\ op.sort # "player" /\ x \in O!Twins(op) =>
                 x \in O!Candidates(st, op)
           /\ /\ x \in O!Candidates(st, op)
              /\ vectors[x].desc = op.desc /\ vectors[x].fact = op.fact
              => x \in O!Twins(op)
<1>1. st.db.rows[x] = objects[x] /\ st.db.vectors[x] = vectors[x]
  BY DEF AloneStay
<1>2. vectors[x] # O!Untold =>
          objects[x] \in O!Row /\ vectors[x].sort = objects[x].sort
  BY DEF VectorsTell
<1>3. ASSUME ~op.unique, op.sort # "player", x \in O!Twins(op)
      PROVE  x \in O!Candidates(st, op)
  <2>1. /\ vectors[x] # O!Untold /\ vectors[x].sort = op.sort
        /\ objects[x].status # "inactive"
        /\ op.brief => O!InReach(objects[x])
    BY <1>3 DEF O!Twins
  <2> QED
    BY <1>1, <1>2, <1>3, <2>1 DEF O!Candidates
<1>4. ASSUME x \in O!Candidates(st, op),
             vectors[x].desc = op.desc, vectors[x].fact = op.fact
      PROVE  x \in O!Twins(op)
  <2>1. /\ vectors[x] # O!Untold /\ objects[x].sort = op.sort
        /\ objects[x].status # "inactive"
        /\ op.brief => O!InReach(objects[x])
    BY <1>1, <1>4 DEF O!Candidates
  <2>2. x \in O!Present
    BY <1>2, <2>1, NoneDiffers DEF O!Present
  <2> QED
    BY <1>2, <1>4, <2>1, <2>2 DEF O!Twins
<1> QED
  BY <1>1, <1>3, <1>4

\* A creation that nothing like it was found for has no twin that the patch
\* left alone.
LEMMA NewIsJustified ==
    ASSUME TextsAreStored, VectorsTell(objects, vectors), patch \in Patches \cup {<<>>},
           NEW st, AttemptInv(st), st.at \in 1..Len(patch), O!IsCreate(st.at),
           NEW text, text = O!TextOf(O!Created(patch[st.at])), text # O!Untold,
           NEW o \in O!Nearest(st, patch[st.at]),
           o = O!Nobody \/ O!Similarity(text, st.db.vectors[o]) # 2,
           NEW id \in Ids, objects[id] = O!NoRow
    PROVE  Justified(st.refs, id, st.at)
<1> DEFINE i == st.at
           op == patch[i]
<1>1. op \in O!Creation /\ op.sort \in O!Sorts /\ O!Created(op) \in O!Row
  BY PatchFacts DEF O!Creation
<1>2. Says(text, O!Created(op))
  BY <1>1, TextTells
<1>3. text.desc = op.desc /\ text.fact = op.fact
  BY <1>2 DEF Says, O!Created
<1>4. ASSUME ~op.unique, op.sort # "player", NEW x \in O!Twins(op),
             O!LeftAlone(st.refs, x, i)
      PROVE  FALSE
  <2>1. x \in Ids /\ vectors[x].desc = op.desc /\ vectors[x].fact = op.fact
    BY DEF O!Twins, O!Present
  <2>2. x \in O!Candidates(st, op) /\ st.db.vectors[x] = vectors[x]
    BY <1>1, <1>4, <2>1, TwinsAreCandidates DEF AttemptInv
  <2>3. O!Similarity(text, st.db.vectors[x]) = 2
    BY <1>3, <2>1, <2>2, SimilarityFacts
  <2>4. /\ o # O!Nobody
        /\ O!Similarity(text, st.db.vectors[o]) >= O!Similarity(text, st.db.vectors[x])
    BY <2>2, NearestFacts
  <2>5. O!Similarity(text, st.db.vectors[o]) \in {0, 1, 2}
    BY SimilarityFacts
  <2> QED
    BY <2>3, <2>4, <2>5
<1> QED
  BY <1>4 DEF Justified

\* An old object that the patch left alone is a twin, or the arbiter said so.
LEMMA OldIsJustified ==
    ASSUME TextsAreStored, VectorsTell(objects, vectors), patch \in Patches \cup {<<>>},
           NEW st, AttemptInv(st), st.at \in 1..Len(patch), O!IsCreate(st.at),
           NEW text, text = O!TextOf(O!Created(patch[st.at])), text # O!Untold,
           NEW o \in O!Candidates(st, patch[st.at]),
           \/ O!Similarity(text, st.db.vectors[o]) = 2
           \/ /\ O!TextOf(st.db.rows[o]) # O!Untold
              /\ O!Question(text, O!TextOf(st.db.rows[o]), st.db.vectors[o])
                    \in DOMAIN artifacts.verdicts
              /\ artifacts.verdicts[O!Question(text, O!TextOf(st.db.rows[o]),
                                               st.db.vectors[o])],
           O!LeftAlone(st.refs, o, st.at)
    PROVE  Justified(st.refs, o, st.at)
<1> DEFINE i == st.at
           op == patch[i]
<1>1. op \in O!Creation /\ op.sort \in O!Sorts /\ O!Created(op) \in O!Row
  BY PatchFacts DEF O!Creation
<1>2. Says(text, O!Created(op))
  BY <1>1, TextTells
<1>3. text.desc = op.desc /\ text.fact = op.fact
  BY <1>2 DEF Says, O!Created
<1>4. o \in Ids /\ st.db.vectors[o] # O!Untold
  BY DEF O!Candidates
<1>5. /\ st.db.rows[o] = objects[o] /\ st.db.vectors[o] = vectors[o]
      /\ vectors[o].desc = op.desc /\ vectors[o].fact = op.fact => o \in O!Twins(op)
  BY <1>1, <1>4, TwinsAreCandidates DEF AttemptInv
<1>6. objects[o] \in O!Row /\ objects[o] # O!NoRow
  BY <1>4, <1>5, NoneDiffers DEF VectorsTell
<1>7. CASE O!Similarity(text, st.db.vectors[o]) = 2
  BY <1>3, <1>5, <1>6, <1>7, SimilarityFacts DEF Justified
<1>8. ASSUME NEW other, other = O!TextOf(objects[o]), other # O!Untold,
             NEW q, q = O!Question(text, other, vectors[o]),
             q \in DOMAIN artifacts.verdicts, artifacts.verdicts[q]
      PROVE  Justified(st.refs, o, st.at)
  <2>1. Says(other, objects[o])
    BY <1>6, <1>8, TextTells
  <2>2. q.incoming = text /\ q.candidate = other
    BY <1>8 DEF O!Question
  <2>3. O!Affirmed(op, o)
    BY <1>3, <1>8, <2>1, <2>2 DEF O!Affirmed, Says
  <2> QED
    BY <1>6, <2>3 DEF Justified
<1> QED
  BY <1>5, <1>7, <1>8

\* What becomes of a creation whose text is known.
LEMMA CreateOutcome ==
    ASSUME TextsAreStored, ArtifactsOK, VectorsTell(objects, vectors),
           patch \in Patches \cup {<<>>},
           NEW st, AttemptInv(st), st.at \in 1..Len(patch), O!IsCreate(st.at),
           O!TextOf(O!Created(patch[st.at])) # O!Untold,
           NEW o \in O!Nearest(st, patch[st.at]),
           NEW res, res = O!ObjectCreate(st, patch[st.at], o)
    PROVE  \/ res.need = O!Refusal \/ FreshRequest(res.need)
           \/ /\ res.need = O!NoNeed
              /\ O!IdsAreLeft(st.rows) => Proceeds(st, res)
<1> DEFINE i == st.at
           op == patch[i]
           text == O!TextOf(O!Created(op))
           like == IF o = O!Nobody THEN 0 ELSE O!Similarity(text, st.db.vectors[o])
           other == O!TextOf(st.db.rows[o])
           question == O!Question(text, other, st.db.vectors[o])
           verdicts == artifacts.verdicts
<1>1. /\ IsAttempt(st) /\ st.need = O!NoNeed /\ i <= Len(patch)
      /\ \A r : O!Needs(st, r).need = r
  <2>1. Len(patch) \in Nat
    BY DEF Operation
  <2> QED
    BY <2>1 DEF AttemptInv, IsAttempt, O!Needs
<1>2. /\ op \in O!Creation /\ op.ref \notin Ids /\ O!Created(op) \in O!Row
      /\ op.sort \in O!Sorts
  BY PatchFacts DEF O!Creation
<1>3. text \in Texted
  BY <1>2, TextTells
<1>4. like \in {0, 1, 2} /\ (o = O!Nobody => like = 0)
  BY SimilarityFacts
<1>5. \/ o = O!Nobody
      \/ o \in O!Candidates(st, op) /\ o \in Ids /\ o # O!Nobody
  BY NearestFacts
<1>6. ASSUME o \in O!Candidates(st, op), o \in Ids
      PROVE  st.db.rows[o] \in O!Row /\ st.db.vectors[o] \in Texted
  <2>1. st.db.vectors[o] # O!Untold /\ st.db.rows[o].sort = op.sort
    BY <1>6 DEF O!Candidates
  <2>2. /\ st.db.vectors[o] \in Texted \cup {O!Untold}
        /\ st.db.rows[o] \in O!Row \cup {O!NoRow}
    BY <1>1, <1>6 DEF IsAttempt, VectorTable, Table, Maybe
  <2>3. O!NoRow.sort = "none" /\ "none" \notin O!Sorts
    BY DEF O!NoRow, O!Sorts
  <2> QED
    BY <1>2, <2>1, <2>2, <2>3
<1>7. ASSUME like # 2, op.ref \notin DOMAIN st.refs, res = O!AddObject(st, op, text)
      PROVE  res.need = O!NoNeed /\ (O!IdsAreLeft(st.rows) => Proceeds(st, res))
  <2>1. \A id \in Ids : objects[id] = O!NoRow => Justified(st.refs, id, i)
    BY <1>7, NewIsJustified
  <2>2. res.need = O!NoNeed
    BY <1>1, <1>7 DEF O!AddObject, IsAttempt
  <2>3. O!IdsAreLeft(st.rows) => Proceeds(st, res)
    BY <1>1, <1>7, <2>1, AddProceeds
  <2> QED
    BY <2>2, <2>3
<1>8. ASSUME o # O!Nobody, op.ref \notin DOMAIN st.refs, res = O!Reuse(st, op, o),
             \/ like = 2
             \/ /\ other # O!Untold /\ question \in DOMAIN verdicts
                /\ verdicts[question]
      PROVE  FreshRequest(res.need) \/ (res.need = O!NoNeed /\ Proceeds(st, res))
  <2>1. o \in O!Candidates(st, op)
    BY <1>5, <1>8
  <2>2. O!LeftAlone(st.refs, o, i) => Justified(st.refs, o, i)
    BY <1>8, <2>1, OldIsJustified
  <2> QED
    BY <1>1, <1>8, <2>1, <2>2, ReuseProceeds
<1>9. CASE op.ref \in DOMAIN st.refs
  <2>1. res = O!Refused(st)
    BY <1>9 DEF O!ObjectCreate
  <2> QED
    BY <1>1, <2>1 DEF O!Refused
<1>10. CASE op.ref \notin DOMAIN st.refs /\ like = 2
  <2>1. res = O!Reuse(st, op, o)
    BY <1>10 DEF O!ObjectCreate
  <2> QED
    BY <1>4, <1>8, <1>10, <2>1
<1>11. CASE op.ref \notin DOMAIN st.refs /\ like = 0
  <2>1. res = O!AddObject(st, op, text)
    BY <1>11 DEF O!ObjectCreate
  <2> QED
    BY <1>7, <1>11, <2>1
<1>12. CASE op.ref \notin DOMAIN st.refs /\ like = 1
  <2>1. /\ o # O!Nobody /\ o \in O!Candidates(st, op) /\ o \in Ids
        /\ st.db.rows[o] \in O!Row /\ st.db.vectors[o] \in Texted
    BY <1>4, <1>5, <1>6, <1>12
  <2>2. res = CASE other = O!Untold -> O!Needs(st, O!TextRequest(st.db.rows[o]))
                [] other # O!Untold /\ question \notin DOMAIN verdicts ->
                      O!Needs(st, [kind |-> "verdict", question |-> question])
                [] other # O!Untold /\ question \in DOMAIN verdicts ->
                      IF verdicts[question] THEN O!Reuse(st, op, o)
                      ELSE O!AddObject(st, op, text)
    BY <1>12 DEF O!ObjectCreate
  <2>3. CASE other = O!Untold
    <3>1. res = O!Needs(st, O!TextRequest(st.db.rows[o]))
      BY <2>2, <2>3
    <3>2. O!CacheKey(st.db.rows[o]) \notin DOMAIN artifacts.texts
      BY <2>1, <2>3, TextTells
    <3> QED
      BY <1>1, <2>1, <3>1, <3>2 DEF FreshRequest
  <2>4. CASE other # O!Untold /\ question \notin DOMAIN verdicts
    <3>1. res.need = VerdictRequest(question)
      BY <1>1, <2>2, <2>4 DEF VerdictRequest
    <3>2. other \in Texted
      BY <2>1, <2>4, TextTells
    <3>3. question \in Question
      BY <1>3, <2>1, <3>2 DEF O!Question, Question
    <3> QED
      BY <2>4, <3>1, <3>3 DEF FreshRequest
  <2>5. CASE other # O!Untold /\ question \in DOMAIN verdicts /\ verdicts[question]
    <3>1. res = O!Reuse(st, op, o)
      BY <2>2, <2>5
    <3> QED
      BY <1>8, <1>12, <2>1, <2>5, <3>1
  <2>6. CASE other # O!Untold /\ question \in DOMAIN verdicts /\ ~verdicts[question]
    <3>1. res = O!AddObject(st, op, text)
      BY <2>2, <2>6
    <3> QED
      BY <1>7, <1>12, <3>1
  <2> QED
    BY <2>3, <2>4, <2>5, <2>6
<1> QED
  BY <1>4, <1>9, <1>10, <1>11, <1>12

\* What becomes of an operation.
LEMMA OperationOutcome ==
    ASSUME TextsAreStored, ArtifactsOK, VectorsTell(objects, vectors),
           patch \in Patches \cup {<<>>}, AttemptInv(attempt), O!MoreToApply,
           NEW res \in O!Applied
    PROVE  \/ res.need = O!Refusal \/ FreshRequest(res.need)
           \/ /\ res.need = O!NoNeed
              /\ O!IdsAreLeft(attempt.rows) => AttemptInv([res EXCEPT !.at = @ + 1])
<1> DEFINE i == attempt.at
           op == patch[i]
<1>1. /\ i \in 1..Len(patch) /\ i <= Len(patch) /\ IsAttempt(attempt)
      /\ attempt.need = O!NoNeed
  <2>1. Len(patch) \in Nat
    BY DEF Operation
  <2> QED
    BY <2>1 DEF AttemptInv, IsAttempt, O!MoreToApply
<1>2. PICK o \in (IF O!IsCreate(i) THEN O!Nearest(attempt, op) ELSE {O!Nobody}) :
          res = O!ApplyOperation(attempt, o)
  BY DEF O!Applied
<1> DEFINE ready == IF O!IsCreate(i) /\ O!FirstOfChunk(i)
                    THEN O!PrepareChunk(attempt, i) ELSE attempt
<1>3. res = CASE ready.need # O!NoNeed -> ready
              [] ready.need = O!NoNeed /\ O!IsCreate(i) -> O!ObjectCreate(ready, op, o)
              [] OTHER -> O!ObjectUpdate(ready, op)
  BY <1>2 DEF O!ApplyOperation
<1>4. CASE ~O!IsCreate(i)
  <2>1. res = O!ObjectUpdate(attempt, op)
    BY <1>1, <1>3, <1>4
  <2>2. \/ res.need = O!Refusal \/ FreshRequest(res.need)
        \/ res.need = O!NoNeed /\ Proceeds(attempt, res)
    BY <1>1, <1>4, <2>1, UpdateProceeds
  <2>3. Proceeds(attempt, res) => AttemptInv([res EXCEPT !.at = @ + 1])
    BY <1>1, <1>4, NextAttempt
  <2> QED
    BY <2>2, <2>3
<1>5. CASE O!IsCreate(i)
  <2>1. \/ FreshRequest(ready.need)
        \/ ready = attempt /\ ChunkIsTold(i)
    <3>1. CASE O!FirstOfChunk(i)
      BY <1>1, <1>5, <3>1, ChunkOutcome
    <3>2. CASE ~O!FirstOfChunk(i)
      BY <1>1, <1>5, <3>2 DEF AttemptInv, RestIsTold
    <3> QED
      BY <3>1, <3>2
  <2> HIDE DEF ready
  <2>2. CASE FreshRequest(ready.need)
    <3>1. ready.need # O!NoNeed
      BY <2>2, FreshRequests, RequestKinds
    <3> QED
      BY <1>3, <2>2, <3>1
  <2>3. CASE ready = attempt /\ ChunkIsTold(i)
    <3>1. res = O!ObjectCreate(attempt, op, o)
      BY <1>1, <1>3, <1>5, <2>3
    <3>2. i \in O!Chunk(i)
      BY <1>1, <1>5 DEF O!Chunk
    <3>3. O!TextOf(O!Created(op)) # O!Untold
      BY <2>3, <3>2 DEF ChunkIsTold
    <3>4. \/ res.need = O!Refusal \/ FreshRequest(res.need)
          \/ /\ res.need = O!NoNeed
             /\ O!IdsAreLeft(attempt.rows) => Proceeds(attempt, res)
      BY <1>1, <1>2, <1>5, <3>1, <3>3, CreateOutcome
    <3>5. Proceeds(attempt, res) => AttemptInv([res EXCEPT !.at = @ + 1])
      BY <1>1, <1>5, <2>3, NextAttempt
    <3> QED
      BY <3>4, <3>5
  <2> QED
    BY <2>1, <2>2, <2>3
<1> QED
  BY <1>4, <1>5

-----------------------------------------------------------------------------
\* What an attempt reads does not change while it lasts.
LEMMA AttemptFrame ==
    ASSUME UNCHANGED <<objects, vectors, cache, artifacts, patch>>,
           NEW st, AttemptInv(st)
    PROVE  AttemptInv(st)'
<1> USE DEF O!IsCreate, O!Subject, O!LeftAlone, NameOf, GoneBy
<1>1. /\ IsAttempt(st) /\ st.at <= Len(patch) + 1
      /\ VectorsTell(st.rows, st.vectors)
      /\ RowsStay(st) /\ AloneStay(st) /\ DeathsAreKnown(st)
      /\ NamesAreKnown(st) /\ CreationsAreOK(st) /\ RestIsTold(st)
  BY DEF AttemptInv
<1>2. /\ IsAttempt(st)' /\ (st.at <= Len(patch) + 1)'
      /\ VectorsTell(st.rows, st.vectors)'
  BY <1>1
<1>3. RowsStay(st)' /\ AloneStay(st)'
  BY <1>1 DEF RowsStay, AloneStay
<1>4. DeathsAreKnown(st)' /\ NamesAreKnown(st)'
  BY <1>1 DEF DeathsAreKnown, NamesAreKnown
<1>5. \A refs, o, i : Justified(refs, o, i)' <=> Justified(refs, o, i)
  BY DEF Justified, O!Twins, O!Present, O!Affirmed
<1>6. CreationsAreOK(st)'
  BY <1>1, <1>5 DEF CreationsAreOK, CreationOK
<1>7. \A row : O!TextOf(row)' = O!TextOf(row)
  BY DEF O!TextOf
<1>8. RestIsTold(st)'
  BY <1>1, <1>7 DEF RestIsTold, ChunkIsTold, O!FirstOfChunk, O!Chunk
<1> QED
  BY <1>2, <1>3, <1>4, <1>6, <1>8 DEF AttemptInv

\* An attempt begins with what is committed.
LEMMA FirstAttempt ==
    ASSUME StoreInv', NEW st, st = O!Begin'
    PROVE  AttemptInv(st)'
<1>1. st = [at |-> 1, rows |-> objects', vectors |-> vectors',
            db |-> [rows |-> objects', vectors |-> vectors'],
            refs |-> O!Empty, need |-> O!NoNeed]
  BY DEF O!Begin
<1>2. /\ objects' \in Table /\ vectors' \in VectorTable
      /\ VectorsTell(objects', vectors') /\ patch' \in Patches \cup {<<>>}
  BY DEF StoreInv
<1>3. /\ st.at = 1 /\ st.rows = objects' /\ st.vectors = vectors'
      /\ st.db = [rows |-> objects', vectors |-> vectors']
      /\ st.db.rows = objects' /\ st.db.vectors = vectors'
      /\ st.refs = O!Empty /\ st.need = O!NoNeed
  BY <1>1
<1>4. DOMAIN O!Empty = {} /\ O!Empty = [r \in DOMAIN O!Empty |-> O!Empty[r]]
  BY DEF O!Empty
<1>5. IsAttempt(st)
  BY <1>1, <1>2, <1>3, <1>4 DEF IsAttempt
<1>6. 1 <= Len(patch') + 1
  <2>1. Len(patch') \in Nat
    BY <1>2 DEF Operation
  <2> QED
    BY <2>1
<1>7. VectorsTell(st.rows, st.vectors)
  BY <1>2, <1>3
<1>8. RowsStay(st)' /\ AloneStay(st)'
  BY <1>3 DEF RowsStay, AloneStay
<1>9. DeathsAreKnown(st)'
  BY <1>3 DEF DeathsAreKnown
<1>10. NamesAreKnown(st)' /\ CreationsAreOK(st)'
  BY <1>3 DEF NamesAreKnown, CreationsAreOK
<1>11. RestIsTold(st)'
  BY <1>3 DEF RestIsTold, O!FirstOfChunk
<1> QED
  BY <1>3, <1>5, <1>6, <1>7, <1>8, <1>9, <1>10, <1>11 DEF AttemptInv

LEMMA InitPatch == ASSUME O!Init PROVE PatchInv
<1>1. /\ objects \in Population
      /\ vectors = [o \in Ids |-> IF objects[o] = O!NoRow THEN O!Untold
                                  ELSE O!Profile(objects[o], "model")]
      /\ cache = O!Empty /\ artifacts = O!NoArtifacts /\ patch = <<>>
      /\ stage = "idle" /\ need = O!NoNeed /\ attempt = O!NoTx
      /\ patches = 0 /\ noise = 0
  BY DEF O!Init
<1>2. objects \in Table
  BY <1>1 DEF Table, Maybe
<1>3. ASSUME NEW o \in Ids
      PROVE  /\ vectors[o] \in Texted \cup {O!Untold}
             /\ vectors[o] # O!Untold =>
                   objects[o] \in O!Row /\ Says(vectors[o], objects[o])
  <2>1. CASE objects[o] = O!NoRow
    BY <1>1, <2>1
  <2>2. CASE objects[o] # O!NoRow
    <3>1. objects[o] \in O!Row /\ vectors[o] = O!Profile(objects[o], "model")
      BY <1>1, <1>2, <2>2 DEF Table, Maybe
    <3> QED
      BY <3>1, ProfileFacts
  <2> QED
    BY <2>1, <2>2
<1>4. vectors \in VectorTable /\ VectorsTell(objects, vectors)
  <2>1. vectors = [o \in Ids |-> vectors[o]]
    BY <1>1
  <2> QED
    BY <1>3, <2>1 DEF VectorTable, VectorsTell, Says
<1>5. DOMAIN O!Empty = {} /\ O!Empty = [r \in DOMAIN O!Empty |-> O!Empty[r]]
  BY DEF O!Empty
<1>6. /\ artifacts = [texts |-> O!Empty, vectors |-> {}, verdicts |-> O!Empty]
      /\ artifacts.texts = O!Empty /\ artifacts.vectors = {}
      /\ artifacts.verdicts = O!Empty
  BY <1>1 DEF O!NoArtifacts
<1>7. TextsAreStored /\ ArtifactsOK
  BY <1>1, <1>5, <1>6 DEF TextsAreStored, TextsOK, ArtifactsOK
<1>8. patches \in 0..MaxPatches /\ noise \in 0..MaxNoise
  BY <1>1
<1> QED
  BY <1>1, <1>2, <1>4, <1>7, <1>8 DEF PatchInv, StoreInv, StageInv

LEMMA BeginPatchStep ==
    ASSUME PatchInv, O!BeginPatch
    PROVE  PatchInv'
<1>1. /\ UNCHANGED <<objects, vectors, cache, need, noise>>
      /\ patches < MaxPatches /\ patches' = patches + 1 /\ patch' \in Patches
      /\ stage = "idle" /\ stage' = "apply" /\ attempt' = O!Begin
      /\ artifacts' = O!NoArtifacts /\ asked' = {}
  BY DEF O!BeginPatch, O!world
<1>2. DOMAIN O!Empty = {} /\ O!Empty = [r \in DOMAIN O!Empty |-> O!Empty[r]]
  BY DEF O!Empty
<1>3. /\ artifacts' = [texts |-> O!Empty, vectors |-> {}, verdicts |-> O!Empty]
      /\ artifacts'.texts = O!Empty /\ artifacts'.vectors = {}
      /\ artifacts'.verdicts = O!Empty
  BY <1>1 DEF O!NoArtifacts
<1>4. TextsAreStored' /\ ArtifactsOK'
  BY <1>1, <1>2, <1>3 DEF PatchInv, StoreInv, TextsAreStored, TextsOK, ArtifactsOK
<1>5. StoreInv'
  BY <1>1, <1>4 DEF PatchInv, StoreInv
<1>6. attempt' = O!Begin'
  BY <1>1 DEF O!Begin
<1>7. \E st : st = attempt' /\ AttemptInv(st)'
  BY <1>5, <1>6, FirstAttempt
<1>8. need' = O!NoNeed /\ asked' \subseteq Answered'
  BY <1>1 DEF PatchInv, StageInv
<1>9. StageInv'
  BY <1>1, <1>7, <1>8 DEF StageInv
<1> QED
  BY <1>5, <1>9 DEF PatchInv

LEMMA ApplyNextStep ==
    ASSUME PatchInv, O!ApplyNext
    PROVE  PatchInv'
<1>1. PICK res \in O!Applied :
          /\ O!MoreToApply /\ O!IdsAreLeft(attempt.rows) /\ res.need = O!NoNeed
          /\ attempt' = [res EXCEPT !.at = @ + 1]
          /\ UNCHANGED <<objects, vectors, cache, patch, stage, need, artifacts,
                         refMap, asked, patches, noise>>
  BY DEF O!ApplyNext, O!world
<1>2. /\ stage = "apply" /\ AttemptInv(attempt)
      /\ asked \subseteq Answered /\ need = O!NoNeed
  BY <1>1 DEF O!MoreToApply, PatchInv, StageInv
<1>3. \/ res.need = O!Refusal \/ FreshRequest(res.need)
      \/ AttemptInv([res EXCEPT !.at = @ + 1])
  BY <1>1, <1>2, OperationOutcome DEF PatchInv, StoreInv
<1>4. AttemptInv([res EXCEPT !.at = @ + 1])
  <2>1. O!NoNeed # O!Refusal
    BY DEF O!NoNeed, O!Refusal
  <2>2. ~FreshRequest(O!NoNeed)
    BY FreshRequests, RequestKinds DEF PatchInv, StoreInv
  <2> QED
    BY <1>1, <1>3, <2>1, <2>2
<1>5. \E st : st = attempt' /\ AttemptInv(st)'
  BY <1>1, <1>4, AttemptFrame
<1>6. StoreInv'
  BY <1>1 DEF PatchInv, StoreInv, TextsAreStored, TextsOK, ArtifactsOK
<1>7. asked' \subseteq Answered'
  BY <1>1, <1>2 DEF Answered
<1> QED
  BY <1>1, <1>2, <1>5, <1>6, <1>7 DEF PatchInv, StageInv

LEMMA RollbackStep ==
    ASSUME PatchInv, O!RollbackForPreparation
    PROVE  PatchInv' /\ asked \cap O!Asks(need') = {}
<1>1. PICK res \in O!Applied :
          /\ O!MoreToApply /\ need' = res.need /\ need' \notin {O!NoNeed, O!Refusal}
          /\ stage' = "prepare" /\ attempt' = O!NoTx
          /\ asked' = asked \cup O!Asks(need')
          /\ UNCHANGED <<objects, vectors, cache, patch, artifacts, refMap,
                         patches, noise>>
  BY DEF O!RollbackForPreparation, O!world
<1>2. stage = "apply" /\ AttemptInv(attempt) /\ asked \subseteq Answered
  BY <1>1 DEF O!MoreToApply, PatchInv, StageInv
<1>3. FreshRequest(res.need)
  BY <1>1, <1>2, OperationOutcome DEF PatchInv, StoreInv
<1>4. IsRequest(res.need) /\ Answered \cap O!Asks(res.need) = {}
  BY <1>3, FreshRequests DEF PatchInv, StoreInv
<1>5. asked \cap O!Asks(need') = {}
  BY <1>1, <1>2, <1>4
<1>6. StoreInv'
  BY <1>1 DEF PatchInv, StoreInv, TextsAreStored, TextsOK, ArtifactsOK
<1>7. IsRequest(need')
  BY <1>1, <1>4
<1>8. asked' \subseteq Answered' \cup O!Asks(need')
  BY <1>1, <1>2 DEF Answered
<1>9. StageInv'
  BY <1>1, <1>7, <1>8 DEF StageInv
<1> QED
  BY <1>5, <1>6, <1>9 DEF PatchInv

LEMMA RefuseStep ==
    ASSUME PatchInv, O!RefusePatch
    PROVE  PatchInv'
<1>1. /\ stage = "apply" /\ stage' = "idle" /\ attempt' = O!NoTx
      /\ UNCHANGED <<objects, vectors, cache, patch, need, artifacts, refMap,
                     asked, patches, noise>>
  BY DEF O!RefusePatch, O!MoreToApply, O!world
<1>2. StoreInv'
  BY <1>1 DEF PatchInv, StoreInv, TextsAreStored, TextsOK, ArtifactsOK
<1> QED
  BY <1>1, <1>2 DEF PatchInv, StageInv

\* What is committed has every creation resolved.
LEMMA CommitPatchStep ==
    ASSUME PatchInv, O!CommitPatch
    PROVE  PatchInv' /\ O!CreationsAreResolved
<1>1. /\ stage = "apply" /\ ~(attempt.at <= Len(patch))
      /\ objects' = attempt.rows /\ vectors' = attempt.vectors
      /\ refMap' = attempt.refs /\ stage' = "idle" /\ attempt' = O!NoTx
      /\ UNCHANGED <<cache, patch, need, artifacts, asked, patches, noise>>
  BY DEF O!CommitPatch, O!MoreToApply, PatchInv, StageInv
<1>2. AttemptInv(attempt) /\ need = O!NoNeed
  BY <1>1 DEF PatchInv, StageInv
<1>3. /\ attempt.rows \in Table /\ attempt.vectors \in VectorTable
      /\ VectorsTell(attempt.rows, attempt.vectors)
  BY <1>2 DEF AttemptInv, IsAttempt
<1>4. StoreInv'
  BY <1>1, <1>3 DEF PatchInv, StoreInv, TextsAreStored, TextsOK, ArtifactsOK
<1>5. StageInv'
  BY <1>1, <1>2 DEF StageInv
<1>6. attempt.at = Len(patch) + 1 /\ DOMAIN patch = 1..Len(patch) /\ Len(patch) \in Nat
  <2>1. DOMAIN patch = 1..Len(patch) /\ Len(patch) \in Nat
    BY DEF PatchInv, StoreInv, Operation
  <2> QED
    BY <1>1, <1>2, <2>1 DEF AttemptInv, IsAttempt
<1>7. ASSUME NEW i \in O!Creations
      PROVE  LET op == patch[i]
                 o == O!Subject(refMap', i)
             IN  /\ objects'[o].sort = op.sort
                 /\ objects'[o].status = "inactive" =>
                       \E u \in DOMAIN patch \ O!Creations :
                           /\ O!Subject(refMap', u) = o
                           /\ patch[u].values.status = "inactive"
                 /\ O!LeftAlone(refMap', o, i) =>
                       IF objects[o] = O!NoRow
                       THEN \/ op.unique \/ op.sort = "player"
                            \/ \A x \in O!Twins(op) : ~O!LeftAlone(refMap', x, i)
                       ELSE o \in O!Twins(op) \/ O!Affirmed(op, o)
  <2> DEFINE o == O!Subject(refMap', i)
  <2>1. i \in 1..(attempt.at - 1) /\ O!IsCreate(i)
    BY <1>6 DEF O!Creations
  <2>2. CreationOK(attempt, i)
    BY <1>2, <2>1 DEF AttemptInv, CreationsAreOK
  <2>3. /\ objects'[o].sort = patch[i].sort
        /\ objects'[o].status = "inactive" => GoneBy(refMap', o, attempt.at)
        /\ O!LeftAlone(refMap', o, i) => Justified(refMap', o, i)
    BY <1>1, <2>2 DEF CreationOK
  <2>4. GoneBy(refMap', o, attempt.at) =>
            \E u \in DOMAIN patch \ O!Creations :
                O!Subject(refMap', u) = o /\ patch[u].values.status = "inactive"
    BY <1>6 DEF GoneBy, O!Creations
  <2> QED
    BY <2>3, <2>4 DEF Justified
<1>8. O!CreationsAreResolved
  BY <1>7 DEF O!CreationsAreResolved
<1> QED
  BY <1>4, <1>5, <1>8 DEF PatchInv

\* An answer among the others: the patch is applied again.
LEMMA RetryStep ==
    ASSUME PatchInv, stage = "prepare", NEW learnt, O!Retry(learnt),
           TextsAreStored', ArtifactsOK',
           Answered \subseteq Answered', O!Asks(need) \subseteq Answered'
    PROVE  PatchInv'
<1>1. /\ stage' = "apply" /\ need' = O!NoNeed /\ attempt' = O!Begin
      /\ UNCHANGED <<objects, vectors, patch, refMap, asked, patches, noise>>
  BY DEF O!Retry
<1>2. StoreInv'
  BY <1>1 DEF PatchInv, StoreInv
<1>3. attempt' = O!Begin'
  BY <1>1 DEF O!Begin
<1>4. \E st : st = attempt' /\ AttemptInv(st)'
  BY <1>2, <1>3, FirstAttempt
<1>5. asked' \subseteq Answered'
  BY <1>1 DEF PatchInv, StageInv
<1> QED
  BY <1>1, <1>2, <1>4, <1>5 DEF PatchInv, StageInv

\* A model's text goes to the cache.
LEMMA CachedText ==
    ASSUME TextsOK(cache), NEW row \in O!Row, NEW text \in Texted, Says(text, row),
           cache' = IF text.by = "model"
                    THEN O!With(cache, O!CacheKey(row), text) ELSE cache
    PROVE  TextsOK(cache')
  BY LearntTexts

LEMMA PrepareTextStep ==
    ASSUME PatchInv, O!PrepareText
    PROVE  PatchInv'
<1>1. PICK by \in {"model", "plain"} :
          LET key == O!CacheKey(need.row)
              text == O!Synthesized(need.row, by)
          IN  /\ O!Retry(O!LearnText(key, text))
              /\ cache' = IF text.by = "model" THEN O!With(cache, key, text) ELSE cache
  BY DEF O!PrepareText
<1> DEFINE row == need.row
           key == O!CacheKey(row)
           text == O!Synthesized(row, by)
           texts == O!With(artifacts.texts, key, text)
<1>2. stage = "prepare" /\ need.kind = "text" /\ IsRequest(need)
  BY DEF O!PrepareText, PatchInv, StageInv
<1>3. row \in O!Row /\ need = O!TextRequest(row)
  BY <1>2, RequestKinds
<1>4. TextsAreStored /\ ArtifactsOK
  BY DEF PatchInv, StoreInv
<1>5. text \in Texted /\ Says(text, row)
  BY <1>3, <1>4, SynthesizedTells
<1>6. artifacts' = O!LearnText(key, text)
  BY <1>1 DEF O!Retry
<1>7. TextsOK(cache')
  <2> HIDE DEF text
  <2>1. cache' = IF text.by = "model" THEN O!With(cache, O!CacheKey(row), text) ELSE cache
    BY <1>1 DEF text
  <2> QED
    BY <1>3, <1>4, <1>5, <2>1, CachedText DEF TextsAreStored
<1> HIDE DEF text
<1>8. TextsOK(texts)
  BY <1>3, <1>4, <1>5, LearntTexts DEF TextsAreStored
<1>9. DOMAIN texts = DOMAIN artifacts.texts \cup {key}
  BY DEF O!With
<1>10. O!Asks(need) = {key}
  BY <1>3 DEF O!Asks, O!TextRequest
<1> HIDE DEF texts, key
<1>11. artifacts' = [artifacts EXCEPT !.texts = texts]
  BY <1>6 DEF O!LearnText, texts
<1>12. artifacts' = [texts |-> texts, vectors |-> artifacts.vectors,
                     verdicts |-> artifacts.verdicts]
  BY <1>4, <1>11 DEF ArtifactsOK
<1>13. /\ artifacts'.texts = texts /\ artifacts'.vectors = artifacts.vectors
       /\ artifacts'.verdicts = artifacts.verdicts
  BY <1>12
<1>14. TextsAreStored' /\ ArtifactsOK'
  BY <1>4, <1>7, <1>8, <1>12, <1>13 DEF TextsAreStored, TextsOK, ArtifactsOK
<1>15. Answered \subseteq Answered' /\ O!Asks(need) \subseteq Answered'
  BY <1>9, <1>10, <1>13 DEF Answered
<1>16. O!Retry(O!LearnText(key, text))
  BY <1>1 DEF key, text
<1> QED
  BY <1>2, <1>14, <1>15, <1>16, RetryStep

LEMMA PrepareVectorsStep ==
    ASSUME PatchInv, O!PrepareVectors
    PROVE  PatchInv'
<1> DEFINE learnt == [artifacts EXCEPT !.vectors = @ \cup need.texts]
<1>1. stage = "prepare" /\ need.kind = "vectors" /\ O!Retry(learnt) /\ cache' = cache
  BY DEF O!PrepareVectors
<1>2. TextsAreStored /\ ArtifactsOK /\ IsRequest(need)
  BY <1>1 DEF PatchInv, StoreInv, StageInv
<1>3. need.texts \in SUBSET Texted /\ need = O!VectorRequest(need.texts)
  BY <1>1, <1>2, RequestKinds
<1>4. O!Asks(need) = need.texts
  BY <1>1 DEF O!Asks
<1>5. artifacts' = learnt
  BY <1>1 DEF O!Retry
<1>6. artifacts' = [texts |-> artifacts.texts,
                    vectors |-> artifacts.vectors \cup need.texts,
                    verdicts |-> artifacts.verdicts]
  BY <1>2, <1>5 DEF ArtifactsOK
<1>7. /\ artifacts'.texts = artifacts.texts
      /\ artifacts'.vectors = artifacts.vectors \cup need.texts
      /\ artifacts'.verdicts = artifacts.verdicts
  BY <1>6
<1>8. TextsAreStored' /\ ArtifactsOK'
  BY <1>1, <1>2, <1>3, <1>6, <1>7 DEF TextsAreStored, TextsOK, ArtifactsOK
<1>9. Answered \subseteq Answered' /\ O!Asks(need) \subseteq Answered'
  BY <1>4, <1>7 DEF Answered
<1> QED
  BY <1>1, <1>8, <1>9, RetryStep

LEMMA PrepareVerdictStep ==
    ASSUME PatchInv, O!PrepareVerdict
    PROVE  PatchInv'
<1>1. PICK same \in BOOLEAN :
          /\ stage = "prepare" /\ need.kind = "verdict" /\ cache' = cache
          /\ O!Retry([artifacts EXCEPT !.verdicts = O!With(@, need.question, same)])
  BY DEF O!PrepareVerdict
<1> DEFINE verdicts == O!With(artifacts.verdicts, need.question, same)
<1>2. TextsAreStored /\ ArtifactsOK /\ IsRequest(need)
  BY <1>1 DEF PatchInv, StoreInv, StageInv
<1>3. need.question \in Question /\ need = VerdictRequest(need.question)
  BY <1>1, <1>2, RequestKinds
<1>4. O!Asks(need) = {need.question}
  BY <1>1 DEF O!Asks
<1>5. /\ DOMAIN verdicts = DOMAIN artifacts.verdicts \cup {need.question}
      /\ verdicts = [q \in DOMAIN verdicts |-> verdicts[q]]
      /\ verdicts[need.question] = same
      /\ \A q \in DOMAIN artifacts.verdicts :
            q # need.question => verdicts[q] = artifacts.verdicts[q]
  BY DEF O!With
<1> HIDE DEF verdicts
<1>6. artifacts' = [artifacts EXCEPT !.verdicts = verdicts]
  BY <1>1 DEF O!Retry, verdicts
<1>7. artifacts' = [texts |-> artifacts.texts, vectors |-> artifacts.vectors,
                    verdicts |-> verdicts]
  BY <1>2, <1>6 DEF ArtifactsOK
<1>8. /\ artifacts'.texts = artifacts.texts /\ artifacts'.vectors = artifacts.vectors
      /\ artifacts'.verdicts = verdicts
  BY <1>7
<1>9. \A q \in DOMAIN verdicts : q \in Question /\ verdicts[q] \in BOOLEAN
  <2> SUFFICES ASSUME NEW q \in DOMAIN verdicts
               PROVE  q \in Question /\ verdicts[q] \in BOOLEAN
    OBVIOUS
  <2>1. \A x \in DOMAIN artifacts.verdicts :
            x \in Question /\ artifacts.verdicts[x] \in BOOLEAN
    BY <1>2 DEF ArtifactsOK
  <2> QED
    BY <1>3, <1>5, <2>1, Zenon
<1>10. TextsAreStored'
  BY <1>1, <1>2, <1>8 DEF TextsAreStored, TextsOK
<1>11. ArtifactsOK'
  <2>1. artifacts'.vectors \subseteq Texted
    BY <1>2, <1>8 DEF ArtifactsOK
  <2> QED
    BY <1>5, <1>7, <1>8, <1>9, <2>1 DEF ArtifactsOK
<1>12. Answered \subseteq Answered' /\ O!Asks(need) \subseteq Answered'
  BY <1>4, <1>5, <1>8 DEF Answered
<1> QED
  BY <1>1, <1>10, <1>11, <1>12, RetryStep

LEMMA FailureStep ==
    ASSUME PatchInv, O!EmbeddingFails
    PROVE  PatchInv'
<1>1. /\ stage = "prepare" /\ stage' = "idle" /\ need' = O!NoNeed
      /\ UNCHANGED <<objects, vectors, cache, patch, attempt, artifacts, refMap,
                     asked, patches, noise>>
  BY DEF O!EmbeddingFails, O!world
<1>2. StoreInv'
  BY <1>1 DEF PatchInv, StoreInv, TextsAreStored, TextsOK, ArtifactsOK
<1> QED
  BY <1>1, <1>2 DEF PatchInv, StageInv
-----------------------------------------------------------------------------
\* Others do something only where no attempt is under way.
LEMMA OthersKeepStage ==
    ASSUME PatchInv, attempt = O!NoTx,
           UNCHANGED <<patch, stage, need, attempt, artifacts, refMap, asked, patches>>
    PROVE  stage # "apply" /\ StageInv'
<1>1. stage # "apply"
  <2>1. ASSUME NEW st, AttemptInv(st), st = O!NoTx PROVE FALSE
    <3>1. st.at # 0
      BY <2>1 DEF AttemptInv, IsAttempt
    <3> QED
      BY <2>1, <3>1 DEF O!NoTx
  <2> QED
    BY <2>1 DEF PatchInv, StageInv
<1>2. Answered' = Answered
  BY DEF Answered
<1> QED
  BY <1>1, <1>2 DEF PatchInv, StageInv

LEMMA ArrivalStep ==
    ASSUME PatchInv, O!CreateObjectByEndpoint
    PROVE  PatchInv'
<1>1. PICK row \in Arrivals :
          objects' = [objects EXCEPT ![CHOOSE o \in Ids : objects[o] = O!NoRow] = row]
  BY DEF O!CreateObjectByEndpoint
<1>2. PICK id : id = CHOOSE o \in Ids : objects[o] = O!NoRow
  OBVIOUS
<1>3. /\ attempt = O!NoTx /\ O!IdsAreLeft(objects)
      /\ noise < MaxNoise /\ noise' = noise + 1
      /\ UNCHANGED <<vectors, cache, patch, stage, need, attempt, artifacts,
                     refMap, asked, patches>>
  BY DEF O!CreateObjectByEndpoint, O!Meanwhile, O!loop
<1>4. id \in Ids /\ objects[id] = O!NoRow
  BY <1>2, <1>3 DEF O!IdsAreLeft
<1>5. /\ objects \in Table /\ VectorsTell(objects, vectors)
      /\ objects' = [objects EXCEPT ![id] = row] /\ row \in O!Row
  BY <1>1, <1>2 DEF PatchInv, StoreInv
<1>6. objects' \in Table /\ \A o \in Ids : o # id => objects'[o] = objects[o]
  BY <1>4, <1>5 DEF Table, Maybe
<1>7. vectors[id] = O!Untold
  BY <1>4, <1>5, NoneDiffers DEF VectorsTell
<1>8. VectorsTell(objects', vectors')
  BY <1>3, <1>5, <1>6, <1>7 DEF VectorsTell
<1>9. noise' \in 0..MaxNoise
  BY <1>3 DEF PatchInv, StoreInv
<1>10. StoreInv'
  BY <1>3, <1>6, <1>8, <1>9
  DEF PatchInv, StoreInv, TextsAreStored, TextsOK, ArtifactsOK
<1> QED
  BY <1>3, <1>10, OthersKeepStage DEF PatchInv

LEMMA RefreshStep ==
    ASSUME PatchInv, O!RefreshProfile
    PROVE  PatchInv'
<1>1. PICK o \in O!Present, by \in {"model", "plain"} :
          LET key == O!CacheKey(objects[o])
              text == O!Synthesized(objects[o], by)
          IN  /\ vectors[o] = O!Untold
              /\ vectors' = [vectors EXCEPT ![o] = text]
              /\ cache' = IF text.by = "model" THEN O!With(cache, key, text) ELSE cache
  BY DEF O!RefreshProfile
<1> DEFINE text == O!Synthesized(objects[o], by)
<1>2. /\ attempt = O!NoTx
      /\ UNCHANGED <<objects, patch, stage, need, attempt, artifacts, refMap,
                     asked, patches, noise>>
  BY DEF O!RefreshProfile, O!loop
<1>3. /\ objects \in Table /\ vectors \in VectorTable /\ VectorsTell(objects, vectors)
      /\ TextsAreStored /\ ArtifactsOK
  BY DEF PatchInv, StoreInv
<1>4. o \in Ids /\ objects[o] \in O!Row
  BY <1>3 DEF O!Present, Table, Maybe
<1>5. text \in Texted /\ Says(text, objects[o])
  BY <1>3, <1>4, SynthesizedTells
<1>6. /\ vectors' = [vectors EXCEPT ![o] = text]
      /\ cache' = IF text.by = "model"
                  THEN O!With(cache, O!CacheKey(objects[o]), text) ELSE cache
  BY <1>1
<1> HIDE DEF text
<1>7. TextsOK(cache')
  BY <1>3, <1>4, <1>5, <1>6, CachedText DEF TextsAreStored
<1>8. /\ vectors' \in VectorTable /\ vectors'[o] = text
      /\ \A x \in Ids : x # o => vectors'[x] = vectors[x]
  BY <1>3, <1>4, <1>5, <1>6 DEF VectorTable
<1>9. VectorsTell(objects', vectors')
  BY <1>2, <1>3, <1>4, <1>5, <1>8 DEF VectorsTell, Says
<1>10. StoreInv'
  BY <1>2, <1>7, <1>8, <1>9
  DEF PatchInv, StoreInv, TextsAreStored, TextsOK, ArtifactsOK
<1> QED
  BY <1>2, <1>10, OthersKeepStage DEF PatchInv

LEMMA EvictionStep ==
    ASSUME PatchInv, O!EvictText
    PROVE  PatchInv'
<1>1. PICK key \in DOMAIN cache : cache' = [k \in DOMAIN cache \ {key} |-> cache[k]]
  BY DEF O!EvictText
<1>2. /\ attempt = O!NoTx /\ noise < MaxNoise /\ noise' = noise + 1
      /\ UNCHANGED <<objects, vectors, patch, stage, need, attempt, artifacts,
                     refMap, asked, patches>>
  BY DEF O!EvictText, O!Meanwhile, O!loop
<1>3. /\ DOMAIN cache' = DOMAIN cache \ {key}
      /\ cache' = [k \in DOMAIN cache' |-> cache'[k]]
      /\ \A k \in DOMAIN cache' : cache'[k] = cache[k]
  BY <1>1
<1>4. TextsOK(cache')
  BY <1>3 DEF PatchInv, StoreInv, TextsAreStored, TextsOK
<1>5. noise' \in 0..MaxNoise
  BY <1>2 DEF PatchInv, StoreInv
<1>6. StoreInv'
  BY <1>2, <1>4, <1>5
  DEF PatchInv, StoreInv, TextsAreStored, TextsOK, ArtifactsOK
<1> QED
  BY <1>2, <1>6, OthersKeepStage DEF PatchInv
-----------------------------------------------------------------------------
LEMMA PatchStep == ASSUME PatchInv, [O!Next]_(O!vars) PROVE PatchInv'
<1>1. CASE UNCHANGED O!vars
  <2>1. /\ UNCHANGED <<objects, vectors, cache, patch, stage, need, attempt,
                       artifacts, asked, patches, noise>>
    BY <1>1 DEF O!vars
  <2>2. StoreInv'
    BY <2>1 DEF PatchInv, StoreInv, TextsAreStored, TextsOK, ArtifactsOK
  <2>3. Answered' = Answered
    BY <2>1 DEF Answered
  <2>4. stage = "apply" => \E st : st = attempt' /\ AttemptInv(st)'
    BY <2>1, AttemptFrame DEF PatchInv, StageInv
  <2>5. StageInv'
    BY <2>1, <2>3, <2>4 DEF PatchInv, StageInv
  <2> QED
    BY <2>2, <2>5 DEF PatchInv
<1>2. CASE O!Next
  BY <1>2, BeginPatchStep, ApplyNextStep, RollbackStep, RefuseStep, CommitPatchStep,
     PrepareTextStep, PrepareVectorsStep, PrepareVerdictStep, FailureStep,
     ArrivalStep, RefreshStep, EvictionStep DEF O!Next
<1> QED
  BY <1>1, <1>2

\* Whoever takes part and whatever is answered, evicted or created meanwhile:
\* vectors tell their objects, a committed patch has resolved each of its
\* creations, and no attempt asks for what an earlier one was answered.
THEOREM PatchesCorrect == O!Spec => AppliedPatchIsSound
<1>1. O!Init => PatchInv
  BY InitPatch
<1>2. PatchInv /\ [O!Next]_(O!vars) => PatchInv'
  BY PatchStep
<1>3. PatchInv => O!TypeOK /\ O!VectorsTellTheObjects
  <2> SUFFICES ASSUME PatchInv PROVE O!TypeOK /\ O!VectorsTellTheObjects
    OBVIOUS
  <2>1. /\ VectorsTell(objects, vectors)
        /\ patches \in 0..MaxPatches /\ noise \in 0..MaxNoise
    BY DEF PatchInv, StoreInv
  <2>2. O!VectorsTellTheObjects
    BY <2>1 DEF VectorsTell, O!VectorsTellTheObjects
  <2>3. \A o \in Ids : vectors[o] # O!Untold => objects[o] # O!NoRow
    BY <2>1, NoneDiffers DEF VectorsTell
  <2>4. stage = "prepare" <=> need # O!NoNeed
    BY RequestKinds DEF PatchInv, StageInv
  <2>5. need.kind \in {"none", "text", "vectors", "verdict"}
    <3>1. O!NoNeed.kind = "none"
      BY DEF O!NoNeed
    <3> QED
      BY <3>1, RequestKinds DEF PatchInv, StageInv
  <2>6. stage = "apply" <=> attempt # O!NoTx
    <3>1. ASSUME NEW st, AttemptInv(st), st = O!NoTx PROVE FALSE
      <4>1. st.at # 0
        BY <3>1 DEF AttemptInv, IsAttempt
      <4> QED
        BY <3>1, <4>1 DEF O!NoTx
    <3> QED
      BY <3>1 DEF PatchInv, StageInv
  <2> QED
    BY <2>1, <2>2, <2>3, <2>4, <2>5, <2>6 DEF O!TypeOK, PatchInv, StageInv
<1>4. PatchInv /\ [O!Next]_(O!vars) => [O!CommitPatch => O!CreationsAreResolved]_(O!vars)
  BY CommitPatchStep
<1>5. PatchInv /\ [O!Next]_(O!vars) =>
          [O!RollbackForPreparation => asked \cap O!Asks(need') = {}]_(O!vars)
  BY RollbackStep
<1> QED
  BY <1>1, <1>2, <1>3, <1>4, <1>5, PTL
  DEF O!Spec, AppliedPatchIsSound, O!AppliedPatchIsSound, O!NothingIsAskedTwice

HIDE ObjectsAssumption
-----------------------------------------------------------------------------
(***************************************************************************)
(* The candidates for a prompt.                                            *)
(***************************************************************************)
USE PromptBudgetAssumption

LEMMA PromptSums ==
    /\ \A f, S : B!SumFunctionOnSet(f, S) = SumFunctionOnSet(f, S)
    /\ \A f : B!SumFunction(f) = SumFunctionOnSet(f, DOMAIN f)
<1>1. \A f, S : B!SumFunctionOnSet(f, S) = SumFunctionOnSet(f, S)
  BY DEF SumFunctionOnSet, FoldFunctionOnSet, MapThenFoldSet,
         B!SumFunctionOnSet, B!FoldFunctionOnSet, B!MapThenFoldSet
<1> QED
  BY <1>1 DEF B!SumFunction

LEMMA PromptCardinality == \A S : B!Cardinality(S) = Cardinality(S)
  BY DEF Cardinality, B!Cardinality

LEMMA LargerOfTwo ==
    ASSUME NEW m \in Int, NEW n \in Int
    PROVE  B!Max({m, n}) = IF m >= n THEN m ELSE n
<1> DEFINE top == IF m >= n THEN m ELSE n
<1>1. top \in {m, n} /\ \A y \in {m, n} : top >= y
  OBVIOUS
<1>2. \A x \in {m, n} : (\A y \in {m, n} : x >= y) => x = top
  OBVIOUS
<1> QED
  BY <1>1, <1>2 DEF B!Max

LEMMA SmallerOfTwo ==
    ASSUME NEW m \in Int, NEW n \in Int
    PROVE  B!Min({m, n}) = IF m <= n THEN m ELSE n
<1> DEFINE low == IF m <= n THEN m ELSE n
<1>1. low \in {m, n} /\ \A y \in {m, n} : low <= y
  OBVIOUS
<1>2. \A x \in {m, n} : (\A y \in {m, n} : x <= y) => x = low
  OBVIOUS
<1> QED
  BY <1>1, <1>2 DEF B!Min

LEMMA ImageIsFinite ==
    ASSUME NEW f, IsFiniteSet(DOMAIN f)
    PROVE  IsFiniteSet({f[x] : x \in DOMAIN f})
<1> DEFINE image == {f[x] : x \in DOMAIN f}
           g == [x \in DOMAIN f |-> f[x]]
<1>1. g \in Surjection(DOMAIN f, image)
  BY DEF Surjection
<1> QED
  BY <1>1, FS_Surjection

\* A turn, told in one of its two ways, and a record.
TurnItem(t, v) ==
    [source |-> t, field |-> "recent_turns", category |-> B!CategoryOf(t),
     variant |-> v, class |-> "none", weight |-> B!None, similarity |-> 50,
     importance |-> 50, anchored |-> FALSE, turn |-> t,
     context |-> v = "full" /\ B!Neighbours(t) # {}]
RecordItem(x) ==
    [source |-> x.source, field |-> x.field, category |-> x.category,
     variant |-> "default", class |-> B!MemoryClass(x), weight |-> x.weight,
     similarity |-> x.similarity, importance |-> B!Importance(x),
     anchored |-> x.anchored, turn |-> x.turn, context |-> FALSE]

LEMMA CandidatesAre ==
    B!Candidates =
        {TurnItem(t, v) : t \in Turns \ Directors, v \in {"compact", "full"}} \cup
        {RecordItem(x) : x \in B!Offered}
BY DEF B!Candidates, B!TurnItems, TurnItem, RecordItem

LEMMA ItemFields ==
    /\ \A t, v : /\ TurnItem(t, v).source = t /\ TurnItem(t, v).variant = v
                 /\ TurnItem(t, v).class = "none"
                 /\ TurnItem(t, v).category = B!CategoryOf(t)
                 /\ TurnItem(t, v).weight = -1 /\ TurnItem(t, v).turn = t
                 /\ TurnItem(t, v).similarity = 50 /\ TurnItem(t, v).importance = 50
                 /\ TurnItem(t, v).anchored = FALSE
    /\ \A x : /\ RecordItem(x).source = x.source /\ RecordItem(x).variant = "default"
              /\ RecordItem(x).class = B!MemoryClass(x)
              /\ RecordItem(x).category = x.category
BY DEF TurnItem, RecordItem, B!None

LEMMA CandidatesAreFinite == IsFiniteSet(B!Candidates)
<1> DEFINE told(v) == {TurnItem(t, v) : t \in Turns \ Directors}
           records == {RecordItem(x) : x \in B!Offered}
<1>1. IsFiniteSet(Turns \ Directors) /\ IsFiniteSet(B!Offered)
  BY FS_Subset DEF B!Offered
<1>2. IsFiniteSet(told("compact")) /\ IsFiniteSet(told("full"))
  <2>1. ASSUME NEW v PROVE IsFiniteSet(told(v))
    <3> DEFINE f == [t \in Turns \ Directors |-> TurnItem(t, v)]
    <3>1. told(v) = {f[t] : t \in DOMAIN f} /\ DOMAIN f = Turns \ Directors
      OBVIOUS
    <3> HIDE DEF f, told
    <3> QED
      BY <1>1, <3>1, ImageIsFinite
  <2> QED
    BY <2>1
<1>3. IsFiniteSet(records)
  <2> DEFINE f == [x \in B!Offered |-> RecordItem(x)]
  <2>1. records = {f[x] : x \in DOMAIN f} /\ DOMAIN f = B!Offered
    OBVIOUS
  <2> HIDE DEF f, records
  <2> QED
    BY <1>1, <2>1, ImageIsFinite
<1>4. B!Candidates = (told("compact") \cup told("full")) \cup records
  BY CandidatesAre
<1> HIDE DEF told, records
<1> QED
  BY <1>2, <1>3, <1>4, FS_Union

\* Of two items that are not in full the sources differ.
LEMMA SourcesDiffer ==
    ASSUME NEW x \in B!Candidates, NEW y \in B!Candidates,
           x.variant # "full", y.variant # "full", x.source = y.source
    PROVE  x = y
<1>1. ASSUME NEW z \in B!Candidates, z.variant # "full"
      PROVE  \/ z.source \in Turns /\ z = TurnItem(z.source, "compact")
             \/ \E r \in Others : z = RecordItem(r) /\ z.source = r.source
  BY <1>1, CandidatesAre, ItemFields DEF B!Offered
<1>2. CASE x.source \in Turns
  BY <1>1, <1>2
<1>3. CASE x.source \notin Turns
  BY <1>1, <1>3
<1> QED
  BY <1>2, <1>3

LEMMA ItemsArePriced ==
    ASSUME NEW x \in B!Candidates
    PROVE  <<x.source, x.variant>> \in B!Variants
BY DEF B!Variants

-----------------------------------------------------------------------------
(***************************************************************************)
(* What a pack takes.  The operators of PromptBudget read the pack; these  *)
(* take it as an argument.                                                 *)
(***************************************************************************)

PackOK(p) ==
    /\ p.mode \in {"unified", "elastic", "entropy"}
    /\ p.cap \in Nat /\ p.base = 1 /\ p.extra \in Nat
    /\ p.cost \in [B!Variants -> Nat \ {0}]

Price(p, x) == p.cost[<<x.source, x.variant>>]
Sizes(p) == [x \in B!Candidates |-> Price(p, x) + p.extra]
Total(p, items) == SumFunctionOnSet(Sizes(p), items)
Overhead(p, texts) == p.base + SumFunctionOnSet(texts, DOMAIN texts)
Left(p, texts) == B!Max({p.cap - Overhead(p, texts), 0})

LEMMA PricesAreThose ==
    /\ \A x : B!Cost(x) = Price(pack, x)
    /\ \A items : B!SizeOf(items) = Total(pack, items)
    /\ \A texts : B!FixedSize(texts) = Overhead(pack, texts)
BY PromptSums DEF B!Cost, B!SizeOf, B!Size, B!FixedSize, Price, Total, Sizes, Overhead

LEMMA PricesOK ==
    ASSUME NEW p, PackOK(p)
    PROVE  /\ \A x \in B!Candidates : /\ Price(p, x) \in Nat \ {0}
                                      /\ Sizes(p)[x] = Price(p, x) + p.extra
                                      /\ Sizes(p)[x] \in Nat \ {0}
           /\ \A S \in SUBSET B!Candidates : IsFiniteSet(S) /\ Total(p, S) \in Nat
<1>1. \A x \in B!Candidates : Price(p, x) \in Nat \ {0}
  BY ItemsArePriced DEF PackOK, Price
<1>2. \A x \in B!Candidates : Sizes(p)[x] = Price(p, x) + p.extra
  BY DEF Sizes
<1>3. \A x \in B!Candidates : Sizes(p)[x] \in Nat \ {0}
  BY <1>1, <1>2 DEF PackOK
<1>4. ASSUME NEW S \in SUBSET B!Candidates
      PROVE  IsFiniteSet(S) /\ Total(p, S) \in Nat
  <2>1. IsFiniteSet(S)
    BY CandidatesAreFinite, FS_Subset
  <2>2. \A x \in S : Sizes(p)[x] \in Nat
    BY <1>3
  <2> QED
    BY <2>1, <2>2, SumIsNat DEF Total
<1> QED
  BY <1>1, <1>2, <1>3, <1>4

LEMMA TotalOfNothing == \A p : Total(p, {}) = 0
BY FS_EmptySet, SumOfFirst DEF Total

LEMMA TotalOfOneMore ==
    ASSUME NEW p, PackOK(p), NEW S \in SUBSET B!Candidates,
           NEW x \in B!Candidates, x \notin S
    PROVE  Total(p, S \cup {x}) = Total(p, S) + Price(p, x) + p.extra
<1> DEFINE U == S \cup {x}
<1>1. U \in SUBSET B!Candidates /\ x \in U /\ U \ {x} = S
  OBVIOUS
<1>2. IsFiniteSet(U) /\ \A y \in U : Sizes(p)[y] \in Int
  BY <1>1, PricesOK
<1>3. Total(p, U) = Sizes(p)[x] + Total(p, S)
  <2> HIDE DEF U
  <2> QED
    BY <1>1, <1>2, SumOfOneMore DEF Total
<1>4. /\ Sizes(p)[x] = Price(p, x) + p.extra /\ Total(p, S) \in Nat
      /\ Price(p, x) \in Nat /\ p.extra \in Nat
  BY PricesOK DEF PackOK
<1> QED
  BY <1>3, <1>4

LEMMA TotalOfOneLess ==
    ASSUME NEW p, PackOK(p), NEW S \in SUBSET B!Candidates, NEW x \in S
    PROVE  Total(p, S) = Total(p, S \ {x}) + Price(p, x) + p.extra
<1>1. S \ {x} \in SUBSET B!Candidates /\ x \in B!Candidates /\ x \notin S \ {x}
      /\ (S \ {x}) \cup {x} = S
  OBVIOUS
<1> QED
  BY <1>1, TotalOfOneMore

-----------------------------------------------------------------------------
(* The fixed texts. *)

Texts3 == [B!TrimmedTexts -> Nat]

LEMMA TrimmedAre ==
    /\ B!TrimmedTexts = {"world_prompt", "state_summary", "constitution"}
    /\ IsFiniteSet(B!TrimmedTexts)
    /\ B!TrimOrder[1] = "world_prompt" /\ B!TrimOrder[2] = "state_summary"
    /\ B!TrimOrder[3] = "constitution"
<1>1. /\ B!TrimmedTexts = {"world_prompt", "state_summary", "constitution"}
      /\ B!TrimOrder[1] = "world_prompt" /\ B!TrimOrder[2] = "state_summary"
      /\ B!TrimOrder[3] = "constitution"
  BY DEF B!TrimmedTexts, B!TrimOrder
<1>2. IsFiniteSet({"world_prompt"} \cup {"state_summary"} \cup {"constitution"})
  <2>1. IsFiniteSet({"world_prompt"})
    BY FS_Singleton
  <2>2. IsFiniteSet({"world_prompt"} \cup {"state_summary"})
    BY <2>1, FS_AddElement
  <2> QED
    BY <2>2, FS_AddElement
<1>3. B!TrimmedTexts = {"world_prompt"} \cup {"state_summary"} \cup {"constitution"}
  BY <1>1
<1> QED
  BY <1>1, <1>2, <1>3

\* With another size of one text.
LEMMA FixedSizes ==
    ASSUME PackOK(pack), NEW texts \in Texts3
    PROVE  /\ B!FixedSize(texts) \in Nat
           /\ \A s \in B!TrimmedTexts, n \in Nat :
                B!FixedSize([texts EXCEPT ![s] = n])
                    = B!FixedSize(texts) - texts[s] + n
<1>1. DOMAIN texts = B!TrimmedTexts /\ \A q \in B!TrimmedTexts : texts[q] \in Nat
  BY DEF Texts3
<1>2. ASSUME NEW t \in Texts3
      PROVE  /\ B!FixedSize(t) = 1 + SumFunctionOnSet(t, B!TrimmedTexts)
             /\ SumFunctionOnSet(t, B!TrimmedTexts) \in Nat
  <2>1. DOMAIN t = B!TrimmedTexts /\ \A q \in B!TrimmedTexts : t[q] \in Nat
    BY DEF Texts3
  <2>2. SumFunctionOnSet(t, B!TrimmedTexts) \in Nat
    BY <2>1, TrimmedAre, SumIsNat
  <2>3. B!SumFunction(t) = SumFunctionOnSet(t, B!TrimmedTexts)
    BY <2>1, PromptSums
  <2> QED
    BY <2>2, <2>3 DEF B!FixedSize, PackOK
<1>3. ASSUME NEW s \in B!TrimmedTexts, NEW n \in Nat
      PROVE  B!FixedSize([texts EXCEPT ![s] = n]) = B!FixedSize(texts) - texts[s] + n
  <2> DEFINE new == [texts EXCEPT ![s] = n]
             others == B!TrimmedTexts \ {s}
  <2>1. new \in Texts3 /\ new[s] = n /\ \A q \in others : new[q] = texts[q]
    BY DEF Texts3
  <2>2. IsFiniteSet(others)
    BY TrimmedAre, FS_RemoveElement
  <2>3. SumFunctionOnSet(new, others) = SumFunctionOnSet(texts, others)
    <3> HIDE DEF new, others
    <3> QED
      BY <2>1, <2>2, SumOfTheSame
  <2>4. ASSUME NEW t \in Texts3
        PROVE  SumFunctionOnSet(t, B!TrimmedTexts) = t[s] + SumFunctionOnSet(t, others)
    <3>1. \A q \in B!TrimmedTexts : t[q] \in Int
      BY DEF Texts3
    <3> QED
      BY <3>1, TrimmedAre, SumOfOneMore
  <2>5. SumFunctionOnSet(texts, others) \in Nat
    <3>1. \A q \in others : texts[q] \in Nat
      BY <1>1
    <3> HIDE DEF others
    <3> QED
      BY <2>2, <3>1, SumIsNat
  <2>6. /\ B!FixedSize(new) = 1 + SumFunctionOnSet(new, B!TrimmedTexts)
        /\ B!FixedSize(texts) = 1 + SumFunctionOnSet(texts, B!TrimmedTexts)
    BY <1>2, <2>1
  <2>7. /\ SumFunctionOnSet(new, B!TrimmedTexts) = n + SumFunctionOnSet(texts, others)
        /\ SumFunctionOnSet(texts, B!TrimmedTexts)
            = texts[s] + SumFunctionOnSet(texts, others)
    BY <2>1, <2>3, <2>4
  <2>8. texts[s] \in Nat
    BY <1>1
  <2> HIDE DEF new, others
  <2>9. B!FixedSize(new) = B!FixedSize(texts) - texts[s] + n
    BY <2>5, <2>6, <2>7, <2>8
  <2> QED
    BY <2>9 DEF new
<1> QED
  BY <1>2, <1>3

LEMMA CutIsText ==
    ASSUME PackOK(pack), NEW texts \in Texts3, NEW s \in B!TrimmedTexts
    PROVE  B!CutToFloor(texts, s) \in Texts3
BY DEF B!CutToFloor, Texts3, B!Floor

\* Trimming one text makes the pack fit, or leaves nothing of the text.
LEMMA TrimIsText ==
    ASSUME PackOK(pack), NEW texts \in Texts3, NEW s \in B!TrimmedTexts,
           NEW new, new = B!TrimText(texts, s)
    PROVE  /\ new \in Texts3
           /\ B!FixedSize(texts) <= pack.cap => new = texts
           /\ \A q \in B!TrimmedTexts \ {s} : new[q] = texts[q]
           /\ B!FixedSize(new) <= pack.cap \/ new[s] = 0
<1>1. B!FixedSize(texts) \in Nat /\ pack.cap \in Nat /\ texts[s] \in Nat
  BY FixedSizes DEF PackOK, Texts3
<1>2. CASE B!FixedSize(texts) <= pack.cap
  BY <1>2 DEF B!TrimText
<1>3. CASE ~(B!FixedSize(texts) <= pack.cap)
  <2> DEFINE left == texts[s] - (B!FixedSize(texts) - pack.cap) - 1
             n == IF left >= 0 THEN left ELSE 0
  <2>1. B!Max({left, 0}) = n
    BY <1>1, LargerOfTwo
  <2>2. new = [texts EXCEPT ![s] = n]
    BY <1>3, <2>1 DEF B!TrimText, B!Buffer
  <2>3. n \in Nat
    BY <1>1
  <2>4. B!FixedSize(new) = B!FixedSize(texts) - texts[s] + n
    <3> HIDE DEF n
    <3>1. B!FixedSize([texts EXCEPT ![s] = n]) = B!FixedSize(texts) - texts[s] + n
      BY <2>3, FixedSizes
    <3> QED
      BY <2>2, <3>1
  <2>5. new[s] = n /\ new \in Texts3 /\ \A q \in B!TrimmedTexts \ {s} : new[q] = texts[q]
    <3> HIDE DEF n
    <3> QED
      BY <2>2, <2>3 DEF Texts3
  <2>6. B!FixedSize(new) <= pack.cap \/ n = 0
    BY <1>1, <2>4
  <2> HIDE DEF n
  <2> QED
    BY <1>3, <2>5, <2>6
<1> QED
  BY <1>2, <1>3

\* The texts fit, or nothing is left of them.
FixedFits(p, texts) ==
    Overhead(p, texts) <= p.cap \/ \A s \in B!TrimmedTexts : texts[s] = 0

LEMMA FittedFits ==
    ASSUME PackOK(pack), NEW texts \in Texts3, NEW new, new = B!Fitted(texts)
    PROVE  /\ new \in Texts3 /\ FixedFits(pack, new)
           /\ Overhead(pack, new) \in Nat
<1> DEFINE w == "world_prompt"
           u == "state_summary"
           c == "constitution"
           t1 == B!CutToFloor(texts, w)
           t2 == B!CutToFloor(t1, u)
           t3 == B!CutToFloor(t2, c)
           t4 == B!TrimText(t3, w)
           t5 == B!TrimText(t4, u)
           t6 == B!TrimText(t5, c)
<1>1. new = t6
  BY TrimmedAre DEF B!Fitted, B!InOrder
<1>2. w \in B!TrimmedTexts /\ u \in B!TrimmedTexts /\ c \in B!TrimmedTexts
  BY TrimmedAre
<1>3. t3 \in Texts3
  <2>1. t1 \in Texts3
    BY <1>2, CutIsText
  <2> HIDE DEF t1
  <2>2. t2 \in Texts3
    BY <1>2, <2>1, CutIsText
  <2> HIDE DEF t2
  <2> QED
    BY <1>2, <2>2, CutIsText
<1> HIDE DEF t3
<1>4. t4 \in Texts3 /\ (B!FixedSize(t4) <= pack.cap \/ t4[w] = 0)
  BY <1>2, <1>3, TrimIsText
<1> HIDE DEF t4
<1>5. /\ t5 \in Texts3 /\ (B!FixedSize(t5) <= pack.cap \/ t5[u] = 0)
      /\ B!FixedSize(t4) <= pack.cap => t5 = t4
      /\ t5[w] = t4[w]
  BY <1>2, <1>4, TrimIsText
<1> HIDE DEF t5
<1>6. /\ t6 \in Texts3 /\ (B!FixedSize(t6) <= pack.cap \/ t6[c] = 0)
      /\ B!FixedSize(t5) <= pack.cap => t6 = t5
      /\ t6[w] = t5[w] /\ t6[u] = t5[u]
  BY <1>2, <1>5, TrimIsText
<1> HIDE DEF t6
<1>7. B!FixedSize(new) <= pack.cap \/ \A s \in B!TrimmedTexts : new[s] = 0
  BY <1>1, <1>4, <1>5, <1>6, TrimmedAre
<1> QED
  BY <1>1, <1>6, <1>7, FixedSizes, PricesAreThose DEF FixedFits

-----------------------------------------------------------------------------
(***************************************************************************)
(* The invariant of a pack that is being made.                             *)
(***************************************************************************)

OnePerSource(items) == \A x, y \in items : x.source = y.source => x = y

FittingOf(p, items, n) ==
    {x \in B!Candidates : x.source \notin B!SourcesOf(items) /\ Price(p, x) <= n}

UpgradesOf(p, items, n) ==
    {pair \in items \X B!Candidates :
        B!Fuller(pair[1], pair[2]) /\ Price(p, pair[2]) - Price(p, pair[1]) <= n}

PreviousIsTold(p, texts, items) ==
    \A x \in B!OfKind("prev_turn") :
        Price(p, x) <= Left(p, texts) => x.source \in B!SourcesOf(items)

PartsOK ==
    /\ PackOK(pack) /\ fixed \in Texts3
    /\ pass \in {"start", "required", "fill", "upgrade", "guard",
                 "fields", "items", "done"}
    /\ chosen \subseteq B!Candidates /\ rest \subseteq B!Candidates
    /\ room \in Nat /\ overflow \in Nat
    /\ OnePerSource(chosen)
    /\ pass = "start" => chosen = {} /\ step = 1
    /\ pass # "start" => FixedFits(pack, fixed)

\* By one score: the balance is right, and with exact counts every pass leaves
\* what it is for.
CountInv ==
    /\ pass \notin {"fields", "items"}
    /\ pass # "start" /\ pack.extra = 0 => Total(pack, chosen) + room <= Left(pack, fixed)
    /\ pass \notin {"start", "done"} => Overhead(pack, fixed) <= pack.cap
    /\ pass = "required" =>
          /\ step \in 1..4
          /\ step = 1 => chosen = {} /\ room = Left(pack, fixed)
    /\ pack.extra = 0 =>
          /\ pass # "start" /\ ~(pass = "required" /\ step = 1) =>
                PreviousIsTold(pack, fixed, chosen)
          /\ pass \in {"upgrade", "guard", "done"} => FittingOf(pack, chosen, room) = {}
          /\ pass \in {"guard", "done"} => UpgradesOf(pack, chosen, room) = {}

\* Field by field: what has been looked at and left out was too large, or the
\* field had its due.
HadItsDue(p, texts, items, unseen, field) ==
    Cardinality(items \cap B!ItemsOf(field)) < field.least =>
        \A x \in B!ItemsOf(field) \ (items \cup unseen) :
            Overhead(p, texts) + Total(p, items \cup {x}) > p.cap

FieldsInv ==
    /\ pass \in {"start", "fields", "items", "done"}
    /\ pass \in {"fields", "items"} => step \in 1..3
    /\ \A x \in chosen : x.variant # "full"
    /\ pass = "items" =>
          /\ rest \subseteq B!ItemsOf(B!Fields[step])
          /\ HadItsDue(pack, fixed, chosen, rest, B!Fields[step])
    /\ \A i \in 1..3 : pass = "done" \/ i < step =>
          HadItsDue(pack, fixed, chosen, {}, B!Fields[i])

\* What fits is kept, what does not is cut.
SizeInv ==
    /\ pass = "done" \/ pack.mode # "unified" =>
          \/ chosen = {}
          \/ Overhead(pack, fixed) + Total(pack, chosen)
                + (IF pack.mode = "unified" THEN 3 * pack.extra ELSE 0) <= pack.cap

PackInv ==
    /\ PartsOK /\ SizeInv
    /\ pack.mode = "unified" => CountInv
    /\ pack.mode # "unified" => FieldsInv

LEMMA FieldsAre ==
    /\ DOMAIN B!Fields = 1..3 /\ Len(B!Fields) = 3
    /\ B!Fields[1].name = "recent_turns" /\ B!Fields[2].name = "relevant_memories"
    /\ B!Fields[3].name = "relevant_links"
    /\ \A i \in 1..3 : B!Fields[i].base \in Nat /\ B!Fields[i].least \in Nat
BY DEF B!Fields

LEMMA PackStarts == ASSUME B!Init PROVE PackInv
<1>1. PackOK(pack) /\ fixed \in Texts3
  <2>1. /\ pack.mode \in {"unified", "elastic", "entropy"}
        /\ pack.cap \in Caps /\ pack.base = 1 /\ pack.extra \in Extras
        /\ pack.texts \in Fixes /\ pack.cost \in [B!Variants -> Costs]
    BY DEF B!Init
  <2>2. fixed = pack.texts
    BY DEF B!Init
  <2> QED
    BY <2>1, <2>2 DEF PackOK, Texts3
<1>2. /\ pass = "start" /\ step = 1 /\ chosen = {} /\ rest = {} /\ room = 0 /\ overflow = 0
  BY DEF B!Init
<1>3. PartsOK
  BY <1>1, <1>2 DEF PartsOK, OnePerSource
<1>4. CountInv
  BY <1>2 DEF CountInv
<1>5. FieldsInv
  BY <1>2 DEF FieldsInv
<1>6. SizeInv
  BY <1>2 DEF SizeInv
<1> QED
  BY <1>3, <1>4, <1>5, <1>6 DEF PackInv

\* The pack itself does not change.
LEMMA LeftIs ==
    ASSUME NEW p, PackOK(p), NEW texts, Overhead(p, texts) \in Nat
    PROVE  /\ Left(p, texts) \in Nat
           /\ Left(p, texts) = IF Overhead(p, texts) <= p.cap
                               THEN p.cap - Overhead(p, texts) ELSE 0
<1>1. p.cap \in Nat
  BY DEF PackOK
<1>2. Left(p, texts) = IF p.cap - Overhead(p, texts) >= 0
                       THEN p.cap - Overhead(p, texts) ELSE 0
  BY <1>1, LargerOfTwo DEF Left
<1> QED
  BY <1>1, <1>2

LEMMA OverheadIs ==
    ASSUME PartsOK
    PROVE  Overhead(pack, fixed) \in Nat
BY FixedSizes, PricesAreThose DEF PartsOK

\* The texts are made to fit.
LEMMA FixedIsFitted ==
    ASSUME PackInv, B!FitFixed
    PROVE  PackInv'
<1>1. /\ pass = "start" /\ fixed' = B!Fitted(fixed) /\ chosen = {} /\ step = 1
      /\ pack' = pack /\ step' = step /\ chosen' = chosen /\ rest' = rest
      /\ overflow' = overflow
  BY DEF B!FitFixed, PackInv, PartsOK
<1>2. PackOK(pack) /\ fixed \in Texts3
  BY DEF PackInv, PartsOK
<1>3. fixed' \in Texts3 /\ FixedFits(pack, fixed') /\ Overhead(pack, fixed') \in Nat
  BY <1>1, <1>2, FittedFits
<1>4. room' = Left(pack, fixed')
  <2>1. room' = B!Max({pack.cap - B!FixedSize(fixed'), 0})
    BY DEF B!FitFixed
  <2> QED
    BY <2>1, PricesAreThose DEF Left
<1>5. /\ room' \in Nat
      /\ room' = IF Overhead(pack, fixed') <= pack.cap
                 THEN pack.cap - Overhead(pack, fixed') ELSE 0
  BY <1>2, <1>3, <1>4, LeftIs
<1>6. pass' = IF pack.mode # "unified" THEN "fields"
              ELSE IF room' = 0 THEN "done" ELSE "required"
  BY DEF B!FitFixed
<1>7. PartsOK'
  BY <1>1, <1>2, <1>3, <1>5, <1>6 DEF PartsOK, OnePerSource, PackInv
<1>8. SizeInv'
  BY <1>1 DEF SizeInv
<1>9. ASSUME pack.mode = "unified"
      PROVE  CountInv'
  <2>1. Total(pack, {}) = 0
    BY TotalOfNothing
  <2>2. ASSUME room' = 0
        PROVE  PreviousIsTold(pack, fixed', {})
    <3>1. \A x \in B!OfKind("prev_turn") : Price(pack, x) \in Nat \ {0}
      BY <1>2, PricesOK DEF B!OfKind
    <3> QED
      BY <1>4, <2>2, <3>1 DEF PreviousIsTold
  <2>3. ASSUME room' = 0
        PROVE  FittingOf(pack, {}, 0) = {} /\ UpgradesOf(pack, {}, 0) = {}
    <3>1. \A x \in B!Candidates : Price(pack, x) \in Nat \ {0}
      BY <1>2, PricesOK
    <3> QED
      BY <3>1 DEF FittingOf, UpgradesOf
  <2>4. room' # 0 => Overhead(pack, fixed') <= pack.cap
    BY <1>5
  <2>5. /\ pack' = pack /\ step' = 1 /\ chosen' = {}
        /\ Total(pack, {}) + room' <= Left(pack, fixed')
    BY <1>1, <1>4, <1>5, <2>1
  <2>6. CASE room' = 0
    <3>1. pass' = "done" /\ room' = 0
      BY <1>6, <1>9, <2>6
    <3> QED
      BY <2>2, <2>3, <2>5, <3>1 DEF CountInv
  <2>7. CASE room' # 0
    <3>1. pass' = "required"
      BY <1>6, <1>9, <2>7
    <3> QED
      BY <1>4, <2>4, <2>5, <2>7, <3>1 DEF CountInv
  <2> QED
    BY <2>6, <2>7
<1>10. ASSUME pack.mode # "unified"
       PROVE  FieldsInv'
  BY <1>1, <1>6, <1>10 DEF FieldsInv
<1> QED
  BY <1>1, <1>7, <1>8, <1>9, <1>10 DEF PackInv

-----------------------------------------------------------------------------
(* By one score. *)

\* The previous turn is offered in two ways.
LEMMA PreviousTurn ==
    ASSUME NEW x \in B!OfKind("prev_turn")
    PROVE  /\ x \in B!Candidates /\ x.source = NewTurn - 1
           /\ \E v \in {"compact", "full"} : x = TurnItem(NewTurn - 1, v)
           /\ NewTurn - 1 \in Turns
<1>1. x \in B!Candidates /\ (x.category = "prev_turn"
                             \/ (x.category = "relevant_memory" /\ x.class = "prev_turn"))
  BY DEF B!OfKind
<1>2. CASE \E t \in Turns \ Directors, v \in {"compact", "full"} : x = TurnItem(t, v)
  <2>1. PICK t \in Turns \ Directors, v \in {"compact", "full"} : x = TurnItem(t, v)
    BY <1>2
  <2>2. x.category = B!CategoryOf(t) /\ x.class = "none" /\ x.source = t
    BY <2>1, ItemFields
  <2>3. B!CategoryOf(t) = "prev_turn"
    BY <1>1, <2>2
  <2>4. t = NewTurn - 1
    BY <2>3 DEF B!CategoryOf
  <2> QED
    BY <1>1, <2>1, <2>2, <2>4
<1>3. CASE \E r \in B!Offered : x = RecordItem(r)
  <2>1. PICK r \in B!Offered : x = RecordItem(r)
    BY <1>3
  <2>2. x.category = r.category /\ x.class = B!MemoryClass(r)
    BY <2>1, ItemFields
  <2>3. r.category # "prev_turn" /\ r.class # "prev_turn"
    BY DEF B!Offered
  <2>4. B!MemoryClass(r) # "prev_turn"
    BY <2>3 DEF B!MemoryClass
  <2> QED
    BY <1>1, <2>2, <2>3, <2>4
<1> QED
  BY <1>1, <1>2, <1>3, CandidatesAre

LEMMA ClampedIsNat == ASSUME NEW w \in Int PROVE B!Clamped(w) \in Nat
<1> DEFINE m == B!Max({w, 0})
<1>1. m = IF w >= 0 THEN w ELSE 0
  BY LargerOfTwo
<1>2. m \in Nat
  BY <1>1
<1> HIDE DEF m
<1>3. B!Min({m, 100}) = IF m <= 100 THEN m ELSE 100
  BY <1>2, SmallerOfTwo
<1> QED
  BY <1>2, <1>3 DEF B!Clamped, m

LEMMA TurnScore ==
    ASSUME NEW t \in Nat, NEW v, NEW x, x = TurnItem(t, v)
    PROVE  B!Score(x) \in Int
<1> DEFINE age == B!Max({NewTurn - x.turn, 0})
           sb == (IF x.anchored THEN 22 ELSE 0) + IF x.context THEN 8 ELSE 0
           tp == CASE x.category = "prev_turn" -> 100
                   [] x.category = "recent_turn" -> 82
                   [] x.category = "semantic_turn" -> 80
                   [] x.category = "relevant_memory" ->
                         86 + IF x.class = "semantic" THEN 8 ELSE 4
                   [] OTHER -> 72
<1>1. x.turn = t /\ x.similarity = 50 /\ x.importance = 50 /\ x.anchored = FALSE
      /\ x.category = B!CategoryOf(t)
  BY ItemFields
<1>2. age \in Nat
  BY <1>1, LargerOfTwo
<1>3. B!Recency(x) \in Int
  <2> HIDE DEF age
  <2>1. 5000 \div (50 + age) \in Int
    BY <1>2
  <2> QED
    BY <2>1 DEF B!Recency, age
<1>4. sb \in Int
  BY <1>1
<1>5. tp \in Int
  <2>1. x.category \in {"prev_turn", "recent_turn", "semantic_turn"}
    BY <1>1 DEF B!CategoryOf
  <2>2. CASE x.category = "prev_turn"
    BY <2>2
  <2>3. CASE x.category = "recent_turn"
    BY <2>3
  <2>4. CASE x.category = "semantic_turn"
    BY <2>4
  <2> QED
    BY <2>1, <2>2, <2>3, <2>4
<1> HIDE DEF sb, tp
<1>6. B!TypePrior(x) \in Int
  BY <1>5, ClampedIsNat DEF B!TypePrior, tp
<1>7. B!StructBonus(x) \in Int
  BY <1>4, ClampedIsNat DEF B!StructBonus, sb
<1> DEFINE sum == 35 * x.similarity + 15 * B!Recency(x) + 20 * x.importance
                  + 20 * B!TypePrior(x) + 10 * B!StructBonus(x)
<1>8. sum \in Int
  BY <1>1, <1>3, <1>6, <1>7
<1> HIDE DEF sum
<1>9. sum \div 100 \in Int
  BY <1>8
<1> QED
  BY <1>9, ClampedIsNat DEF B!Score, sum

\* Of two ways to tell a turn one does not precede the other both ways.
LEMMA PrecedesOneWay ==
    ASSUME NEW x, NEW y, B!Score(x) \in Int, B!Score(y) \in Int,
           B!Cost(x) \in Nat, B!Cost(y) \in Nat
    PROVE  ~(B!Precedes(x, y) /\ B!Precedes(y, x))
<1> DEFINE a == B!Score(x) * B!Cost(y)
           b == B!Score(y) * B!Cost(x)
<1>1. a \in Int /\ b \in Int
  OBVIOUS
<1>2. (B!Denser(x, y) <=> a > b) /\ (B!Denser(y, x) <=> b > a)
  BY DEF B!Denser
<1> HIDE DEF a, b
<1> QED
  BY <1>1, <1>2 DEF B!Precedes

LEMMA OneIsBest ==
    ASSUME PackOK(pack), NEW items, items \subseteq B!OfKind("prev_turn"), items # {}
    PROVE  \E x \in items : \A y \in items : ~B!Precedes(y, x)
<1> DEFINE short == TurnItem(NewTurn - 1, "compact")
           long == TurnItem(NewTurn - 1, "full")
<1>1. ASSUME NEW x \in items
      PROVE  B!Score(x) \in Int /\ B!Cost(x) \in Nat /\ x \in {short, long}
  <2>1. /\ x \in B!Candidates /\ NewTurn - 1 \in Nat
        /\ \E v \in {"compact", "full"} : x = TurnItem(NewTurn - 1, v)
    BY PreviousTurn
  <2>2. B!Cost(x) \in Nat
    BY <2>1, PricesOK, PricesAreThose
  <2> QED
    BY <2>1, <2>2, TurnScore
<1>2. PICK x \in items : TRUE
  OBVIOUS
<1>3. CASE \A y \in items : ~B!Precedes(y, x)
  BY <1>3
<1>4. CASE \E y \in items : B!Precedes(y, x)
  <2>1. PICK y \in items : B!Precedes(y, x)
    BY <1>4
  <2>2. ~B!Precedes(x, y) /\ ~B!Precedes(y, y)
    BY <1>1, <2>1, PrecedesOneWay
  <2>3. x # y
    BY <2>1, <2>2
  <2>4. items \subseteq {x, y}
    <3> HIDE DEF short, long
    <3> QED
      BY <1>1, <2>3
  <2> QED
    BY <2>2, <2>4
<1> QED
  BY <1>3, <1>4

\* What is chosen is paid for with what is left.
LEMMA OneMoreChosen ==
    ASSUME NEW p, PackOK(p), NEW S \in SUBSET B!Candidates, OnePerSource(S),
           NEW n \in Nat, NEW x \in FittingOf(p, S, n)
    PROVE  /\ S \cup {x} \in SUBSET B!Candidates /\ OnePerSource(S \cup {x})
           /\ n - Price(p, x) \in Nat
           /\ p.extra = 0 => Total(p, S \cup {x}) + (n - Price(p, x)) = Total(p, S) + n
           /\ B!SourcesOf(S) \subseteq B!SourcesOf(S \cup {x})
           /\ x.source \in B!SourcesOf(S \cup {x})
<1>1. x \in B!Candidates /\ x.source \notin B!SourcesOf(S) /\ Price(p, x) <= n
  BY DEF FittingOf
<1>2. Price(p, x) \in Nat
  BY <1>1, PricesOK
<1>3. x \notin S /\ OnePerSource(S \cup {x})
  BY <1>1 DEF OnePerSource, B!SourcesOf
<1>4. Total(p, S \cup {x}) = Total(p, S) + Price(p, x) + p.extra
  BY <1>1, <1>3, TotalOfOneMore
<1>5. Total(p, S) \in Nat
  BY PricesOK
<1>6. B!SourcesOf(S) \subseteq B!SourcesOf(S \cup {x}) /\ x.source \in B!SourcesOf(S \cup {x})
  BY DEF B!SourcesOf
<1>7. n - Price(p, x) \in Nat
  BY <1>1, <1>2
<1>8. p.extra = 0 => Total(p, S \cup {x}) + (n - Price(p, x)) = Total(p, S) + n
  BY <1>2, <1>4, <1>5
<1>9. S \cup {x} \in SUBSET B!Candidates
  BY <1>1
<1> QED
  BY <1>3, <1>6, <1>7, <1>8, <1>9

LEMMA FittingIs ==
    /\ \A items \in SUBSET B!Candidates :
          B!Fitting(items) = items \cap FittingOf(pack, chosen, room)
    /\ B!Upgrades = UpgradesOf(pack, chosen, room)
    /\ \A items : B!BestFitting(items) \subseteq B!Fitting(items)
BY PricesAreThose DEF B!Fitting, FittingOf, B!Upgrades, UpgradesOf, B!BestFitting

\* The step of choosing one item of a kind, or of any.
Chooses(items) ==
    \E x \in B!BestFitting(items) : chosen' = chosen \cup {x} /\ room' = room - B!Cost(x)

LEMMA ChoosingKeeps ==
    ASSUME PackInv, NEW items \in SUBSET B!Candidates, Chooses(items)
    PROVE  /\ chosen' \in SUBSET B!Candidates /\ OnePerSource(chosen') /\ room' \in Nat
           /\ pack.extra = 0 => Total(pack, chosen') + room' = Total(pack, chosen) + room
           /\ B!SourcesOf(chosen) \subseteq B!SourcesOf(chosen')
           /\ \E x \in items : x.source \in B!SourcesOf(chosen')
<1>1. PICK x \in B!BestFitting(items) :
          chosen' = chosen \cup {x} /\ room' = room - B!Cost(x)
  BY DEF Chooses
<1>2. x \in items /\ x \in FittingOf(pack, chosen, room)
  BY FittingIs
<1>3. B!Cost(x) = Price(pack, x)
  BY PricesAreThose
<1>4. PackOK(pack) /\ chosen \in SUBSET B!Candidates /\ OnePerSource(chosen) /\ room \in Nat
  BY DEF PackInv, PartsOK
<1>5. /\ chosen \cup {x} \in SUBSET B!Candidates /\ OnePerSource(chosen \cup {x})
      /\ room - Price(pack, x) \in Nat
      /\ pack.extra = 0 => Total(pack, chosen \cup {x}) + (room - Price(pack, x))
                            = Total(pack, chosen) + room
      /\ B!SourcesOf(chosen) \subseteq B!SourcesOf(chosen \cup {x})
      /\ x.source \in B!SourcesOf(chosen \cup {x})
  BY <1>2, <1>4, OneMoreChosen
<1>6. chosen' = chosen \cup {x} /\ room' = room - Price(pack, x)
  BY <1>1, <1>3
<1> QED
  BY <1>2, <1>5, <1>6

LEMMA RequiredIs == B!Required[1] = "prev_turn" /\ Len(B!Required) = 4
BY DEF B!Required

LEMMA RequiredKeeps ==
    ASSUME PackInv, B!SelectRequired
    PROVE  PackInv'
<1> DEFINE items == B!OfKind(B!Required[step])
<1>1. /\ pass = "required" /\ step' = step + 1 /\ pack' = pack /\ fixed' = fixed
      /\ rest' = rest /\ overflow' = overflow
      /\ pass' = IF step = 4 THEN "fill" ELSE pass
      /\ \/ B!BestFitting(items) = {} /\ chosen' = chosen /\ room' = room
         \/ Chooses(items)
  BY RequiredIs DEF B!SelectRequired, Chooses, B!Select
<1>2. PartsOK /\ PackOK(pack) /\ pack.mode = "unified"
  <2>1. PartsOK /\ PackOK(pack)
    BY DEF PackInv, PartsOK
  <2>2. pack.mode # "unified" => pass \in {"start", "fields", "items", "done"}
    BY DEF PackInv, FieldsInv
  <2> QED
    BY <1>1, <2>1, <2>2
<1>3. CountInv /\ step \in 1..4
  BY <1>1, <1>2 DEF PackInv, CountInv
<1>4. items \in SUBSET B!Candidates
  BY DEF B!OfKind
<1>5. /\ chosen' \in SUBSET B!Candidates /\ OnePerSource(chosen') /\ room' \in Nat
      /\ pack.extra = 0 => Total(pack, chosen') + room' = Total(pack, chosen) + room
      /\ B!SourcesOf(chosen) \subseteq B!SourcesOf(chosen')
  <2>1. CASE chosen' = chosen /\ room' = room
    BY <1>2, <2>1 DEF PartsOK
  <2>2. CASE Chooses(items)
    BY <1>4, <2>2, ChoosingKeeps
  <2> QED
    BY <1>1, <2>1, <2>2
<1>6. PartsOK'
  BY <1>1, <1>2, <1>5 DEF PartsOK
<1>7. pack.extra = 0 => PreviousIsTold(pack, fixed, chosen')
  <2>1. CASE step = 1
    <3>1. chosen = {} /\ room = Left(pack, fixed) /\ items = B!OfKind("prev_turn")
      BY <1>1, <1>3, <2>1, RequiredIs DEF CountInv
    <3>2. CASE B!BestFitting(items) = {}
      <4>1. B!Fitting(items) = {}
        <5>1. B!Fitting(items) \subseteq B!OfKind("prev_turn")
          BY <3>1 DEF B!Fitting
        <5>2. B!Fitting(items) # {} => B!BestFitting(items) # {}
          BY <1>2, <5>1, OneIsBest DEF B!BestFitting
        <5> QED
          BY <3>2, <5>2
      <4>2. items \cap FittingOf(pack, chosen, room) = {}
        BY <1>4, <4>1, FittingIs
      <4>3. \A x \in items : ~(Price(pack, x) <= room)
        BY <1>4, <3>1, <4>2 DEF FittingOf, B!SourcesOf
      <4> QED
        BY <3>1, <4>3 DEF PreviousIsTold
    <3>3. CASE Chooses(items)
      <4>1. PICK x \in items : x.source \in B!SourcesOf(chosen')
        BY <1>4, <3>3, ChoosingKeeps
      <4>2. \A y \in B!OfKind("prev_turn") : y.source = NewTurn - 1
        BY PreviousTurn
      <4> QED
        BY <3>1, <4>1, <4>2 DEF PreviousIsTold
    <3> QED
      BY <1>1, <3>2, <3>3
  <2>2. CASE step # 1 /\ pack.extra = 0
    <3>1. PreviousIsTold(pack, fixed, chosen)
      BY <1>1, <1>3, <2>2 DEF CountInv
    <3> QED
      BY <1>5, <3>1 DEF PreviousIsTold
  <2> QED
    BY <2>1, <2>2
<1>8. CountInv'
  <2>1. pass' \in {"required", "fill"} /\ (pass' = "required" => step' \in 1..4 /\ step' # 1)
    BY <1>1, <1>3
  <2>2. pack.extra = 0 => Total(pack, chosen') + room' <= Left(pack, fixed)
    BY <1>1, <1>3, <1>5 DEF CountInv
  <2>3. Overhead(pack, fixed) <= pack.cap
    BY <1>1, <1>3 DEF CountInv
  <2> QED
    BY <1>1, <1>7, <2>1, <2>2, <2>3 DEF CountInv
<1>9. SizeInv'
  BY <1>1, <1>2 DEF SizeInv
<1> QED
  BY <1>1, <1>2, <1>6, <1>8, <1>9 DEF PackInv
LEMMA FillKeeps ==
    ASSUME PackInv, B!Fill
    PROVE  PackInv'
<1>1. /\ pass = "fill" /\ pack' = pack /\ fixed' = fixed /\ step' = step
      /\ rest' = rest /\ overflow' = overflow
      /\ \/ Chooses(B!Candidates) /\ pass' = pass
         \/ /\ B!Fitting(B!Candidates) = {} /\ pass' = "upgrade"
            /\ chosen' = chosen /\ room' = room
  BY DEF B!Fill, Chooses, B!Select
<1>2. PartsOK /\ PackOK(pack) /\ pack.mode = "unified"
  <2>1. PartsOK /\ PackOK(pack)
    BY DEF PackInv, PartsOK
  <2>2. pack.mode # "unified" => pass \in {"start", "fields", "items", "done"}
    BY DEF PackInv, FieldsInv
  <2> QED
    BY <1>1, <2>1, <2>2
<1>3. /\ pack.extra = 0 => Total(pack, chosen) + room <= Left(pack, fixed)
      /\ Overhead(pack, fixed) <= pack.cap
      /\ pack.extra = 0 => PreviousIsTold(pack, fixed, chosen)
  BY <1>1, <1>2 DEF PackInv, CountInv
<1>4. SizeInv'
  BY <1>1, <1>2 DEF SizeInv
<1>5. CASE Chooses(B!Candidates) /\ pass' = pass
  <2>1. /\ chosen' \in SUBSET B!Candidates /\ OnePerSource(chosen') /\ room' \in Nat
        /\ pack.extra = 0 => Total(pack, chosen') + room' = Total(pack, chosen) + room
        /\ B!SourcesOf(chosen) \subseteq B!SourcesOf(chosen')
    BY <1>5, ChoosingKeeps
  <2>2. PartsOK'
    BY <1>1, <1>2, <1>5, <2>1 DEF PartsOK
  <2>3. pack.extra = 0 => PreviousIsTold(pack, fixed, chosen')
    BY <1>3, <2>1 DEF PreviousIsTold
  <2>4. CountInv'
    BY <1>1, <1>3, <1>5, <2>1, <2>3 DEF CountInv
  <2> QED
    BY <1>1, <1>2, <1>4, <2>2, <2>4 DEF PackInv
<1>6. CASE /\ B!Fitting(B!Candidates) = {} /\ pass' = "upgrade"
           /\ chosen' = chosen /\ room' = room
  <2>1. PartsOK'
    BY <1>1, <1>2, <1>6 DEF PartsOK
  <2>2. FittingOf(pack, chosen, room) = {}
    BY <1>6, FittingIs DEF FittingOf
  <2>3. CountInv'
    BY <1>1, <1>3, <1>6, <2>2 DEF CountInv
  <2> QED
    BY <1>1, <1>2, <1>4, <2>1, <2>3 DEF PackInv
<1> QED
  BY <1>1, <1>5, <1>6

\* The same turn in full: the difference is paid for.
LEMMA OneUpgraded ==
    ASSUME NEW p, PackOK(p), NEW S \in SUBSET B!Candidates, OnePerSource(S),
           NEW n \in Nat, NEW pair \in UpgradesOf(p, S, n),
           NEW U, U = (S \ {pair[1]}) \cup {pair[2]},
           NEW m, m = B!Max({n - B!Max({Price(p, pair[2]) - Price(p, pair[1]), 0}), 0})
    PROVE  /\ U \in SUBSET B!Candidates /\ OnePerSource(U) /\ m \in Nat /\ m <= n
           /\ p.extra = 0 => Total(p, U) + m <= Total(p, S) + n
           /\ B!SourcesOf(U) = B!SourcesOf(S)
<1> DEFINE x == pair[1]
           y == pair[2]
           d == Price(p, y) - Price(p, x)
           gain == IF d >= 0 THEN d ELSE 0
<1>1. /\ x \in S /\ y \in B!Candidates /\ x \in B!Candidates
      /\ x.source = y.source /\ x.variant = "compact" /\ y.variant = "full"
      /\ d <= n
  BY DEF UpgradesOf, B!Fuller
<1>2. Price(p, x) \in Nat /\ Price(p, y) \in Nat
  BY <1>1, PricesOK
<1>3. m = n - gain /\ m \in Nat /\ m <= n
  <2>1. B!Max({d, 0}) = gain
    BY <1>2, LargerOfTwo
  <2>2. gain \in Nat /\ gain <= n
    BY <1>1, <1>2
  <2>3. m = B!Max({n - gain, 0})
    BY <2>1
  <2> HIDE DEF gain
  <2>4. m = IF n - gain >= 0 THEN n - gain ELSE 0
    BY <2>2, <2>3, LargerOfTwo
  <2> QED
    BY <2>2, <2>4
<1>4. y \notin S
  BY <1>1 DEF OnePerSource
<1>5. U \in SUBSET B!Candidates /\ OnePerSource(U) /\ B!SourcesOf(U) = B!SourcesOf(S)
  <2> HIDE DEF x, y
  <2>1. U = (S \ {x}) \cup {y}
    BY DEF x, y
  <2>2. OnePerSource(U)
    BY <1>1, <2>1 DEF OnePerSource
  <2>3. B!SourcesOf(U) = B!SourcesOf(S)
    BY <1>1, <2>1 DEF B!SourcesOf
  <2> QED
    BY <1>1, <2>1, <2>2, <2>3
<1>6. p.extra = 0 => Total(p, U) + m <= Total(p, S) + n
  <2> DEFINE R == S \ {x}
  <2>1. R \in SUBSET B!Candidates /\ y \notin R /\ U = R \cup {y}
    BY <1>4
  <2>2. Total(p, R \cup {y}) = Total(p, R) + Price(p, y) + p.extra
    BY <1>1, <2>1, TotalOfOneMore
  <2>3. Total(p, S) = Total(p, R) + Price(p, x) + p.extra
    BY <1>1, TotalOfOneLess
  <2>4. Total(p, R) \in Nat
    BY <2>1, PricesOK
  <2>5. Total(p, U) = Total(p, R) + Price(p, y) + p.extra
    BY <2>1, <2>2
  <2> HIDE DEF R, x, y
  <2>6. p.extra = 0 => Total(p, U) = Total(p, S) + d
    BY <1>2, <2>3, <2>4, <2>5
  <2>7. d \in Int /\ d <= gain /\ gain \in Nat /\ Total(p, S) \in Nat
    BY <1>2, PricesOK
  <2> HIDE DEF d, gain
  <2> QED
    BY <1>3, <2>6, <2>7
<1> QED
  BY <1>3, <1>5, <1>6

LEMMA UpgradeKeeps ==
    ASSUME PackInv, B!Upgrade
    PROVE  PackInv'
<1>1. /\ pass = "upgrade" /\ pack' = pack /\ fixed' = fixed /\ step' = step
      /\ rest' = rest /\ overflow' = overflow
  BY DEF B!Upgrade
<1>2. PartsOK /\ PackOK(pack) /\ pack.mode = "unified"
  <2>1. PartsOK /\ PackOK(pack)
    BY DEF PackInv, PartsOK
  <2>2. pack.mode # "unified" => pass \in {"start", "fields", "items", "done"}
    BY DEF PackInv, FieldsInv
  <2> QED
    BY <1>1, <2>1, <2>2
<1>3. /\ pack.extra = 0 => Total(pack, chosen) + room <= Left(pack, fixed)
      /\ Overhead(pack, fixed) <= pack.cap
      /\ pack.extra = 0 => PreviousIsTold(pack, fixed, chosen)
      /\ pack.extra = 0 => FittingOf(pack, chosen, room) = {}
  BY <1>1, <1>2 DEF PackInv, CountInv
<1>4. SizeInv'
  <2>1. pass' # "done" /\ pack' = pack
    BY <1>1 DEF B!Upgrade
  <2> QED
    BY <1>2, <2>1 DEF SizeInv
<1>5. ASSUME NEW pair \in B!Upgrades, chosen' = (chosen \ {pair[1]}) \cup {pair[2]},
             room' = B!Max({room - B!Max({B!Cost(pair[2]) - B!Cost(pair[1]), 0}), 0}),
             pass' = pass
      PROVE  PackInv'
  <2>1. /\ PackOK(pack) /\ chosen \in SUBSET B!Candidates /\ OnePerSource(chosen)
        /\ room \in Nat
    BY <1>2 DEF PartsOK
  <2>2. pair \in UpgradesOf(pack, chosen, room)
    BY <1>5, FittingIs
  <2>3. room' = B!Max({room - B!Max({Price(pack, pair[2]) - Price(pack, pair[1]), 0}), 0})
    BY <1>5, PricesAreThose
  <2>4. /\ chosen' \in SUBSET B!Candidates /\ OnePerSource(chosen') /\ room' \in Nat
        /\ room' <= room
        /\ pack.extra = 0 => Total(pack, chosen') + room' <= Total(pack, chosen) + room
        /\ B!SourcesOf(chosen') = B!SourcesOf(chosen)
    BY <1>5, <2>1, <2>2, <2>3, OneUpgraded
  <2>5. PartsOK'
    BY <1>1, <1>2, <1>5, <2>4 DEF PartsOK
  <2>6. pack.extra = 0 => PreviousIsTold(pack, fixed, chosen')
    BY <1>3, <2>4 DEF PreviousIsTold
  <2>7. pack.extra = 0 => FittingOf(pack, chosen', room') = {}
    <3>1. ASSUME NEW x \in B!Candidates, Price(pack, x) <= room'
          PROVE  Price(pack, x) <= room
      <4>1. Price(pack, x) \in Nat
        BY <1>2, PricesOK
      <4> QED
        BY <2>1, <2>4, <3>1, <4>1
    <3> QED
      BY <1>3, <2>4, <3>1 DEF FittingOf
  <2>8. pack.extra = 0 => Total(pack, chosen') + room' <= Left(pack, fixed)
    <3>1. /\ Total(pack, chosen') \in Nat /\ Total(pack, chosen) \in Nat
          /\ Left(pack, fixed) \in Nat
      BY <1>2, <2>1, <2>4, PricesOK, OverheadIs, LeftIs
    <3> QED
      BY <1>3, <2>1, <2>4, <3>1
  <2>9. CountInv'
    BY <1>1, <1>3, <1>5, <2>6, <2>7, <2>8 DEF CountInv
  <2> QED
    BY <1>1, <1>2, <1>4, <2>5, <2>9 DEF PackInv
<1>6. ASSUME B!Upgrades = {}, pass' = "guard", chosen' = chosen, room' = room
      PROVE  PackInv'
  <2>1. PartsOK'
    BY <1>1, <1>2, <1>6 DEF PartsOK
  <2>2. UpgradesOf(pack, chosen, room) = {}
    BY <1>6, FittingIs
  <2>3. CountInv'
    BY <1>1, <1>3, <1>6, <2>2 DEF CountInv
  <2> QED
    BY <1>1, <1>2, <1>4, <2>1, <2>3 DEF PackInv
<1> QED
  BY <1>5, <1>6 DEF B!Upgrade

\* The keys of three lists.
LEMMA TooLargeIs ==
    ASSUME PackOK(pack)
    PROVE  B!TooLarge <=>
              Overhead(pack, fixed) + Total(pack, chosen)
                + (IF pack.mode = "unified" THEN 3 * pack.extra ELSE 0) > pack.cap
<1>1. B!Keys = IF pack.mode = "unified" THEN 3 * pack.extra ELSE 0
  BY FieldsAre DEF B!Keys, PackOK
<1> QED
  BY <1>1, PricesAreThose DEF B!TooLarge, B!PackSize

LEMMA GuardKeeps ==
    ASSUME PackInv, B!Guard
    PROVE  PackInv'
<1>1. /\ pass = "guard" /\ pack' = pack /\ fixed' = fixed /\ step' = step
      /\ rest' = rest /\ overflow' = overflow /\ room' = room
      /\ \/ B!TooLarge /\ pass' = pass /\ \E x \in chosen : chosen' = chosen \ {x}
         \/ (~B!TooLarge \/ chosen = {}) /\ pass' = "done" /\ chosen' = chosen
  BY DEF B!Guard
<1>2. PartsOK /\ PackOK(pack) /\ pack.mode = "unified"
  <2>1. PartsOK /\ PackOK(pack)
    BY DEF PackInv, PartsOK
  <2>2. pack.mode # "unified" => pass \in {"start", "fields", "items", "done"}
    BY DEF PackInv, FieldsInv
  <2> QED
    BY <1>1, <2>1, <2>2
<1>3. /\ pack.extra = 0 => Total(pack, chosen) + room <= Left(pack, fixed)
      /\ Overhead(pack, fixed) <= pack.cap
      /\ pack.extra = 0 => /\ PreviousIsTold(pack, fixed, chosen)
                           /\ FittingOf(pack, chosen, room) = {}
                           /\ UpgradesOf(pack, chosen, room) = {}
  BY <1>1, <1>2 DEF PackInv, CountInv
<1>4. CASE B!TooLarge /\ pass' = pass /\ \E x \in chosen : chosen' = chosen \ {x}
  <2>1. PICK x \in chosen : chosen' = chosen \ {x}
    BY <1>4
  <2>2. PartsOK'
    BY <1>1, <1>2, <1>4, <2>1 DEF PartsOK, OnePerSource
  <2>3. pack.extra # 0
    <3>1. Total(pack, chosen) \in Nat /\ Overhead(pack, fixed) \in Nat
          /\ pack.cap \in Nat /\ room \in Nat /\ pack.extra \in Nat
      BY <1>2, PricesOK, OverheadIs DEF PartsOK, PackOK
    <3>2. Left(pack, fixed) = pack.cap - Overhead(pack, fixed)
      BY <1>2, <1>3, <3>1, LeftIs
    <3>3. Overhead(pack, fixed) + Total(pack, chosen) + 3 * pack.extra > pack.cap
      BY <1>2, <1>4, TooLargeIs
    <3> QED
      BY <1>3, <3>1, <3>2, <3>3
  <2>4. CountInv'
    BY <1>1, <1>3, <1>4, <2>3 DEF CountInv
  <2>5. SizeInv'
    BY <1>1, <1>2, <1>4 DEF SizeInv
  <2> QED
    BY <1>1, <1>2, <2>2, <2>4, <2>5 DEF PackInv
<1>5. CASE (~B!TooLarge \/ chosen = {}) /\ pass' = "done" /\ chosen' = chosen
  <2>1. PartsOK'
    BY <1>1, <1>2, <1>5 DEF PartsOK
  <2>2. CountInv'
    BY <1>1, <1>3, <1>5 DEF CountInv
  <2>3. SizeInv'
    <3>1. Total(pack, chosen) \in Nat /\ Overhead(pack, fixed) \in Nat
          /\ pack.cap \in Nat /\ pack.extra \in Nat
      BY <1>2, PricesOK, OverheadIs DEF PartsOK, PackOK
    <3>2. chosen = {} \/ Overhead(pack, fixed) + Total(pack, chosen) + 3 * pack.extra
                           <= pack.cap
      BY <1>2, <1>5, <3>1, TooLargeIs
    <3> QED
      BY <1>1, <1>2, <1>5, <3>2 DEF SizeInv
  <2> QED
    BY <1>1, <1>2, <2>1, <2>2, <2>3 DEF PackInv
<1> QED
  BY <1>1, <1>4, <1>5

-----------------------------------------------------------------------------
(* Field by field. *)

LEMMA SmallerIsNat ==
    ASSUME NEW a \in Nat, NEW b \in Int
    PROVE  B!Min({a, B!Max({b, 0})}) \in Nat
<1> DEFINE m == B!Max({b, 0})
<1>1. m = IF b >= 0 THEN b ELSE 0
  BY LargerOfTwo
<1>2. m \in Nat
  BY <1>1
<1> HIDE DEF m
<1>3. B!Min({a, m}) = IF a <= m THEN a ELSE m
  BY <1>2, SmallerOfTwo
<1> QED
  BY <1>2, <1>3 DEF m

LEMMA InFields ==
    ASSUME PackInv, pass \in {"fields", "items"}
    PROVE  /\ PartsOK /\ PackOK(pack) /\ pack.mode # "unified" /\ FieldsInv
           /\ step \in 1..3
           /\ chosen = {} \/ Overhead(pack, fixed) + Total(pack, chosen) <= pack.cap
           /\ Total(pack, chosen) \in Nat /\ Overhead(pack, fixed) \in Nat
<1>1. PartsOK /\ PackOK(pack) /\ SizeInv
  BY DEF PackInv, PartsOK
<1>2. pack.mode # "unified"
  BY DEF PackInv, CountInv
<1>3. FieldsInv
  BY <1>2 DEF PackInv
<1>4. Total(pack, chosen) \in Nat /\ Overhead(pack, fixed) \in Nat
  BY <1>1, PricesOK, OverheadIs DEF PartsOK
<1>5. chosen = {} \/ Overhead(pack, fixed) + Total(pack, chosen) <= pack.cap
  BY <1>1, <1>2, <1>4 DEF SizeInv
<1> QED
  BY <1>1, <1>2, <1>3, <1>4, <1>5 DEF FieldsInv

LEMMA OpenKeeps ==
    ASSUME PackInv, B!OpenField
    PROVE  PackInv'
<1> DEFINE field == B!Fields[step]
<1>1. /\ pass = "fields" /\ pass' = "items" /\ pack' = pack /\ step' = step
      /\ fixed' = fixed /\ chosen' = chosen /\ overflow' = overflow
      /\ rest' = B!ItemsOf(field) /\ room' = B!FieldCap(field)
  BY DEF B!OpenField
<1>2. /\ PartsOK /\ PackOK(pack) /\ pack.mode # "unified" /\ FieldsInv /\ step \in 1..3
      /\ Total(pack, chosen) \in Nat /\ Overhead(pack, fixed) \in Nat
  BY <1>1, InFields
<1>3. room' \in Nat
  <2>1. field.base \in Nat /\ overflow \in Nat /\ pack.cap \in Nat
    BY <1>2, FieldsAre DEF PartsOK, PackOK
  <2>2. B!PackSize(fixed, chosen) = Overhead(pack, fixed) + Total(pack, chosen)
    BY PricesAreThose DEF B!PackSize
  <2>3. field.base + overflow \in Nat /\ pack.cap - B!PackSize(fixed, chosen) \in Int
    BY <1>2, <2>1, <2>2
  <2> HIDE DEF field
  <2> QED
    BY <1>1, <2>3, SmallerIsNat DEF B!FieldCap
<1>4. rest' \subseteq B!Candidates
  BY <1>1 DEF B!ItemsOf
<1>5. PartsOK'
  BY <1>1, <1>2, <1>3, <1>4 DEF PartsOK
<1>6. HadItsDue(pack, fixed, chosen, rest', field)
  BY <1>1 DEF HadItsDue
<1>7. FieldsInv'
  BY <1>1, <1>2, <1>6 DEF FieldsInv
<1>8. SizeInv'
  BY <1>1 DEF SizeInv, PackInv
<1> QED
  BY <1>1, <1>2, <1>5, <1>7, <1>8 DEF PackInv

\* What was too large is no less so beside another item.
LEMMA DueStays ==
    ASSUME NEW p, PackOK(p), NEW texts, Overhead(p, texts) \in Nat,
           NEW S \in SUBSET B!Candidates, NEW unseen, NEW field,
           field.least \in Nat, HadItsDue(p, texts, S, unseen, field),
           NEW y \in B!Candidates
    PROVE  HadItsDue(p, texts, S \cup {y}, unseen, field)
<1> DEFINE U == S \cup {y}
           items == B!ItemsOf(field)
<1>1. CASE y \in S
  <2>1. S \cup {y} = S
    BY <1>1
  <2> QED
    BY <2>1
<1>2. CASE y \notin S
  <2>1. SUFFICES ASSUME Cardinality(U \cap items) < field.least,
                        NEW x, x \in items \ (U \cup unseen)
                 PROVE  Overhead(p, texts) + Total(p, U \cup {x}) > p.cap
    BY DEF HadItsDue
  <2>2. U \in SUBSET B!Candidates /\ x \in B!Candidates /\ x \notin U
    BY <2>1 DEF B!ItemsOf
  <2>3. Cardinality(S \cap items) < field.least
    <3>1. IsFiniteSet(U \cap items) /\ S \cap items \in SUBSET (U \cap items)
      BY <2>2, CandidatesAreFinite, FS_Subset
    <3>2. Cardinality(S \cap items) <= Cardinality(U \cap items)
      BY <3>1, FS_Subset
    <3>3. Cardinality(S \cap items) \in Nat /\ Cardinality(U \cap items) \in Nat
      BY <3>1, FS_Subset, FS_CardinalityType
    <3> QED
      BY <2>1, <3>2, <3>3
  <2>4. Overhead(p, texts) + Total(p, S \cup {x}) > p.cap
    BY <2>1, <2>3 DEF HadItsDue
  <2>5. (S \cup {x}) \in SUBSET B!Candidates /\ y \notin S \cup {x}
        /\ (S \cup {x}) \cup {y} = U \cup {x}
    BY <1>2, <2>2
  <2>6. Total(p, U \cup {x}) = Total(p, S \cup {x}) + Price(p, y) + p.extra
    BY <2>5, TotalOfOneMore
  <2>7. Total(p, S \cup {x}) \in Nat /\ Price(p, y) \in Nat /\ p.extra \in Nat
        /\ p.cap \in Nat
    BY <2>5, PricesOK DEF PackOK
  <2> HIDE DEF U
  <2> QED
    BY <2>4, <2>6, <2>7
<1> QED
  BY <1>1, <1>2

LEMMA ItemKeeps ==
    ASSUME PackInv, NEW x \in rest, B!FitItem(x)
    PROVE  PackInv'
<1> DEFINE field == B!Fields[step]
           kept == ~B!Filtered(field, x) /\ B!Fits(field, x)
<1>1. /\ pass = "items" /\ pass' = pass /\ pack' = pack /\ step' = step
      /\ fixed' = fixed /\ overflow' = overflow /\ room' = room
      /\ rest' = rest \ {x}
      /\ chosen' = IF kept THEN chosen \cup {x} ELSE chosen
  BY DEF B!FitItem
<1>2. /\ PartsOK /\ PackOK(pack) /\ pack.mode # "unified" /\ FieldsInv /\ step \in 1..3
      /\ Total(pack, chosen) \in Nat /\ Overhead(pack, fixed) \in Nat
  BY <1>1, InFields
<1>3. /\ rest \subseteq B!ItemsOf(field) /\ x \in B!ItemsOf(field) /\ x \in B!Candidates
      /\ x.variant # "full" /\ field.least \in Nat
      /\ HadItsDue(pack, fixed, chosen, rest, field)
  BY <1>1, <1>2, FieldsAre DEF FieldsInv, B!ItemsOf
<1>4. \A items : B!PackSize(fixed, items) = Overhead(pack, fixed) + Total(pack, items)
  BY PricesAreThose DEF B!PackSize
<1>5. /\ chosen \in SUBSET B!Candidates /\ pack.cap \in Nat /\ OnePerSource(chosen)
      /\ \A y \in chosen : y.variant # "full"
  BY <1>2 DEF PartsOK, PackOK, FieldsInv
<1>6. OnePerSource(chosen \cup {x})
  BY <1>3, <1>5, SourcesDiffer DEF OnePerSource
<1>7. PartsOK'
  BY <1>1, <1>2, <1>3, <1>6 DEF PartsOK
<1>8. SizeInv'
  <2>1. CASE kept
    <3>1. Overhead(pack, fixed) + Total(pack, chosen \cup {x}) <= pack.cap
      BY <1>4, <2>1 DEF B!Fits
    <3>2. Total(pack, chosen \cup {x}) \in Nat
      BY <1>2, <1>3, <1>5, PricesOK
    <3> QED
      BY <1>1, <1>2, <2>1, <3>1, <3>2 DEF SizeInv
  <2>2. CASE ~kept
    BY <1>1, <1>2, <2>2 DEF SizeInv, PackInv
  <2> QED
    BY <2>1, <2>2
<1>9. HadItsDue(pack, fixed, chosen', rest', field)
  <2>1. CASE kept
    <3>1. HadItsDue(pack, fixed, chosen \cup {x}, rest, field)
      BY <1>2, <1>3, <1>5, DueStays
    <3> QED
      BY <1>1, <2>1, <3>1 DEF HadItsDue
  <2>2. CASE ~kept
    <3>1. chosen' = chosen
      BY <1>1, <2>2
    <3>2. CASE ~(Cardinality(chosen \cap B!ItemsOf(field)) < field.least)
      BY <3>1, <3>2 DEF HadItsDue
    <3>3. CASE Cardinality(chosen \cap B!ItemsOf(field)) < field.least
      <4>1. Cardinality(chosen \cap B!ItemsOf(field)) \in Nat
        <5>1. IsFiniteSet(chosen \cap B!ItemsOf(field))
          BY <1>5, CandidatesAreFinite, FS_Subset
        <5> QED
          BY <5>1, FS_CardinalityType
      <4>2. B!Cardinality(B!Kept(field)) = Cardinality(chosen \cap B!ItemsOf(field))
        BY PromptCardinality DEF B!Kept
      <4>3. ~B!Filtered(field, x)
        <5> HIDE DEF field
        <5> QED
          BY <1>3, <3>3, <4>1, <4>2 DEF B!Filtered
      <4>4. ~(Overhead(pack, fixed) + Total(pack, chosen \cup {x}) <= pack.cap)
        <5> HIDE DEF field
        <5> QED
          BY <1>4, <2>2, <3>3, <4>2, <4>3 DEF B!Fits
      <4>5. Overhead(pack, fixed) + Total(pack, chosen \cup {x}) > pack.cap
        <5>1. Total(pack, chosen \cup {x}) \in Nat
          BY <1>2, <1>3, <1>5, PricesOK
        <5> QED
          BY <1>2, <1>5, <4>4, <5>1
      <4>6. \A z \in B!ItemsOf(field) \ (chosen \cup rest) :
                Overhead(pack, fixed) + Total(pack, chosen \cup {z}) > pack.cap
        BY <1>3, <3>3 DEF HadItsDue
      <4> HIDE DEF field
      <4> QED
        BY <1>1, <3>1, <4>5, <4>6 DEF HadItsDue
    <3> QED
      BY <3>2, <3>3
  <2> QED
    BY <2>1, <2>2
<1>10. FieldsInv'
  <2>1. \A y \in chosen' : y.variant # "full"
    BY <1>1, <1>3, <1>5
  <2>2. rest' \subseteq B!ItemsOf(field)
    BY <1>1, <1>3
  <2>3. ASSUME NEW i \in 1..3, i < step
        PROVE  HadItsDue(pack, fixed, chosen', {}, B!Fields[i])
    <3>1. HadItsDue(pack, fixed, chosen, {}, B!Fields[i]) /\ B!Fields[i].least \in Nat
      BY <1>2, <2>3, FieldsAre DEF FieldsInv
    <3>2. HadItsDue(pack, fixed, chosen \cup {x}, {}, B!Fields[i])
      BY <1>2, <1>3, <1>5, <3>1, DueStays
    <3> QED
      BY <1>1, <3>1, <3>2
  <2> QED
    BY <1>1, <1>2, <1>9, <2>1, <2>2, <2>3 DEF FieldsInv
<1> QED
  BY <1>1, <1>2, <1>7, <1>8, <1>10 DEF PackInv

LEMMA CloseKeeps ==
    ASSUME PackInv, B!CloseField
    PROVE  PackInv'
<1> DEFINE field == B!Fields[step]
<1>1. /\ pass = "items" /\ rest = {} /\ step' = step + 1 /\ pack' = pack
      /\ fixed' = fixed /\ chosen' = chosen /\ room' = room /\ rest' = rest
      /\ overflow' = B!Max({room - B!SizeOf(B!Kept(field)), 0})
      /\ pass' = IF step = 3 THEN "done" ELSE "fields"
  BY FieldsAre DEF B!CloseField
<1>2. /\ PartsOK /\ PackOK(pack) /\ pack.mode # "unified" /\ FieldsInv /\ step \in 1..3
      /\ Total(pack, chosen) \in Nat /\ Overhead(pack, fixed) \in Nat
  BY <1>1, InFields
<1>3. overflow' \in Nat
  <2>1. B!SizeOf(B!Kept(field)) \in Nat
    <3>1. B!Kept(field) \in SUBSET B!Candidates
      BY DEF B!Kept, B!ItemsOf
    <3> HIDE DEF field
    <3> QED
      BY <1>2, <3>1, PricesOK, PricesAreThose
  <2> DEFINE n == room - B!SizeOf(B!Kept(field))
  <2>2. n \in Int
    BY <1>2, <2>1 DEF PartsOK
  <2> HIDE DEF n
  <2>3. B!Max({n, 0}) \in Nat
    BY <2>2, LargerOfTwo
  <2> QED
    BY <1>1, <2>3 DEF n
<1>4. PartsOK'
  BY <1>1, <1>2, <1>3 DEF PartsOK
<1>5. \A i \in 1..3 : pass' = "done" \/ i < step' =>
          HadItsDue(pack, fixed, chosen, {}, B!Fields[i])
  <2>1. HadItsDue(pack, fixed, chosen, {}, field)
    BY <1>1, <1>2 DEF FieldsInv
  <2>2. \A i \in 1..3 : i < step => HadItsDue(pack, fixed, chosen, {}, B!Fields[i])
    BY <1>2 DEF FieldsInv
  <2>3. ASSUME NEW i \in 1..3, pass' = "done" \/ i < step'
        PROVE  i < step \/ i = step
    BY <1>1, <1>2, <2>3
  <2> QED
    BY <2>1, <2>2, <2>3
<1>6. FieldsInv'
  <2>1. pass' \in {"fields", "done"} /\ (pass' = "fields" => step' \in 1..3)
    BY <1>1, <1>2
  <2> QED
    BY <1>1, <1>2, <1>5, <2>1 DEF FieldsInv
<1>7. SizeInv'
  BY <1>1, <1>2 DEF SizeInv, PackInv
<1> QED
  BY <1>1, <1>2, <1>4, <1>6, <1>7 DEF PackInv

LEMMA PackAlways == B!Spec => []PackInv
<1>1. ASSUME PackInv, [B!Next]_(B!vars)
      PROVE  PackInv'
  <2>1. CASE UNCHANGED B!vars
    BY <1>1, <2>1 DEF PackInv, PartsOK, CountInv, FieldsInv, SizeInv, B!vars
  <2>2. ASSUME NEW x \in B!Foremost, B!FitItem(x) PROVE PackInv'
    BY <1>1, <2>2, ItemKeeps DEF B!Foremost
  <2> QED
    BY <1>1, <2>1, <2>2, FixedIsFitted, RequiredKeeps, FillKeeps, UpgradeKeeps,
       GuardKeeps, OpenKeeps, CloseKeeps DEF B!Next
<1> QED
  BY <1>1, PackStarts, PTL DEF B!Spec

LEMMA DonePackFits == ASSUME PackInv PROVE B!TypeOK /\ B!PromptFits
<1>1. PartsOK /\ PackOK(pack)
  BY DEF PackInv, PartsOK
<1>2. B!TypeOK
  BY <1>1 DEF PartsOK, B!TypeOK
<1>3. ASSUME pass = "done" PROVE B!TooLarge => chosen = {}
  <2>1. /\ Total(pack, chosen) \in Nat /\ Overhead(pack, fixed) \in Nat
        /\ pack.cap \in Nat /\ pack.extra \in Nat
    BY <1>1, PricesOK, OverheadIs DEF PartsOK, PackOK
  <2> QED
    BY <1>1, <1>3, <2>1, TooLargeIs DEF PackInv, SizeInv
<1>4. ASSUME pass = "done", B!TooLarge, B!Keys = 0
      PROVE  \A s \in DOMAIN fixed : fixed[s] = 0
  <2>1. chosen = {} /\ Total(pack, {}) = 0
    BY <1>3, <1>4, TotalOfNothing
  <2>2. Overhead(pack, fixed) + Total(pack, chosen) + B!Keys > pack.cap
    BY <1>4, PricesAreThose DEF B!TooLarge, B!PackSize
  <2>3. Overhead(pack, fixed) > pack.cap /\ Overhead(pack, fixed) \in Nat
        /\ pack.cap \in Nat
    BY <1>1, <1>4, <2>1, <2>2, OverheadIs DEF PackOK
  <2>4. DOMAIN fixed = B!TrimmedTexts /\ FixedFits(pack, fixed)
    BY <1>1, <1>4 DEF PartsOK, Texts3
  <2> QED
    BY <2>3, <2>4 DEF FixedFits
<1>5. \A x, y \in chosen : x.source = y.source => x = y
  BY <1>1 DEF PartsOK, OnePerSource
<1>6. ASSUME pass = "done", pack.mode = "unified", pack.extra = 0
      PROVE  B!CountedExactly
  <2>1. B!Budget = Left(pack, fixed)
    BY PricesAreThose DEF B!Budget, Left
  <2>2. /\ Total(pack, chosen) + room <= Left(pack, fixed)
        /\ PreviousIsTold(pack, fixed, chosen)
        /\ FittingOf(pack, chosen, room) = {} /\ UpgradesOf(pack, chosen, room) = {}
    BY <1>6 DEF PackInv, CountInv
  <2>3. B!Fitting(B!Candidates) = {} /\ B!Upgrades = {}
    BY <2>2, FittingIs
  <2> QED
    BY <2>1, <2>2, <2>3, PricesAreThose DEF B!CountedExactly, PreviousIsTold
<1>7. ASSUME pass = "done", pack.mode # "unified"
      PROVE  \A i \in DOMAIN B!Fields : B!HasItsDue(B!Fields[i])
  <2>1. ASSUME NEW i \in 1..3
        PROVE  B!HasItsDue(B!Fields[i])
    <3>1. HadItsDue(pack, fixed, chosen, {}, B!Fields[i])
      BY <1>7 DEF PackInv, FieldsInv
    <3>2. B!Cardinality(B!Kept(B!Fields[i])) = Cardinality(chosen \cap B!ItemsOf(B!Fields[i]))
      BY PromptCardinality DEF B!Kept
    <3>3. \A items : B!PackSize(fixed, items) = Overhead(pack, fixed) + Total(pack, items)
      BY PricesAreThose DEF B!PackSize
    <3> QED
      BY <3>1, <3>2, <3>3 DEF HadItsDue, B!HasItsDue
  <2> QED
    BY <2>1, FieldsAre
<1> QED
  BY <1>2, <1>3, <1>4, <1>5, <1>6, <1>7 DEF B!PromptFits

\* Whatever there is to choose from, whatever it costs and however the pack is
\* made, a pack that is done fits its cap or holds nothing that could be left
\* out, tells each source once, has counted what it spends to the token and
\* leaves no room that some candidate or some longer variant would still fill,
\* and field by field keeps of each what it is due
\* (_apply_unified_context_scoring, _apply_elastic_field_budgets).
THEOREM PacksCorrect == B!Spec => [](B!TypeOK /\ B!PromptFits)
  BY PackAlways, DonePackFits, PTL

\* What the run of Retrieval checks of prompts: the pack, and the spine and the
\* chunks it takes its texts from.
THEOREM PromptCorrect == B!Spec /\ T!Spec => []PromptIsSound
  BY PacksCorrect, TextsCorrect, PTL DEF PromptIsSound
=============================================================================

----------------------- MODULE EmbeddingMigrationProofs -----------------------
(***************************************************************************)
(* Proofs about EmbeddingMigration, for any number of memories, models and *)
(* requests and any number of faults: types, that what counts as done is   *)
(* staged, that the exchange is whole, and that no row is forgotten.       *)
(*                                                                         *)
(* The argument.  One job at a time is past its beginning (TypeOK), and    *)
(* its work accounts for every memory that it read: done, left or failed   *)
(* (WorkOK).  A checkpoint is of the target of whoever works, because a    *)
(* request with another target has removed it, or has outlived its rows    *)
(* because the removal failed (SameTarget).  A migration has found the     *)
(* outbox running and will start it again; as long as nobody else starts   *)
(* it, it is off meanwhile, and a backfill that writes by itself has seen  *)
(* it off (OutboxOK).                                                      *)
(***************************************************************************)
EXTENDS EmbeddingMigration, TLAPS

Task == [pc : Phase, target : Model \cup {None},
         texts : [Bucket -> Text \cup {Gone}], left : SUBSET Bucket,
         done : SUBSET Bucket, failed : BOOLEAN, wasRunning : BOOLEAN]
Backfill == [pc : {"idle", "clean", "fill", "direct"}, model : Model \cup {None},
             texts : [Bucket -> Text \cup {Gone}]]

-----------------------------------------------------------------------------
(* The inductive invariant *)

\* What the phase of a task says about its target, the staging database and
\* the memories it has read.
WorkOK(w, stage) ==
    /\ w.pc # "idle" => w.target \in Model
    /\ w.pc \in {"probe", "fetch", "embed", "save", "decide"} => stage \in Index
    /\ w.pc \in {"embed", "save", "decide"} =>
         /\ w.left \subseteq Known(w.texts)
         /\ ~w.failed => Known(w.texts) \subseteq w.done \cup w.left
    /\ w.pc = "decide" => w.left = {}

\* A checkpoint that has not outlived its rows is of the target of the task
\* that is at work.
SameTarget(w, c, relic) ==
    ~relic /\ w.pc \in {"probe", "fetch", "embed", "save", "decide", "swapped"} /\ c # None => c.target = w.target

\* A task whose outbox is off and in its care.
OutboxOK ==
    /\ \A j \in Job : Migrating(j) => job[j].wasRunning /\ (~disturbed => outbox = "off")
    /\ outbox = "off" => \E j \in Job : Migrating(j)
    /\ fill.pc # "idle" /\ (\E j \in Job : Migrating(j)) => disturbed
    /\ fill.pc = "direct" => disturbed

IInv ==
    /\ TypeOK
    /\ \A j \in Job : WorkOK(job[j], staging) /\ SameTarget(job[j], ckpt, outlived)
    /\ fill.pc # "idle" => fill.model \in Model
    /\ DoneIsStaged
    /\ OutboxOK
    /\ RowsAreOwed

-----------------------------------------------------------------------------
(* Facts about data *)

LEMMA Rows ==
    /\ EmptyIndex \in Index
    /\ \A stage \in Index, b \in Bucket, m \in Model, x \in Text :
         /\ <<m, x>> \in Row /\ <<m, x>> # None /\ ModelOf(<<m, x>>) = m
         /\ [stage EXCEPT ![b] = <<m, x>>] \in Index
    /\ \A stage \in Index : stage # None
    /\ \A c \in Checkpoint : c # None
  <1>1. \A m \in Model, x \in Text : <<m, x>> \in Row /\ <<m, x>> # None
    BY NoneAssumption DEF Row
  <1>2. \A m \in Model, x \in Text : ModelOf(<<m, x>>) = m
    BY <1>1 DEF ModelOf
  <1>3. EmptyIndex \in Index
    BY DEF EmptyIndex, Index
  <1>4. \A stage \in Index, b \in Bucket, m \in Model, x \in Text :
          [stage EXCEPT ![b] = <<m, x>>] \in Index
    BY <1>1 DEF Index
  <1> QED
    BY <1>1, <1>2, <1>3, <1>4, NoneAssumption

LEMMA Idle ==
    /\ IdleJob \in Task /\ IdleJob.pc = "idle"
    /\ IdleFill \in Backfill /\ IdleFill.pc = "idle"
    /\ \A stage, c, relic : WorkOK(IdleJob, stage) /\ SameTarget(IdleJob, c, relic)
  BY DEF IdleJob, IdleFill, Task, Backfill, Phase, WorkOK, SameTarget

\* One task at most is not idle.
LEMMA OneTask ==
    ASSUME TypeOK, NEW j \in Job, job[j].pc # "idle"
    PROVE  /\ slot = j /\ \A x \in Job : x # j => job[x].pc = "idle"
           /\ \A x \in Job : Migrating(x) => x = j
  BY DEF TypeOK, Migrating

\* TypeOK with the names of this module.
LEMMA Types ==
    ASSUME TypeOK
    PROVE  /\ job \in [Job -> Task] /\ fill \in Backfill
           /\ config \in Model /\ engine \in Model
           /\ disturbed \in BOOLEAN /\ outlived \in BOOLEAN
           /\ faults \in Nat
  BY FaultsAssumption DEF TypeOK, Task, Backfill

-----------------------------------------------------------------------------
(* Frames *)

LEMMA FaultsBound ==
    ASSUME IInv, Succeeds \/ Fails
    PROVE  faults' \in 0..MaxFaults
  BY FaultsAssumption DEF IInv, TypeOK, Succeeds, Fails

\* Job j becomes w; the others are idle.
LEMMA TaskStep ==
    ASSUME IInv, NEW j \in Job, NEW w \in Task, job' = [job EXCEPT ![j] = w],
           slot \in {j, Nobody}, slot' = IF w.pc = "idle" THEN Nobody ELSE j,
           WorkOK(w, staging'), SameTarget(w, ckpt', outlived')
    PROVE  /\ job' \in [Job -> Task] /\ slot' \in Job \cup {Nobody}
           /\ job'[j] = w /\ \A x \in Job : x # j => job'[x].pc = "idle"
           /\ \A x \in Job : job'[x].pc # "idle" <=> slot' = x
           /\ \A x \in Job : WorkOK(job'[x], staging') /\ SameTarget(job'[x], ckpt', outlived')
  <1>1. job \in [Job -> Task] /\ Nobody \notin Job /\ \A x \in Job : job[x].pc # "idle" <=> slot = x
    BY Types, NobodyAssumption DEF IInv, TypeOK
  <1>2. job' \in [Job -> Task] /\ job'[j] = w /\ \A x \in Job : x # j => job'[x] = job[x]
    BY <1>1
  <1>3. \A x \in Job : x # j => job'[x].pc = "idle"
    BY <1>1, <1>2
  <1>4. \A x \in Job : x # j => WorkOK(job'[x], staging') /\ SameTarget(job'[x], ckpt', outlived')
    BY <1>3 DEF WorkOK, SameTarget
  <1>5. \A x \in Job : job'[x].pc # "idle" <=> slot' = x
    BY <1>1, <1>2, <1>3
  <1> QED
    BY <1>1, <1>2, <1>3, <1>4, <1>5

\* A migration goes on.
LEMMA Working ==
    ASSUME IInv, NEW j \in Job, NEW w \in Task, job' = [job EXCEPT ![j] = w], Migrating(j),
           w.pc \notin {"idle", "probe"}, w.wasRunning = job[j].wasRunning,
           UNCHANGED <<outbox, disturbed, fill>>
    PROVE  OutboxOK' /\ RowsAreOwed'
  <1>1. job \in [Job -> Task] /\ OutboxOK
    BY Types DEF IInv
  <1>2. job'[j] = w /\ \A x \in Job : x # j => job'[x] = job[x]
    BY <1>1
  <1>3. \A x \in Job : Migrating(x)' <=> Migrating(x)
    BY <1>2 DEF Migrating
  <1>4. \A x \in Job : job'[x].wasRunning = job[x].wasRunning
    BY <1>2
  <1>5. OutboxOK'
    BY <1>1, <1>3, <1>4 DEF OutboxOK
  <1>6. Migrating(j)' /\ job'[j].wasRunning
    BY <1>1, <1>3, <1>4 DEF OutboxOK
  <1> QED
    BY <1>5, <1>6 DEF RowsAreOwed

\* A migration ends: the outbox starts with a reconciliation.
LEMMA Ending ==
    ASSUME IInv, NEW j \in Job, Migrating(j), End(j), UNCHANGED <<disturbed, fill>>
    PROVE  OutboxOK' /\ RowsAreOwed' /\ outbox' \in {"off", "starting", "running"}
  <1>1. job \in [Job -> Task] /\ OutboxOK /\ outbox \in {"off", "starting", "running"}
    BY Types DEF IInv, TypeOK
  <1>2. \A x \in Job : ~Migrating(x)'
    <2>1. \A x \in Job : x # j => job[x].pc = "idle"
      BY OneTask DEF IInv, Migrating
    <2>2. \A x \in Job : job'[x].pc = "idle"
      BY <1>1, <2>1, Idle DEF End
    <2> QED
      BY <2>2 DEF Migrating
  <1>3. outbox' = Started /\ (~disturbed => outbox = "off")
    BY <1>1 DEF End, OutboxOK
  <1>4. outbox' # "off" /\ (~disturbed => outbox' = "starting")
    BY <1>3 DEF Started
  <1>5. OutboxOK'
    BY <1>1, <1>2, <1>4 DEF OutboxOK
  <1>6. RowsAreOwed'
    BY <1>4 DEF RowsAreOwed
  <1> QED
    BY <1>1, <1>3, <1>5, <1>6 DEF Started

\* Nobody's task changes, and neither do the files of the migration.
LEMMA OthersStep ==
    ASSUME IInv, UNCHANGED <<job, staging, ckpt, outlived, slot>>,
           TypeOK', OutboxOK', RowsAreOwed', fill'.pc # "idle" => fill'.model \in Model
    PROVE  IInv'
  BY DEF IInv, DoneIsStaged, Relic

\* The same with OutboxOK untouched.
LEMMA OutboxSame ==
    ASSUME OutboxOK, UNCHANGED <<job, disturbed, outbox>>, fill'.pc = fill.pc
    PROVE  OutboxOK'
  BY DEF OutboxOK, Migrating

\* While a migration is under way, or has been disturbed, no row is forgotten
\* whatever happens; otherwise nothing may become stale unnoticed.
LEMMA OwedStep ==
    ASSUME IInv, UNCHANGED <<job, disturbed, outbox>>,
           \A b \in Stale' : b \in box' \cup lost' \/ (b \in Stale /\ b \notin box \cup lost)
    PROVE  RowsAreOwed'
  BY DEF IInv, RowsAreOwed, Migrating

-----------------------------------------------------------------------------
(* The others *)

\* A reconciliation takes over what is stale, or passes it over.
LEMMA Requeued ==
    ASSUME IInv, Requeue
    PROVE  /\ box' \subseteq Bucket /\ lost' \subseteq Bucket /\ faults' \in 0..MaxFaults
           /\ Stale \subseteq box' \cup lost'
  <1>1. PICK missed \in SUBSET Stale :
          /\ IF missed = {} THEN Succeeds ELSE Fails
          /\ box' = box \cup (Stale \ missed) /\ lost' = missed \ box
    BY DEF Requeue
  <1>2. faults' \in 0..MaxFaults
    BY <1>1, FaultsBound
  <1>3. box \subseteq Bucket /\ Stale \subseteq Bucket
    BY DEF IInv, TypeOK, Stale, Known
  <1> QED
    BY <1>1, <1>2, <1>3

LEMMA ReconcileStep ==
    ASSUME IInv, Reconcile
    PROVE  IInv'
  <1>1. /\ outbox = "starting" /\ outbox' = "running" /\ Requeue
        /\ UNCHANGED <<vault, live, staging, ckpt, config, engine, slot, job, fill, disturbed, outlived>>
    BY DEF Reconcile
  <1>2. /\ box' \subseteq Bucket /\ lost' \subseteq Bucket /\ faults' \in 0..MaxFaults
        /\ Stale \subseteq box' \cup lost'
    BY <1>1, Requeued
  <1>3. TypeOK'
    BY <1>1, <1>2 DEF IInv, TypeOK
  <1>4. OutboxOK'
    BY <1>1 DEF IInv, OutboxOK, Migrating
  <1>5. Stale' = Stale
    BY <1>1 DEF Stale, Known
  <1>6. RowsAreOwed'
    BY <1>2, <1>5 DEF RowsAreOwed
  <1> QED
    BY <1>1, <1>3, <1>4, <1>6, OthersStep DEF IInv

\* Row b becomes what its memory is, or its memory is gone.
LEMMA ProcessStep ==
    ASSUME IInv, NEW b \in Bucket, Process(b)
    PROVE  IInv'
  <1>1. /\ b \in box /\ box' = box \ {b}
        /\ live' = [live EXCEPT ![b] = IF vault[b] = Gone THEN None ELSE <<engine, vault[b]>>]
        /\ UNCHANGED <<vault, staging, ckpt, config, engine, outbox, slot, job, fill, faults, disturbed, outlived, lost>>
    BY DEF Process
  <1>2. /\ live \in Index /\ vault \in [Bucket -> Text \cup {Gone}] /\ engine \in Model
        /\ live \in [Bucket -> Row \cup {None}]
    BY Types DEF IInv, TypeOK, Index
  <1>3. live' \in Index
    <2>1. CASE vault[b] = Gone
      BY <1>1, <1>2, <2>1 DEF Index
    <2>2. CASE vault[b] # Gone
      BY <1>1, <1>2, <2>2, Rows
    <2> QED
      BY <2>1, <2>2
  <1>4. TypeOK'
    BY <1>1, <1>3 DEF IInv, TypeOK
  <1>5. \A c \in Stale' : c \in Stale /\ c # b
    BY <1>1, <1>2 DEF Stale, Known
  <1>6. OutboxOK' /\ RowsAreOwed'
    BY <1>1, <1>5, OutboxSame, OwedStep DEF IInv
  <1> QED
    BY <1>1, <1>4, <1>6, OthersStep DEF IInv

LEMMA WriteStep ==
    ASSUME IInv, NEW b \in Bucket, NEW x \in Text, Write(b, x)
    PROVE  IInv'
  <1>1. /\ vault' = [vault EXCEPT ![b] = x]
        /\ \/ Succeeds /\ box' = box \cup {b} /\ lost' = lost \ {b}
           \/ Fails /\ lost' = lost \cup ({b} \ box) /\ UNCHANGED box
        /\ UNCHANGED <<live, staging, ckpt, config, engine, outbox, slot, job, fill, disturbed, outlived>>
    BY DEF Write
  <1>2. vault \in [Bucket -> Text \cup {Gone}] /\ box \subseteq Bucket /\ lost \subseteq Bucket
    BY DEF IInv, TypeOK
  <1>3. faults' \in 0..MaxFaults
    BY <1>1, FaultsBound
  <1>4. TypeOK'
    BY <1>1, <1>2, <1>3 DEF IInv, TypeOK
  <1>5. \A c \in Stale' : c = b \/ c \in Stale
    BY <1>1, <1>2 DEF Stale, Known
  <1>6. b \in box' \cup lost' /\ box \cup lost \subseteq box' \cup lost' /\ box' \cup lost' \subseteq box \cup lost \cup {b}
    BY <1>1
  <1>7. OutboxOK' /\ RowsAreOwed'
    BY <1>1, <1>5, <1>6, OutboxSame, OwedStep DEF IInv
  <1> QED
    BY <1>1, <1>4, <1>7, OthersStep DEF IInv

LEMMA DeleteStep ==
    ASSUME IInv, NEW b \in Bucket, Delete(b)
    PROVE  IInv'
  <1>1. /\ vault' = [vault EXCEPT ![b] = Gone] /\ box' = box \ {b} /\ live' = [live EXCEPT ![b] = None]
        /\ lost' = lost \ {b}
        /\ UNCHANGED <<staging, ckpt, config, engine, outbox, slot, job, fill, faults, disturbed, outlived>>
    BY DEF Delete
  <1>2. /\ vault \in [Bucket -> Text \cup {Gone}] /\ live \in Index /\ live \in [Bucket -> Row \cup {None}]
    BY DEF IInv, TypeOK, Index
  <1>3. live' \in Index
    BY <1>1, <1>2 DEF Index
  <1>4. TypeOK'
    BY <1>1, <1>2, <1>3 DEF IInv, TypeOK
  <1>5. \A c \in Stale' : c \in Stale /\ c # b
    BY <1>1, <1>2 DEF Stale, Known
  <1>6. OutboxOK' /\ RowsAreOwed'
    BY <1>1, <1>5, OutboxSame, OwedStep DEF IInv
  <1> QED
    BY <1>1, <1>4, <1>6, OthersStep DEF IInv

LEMMA EnsureStep ==
    ASSUME IInv, Ensure
    PROVE  IInv'
  <1>1. /\ Fails /\ outbox' = "starting" /\ disturbed' = TRUE
        /\ UNCHANGED <<disk, engine, slot, job, fill, outlived, lost>>
    BY DEF Ensure
  <1>2. TypeOK'
    <2>1. faults' \in 0..MaxFaults
      BY <1>1, FaultsAssumption DEF Fails, IInv, TypeOK
    <2> QED
      BY <1>1, <2>1 DEF disk, IInv, TypeOK
  <1>3. OutboxOK' /\ RowsAreOwed'
    BY <1>1 DEF IInv, OutboxOK, RowsAreOwed, Migrating
  <1> QED
    BY <1>1, <1>2, <1>3, OthersStep DEF disk, IInv

\* The backfill changes, from one to another of its phases.
LEMMA FillStep ==
    ASSUME IInv, fill' \in Backfill, fill'.pc # "idle" => fill'.model \in Model,
           live' \in Index, box' \subseteq Bucket, lost' \subseteq Bucket,
           UNCHANGED <<vault, staging, ckpt, config, engine, outbox, slot, job, disturbed, outlived>>,
           faults' = faults \/ faults' \in 0..MaxFaults,
           fill'.pc # "idle" /\ (\E j \in Job : Migrating(j)) => disturbed,
           fill'.pc = "direct" => disturbed,
           disturbed \/ \A b \in Stale' : b \in box' \cup lost' \/ (b \in Stale /\ b \notin box \cup lost)
    PROVE  IInv'
  <1>1. TypeOK'
    BY DEF IInv, TypeOK, Backfill
  <1>2. OutboxOK'
    BY DEF IInv, OutboxOK, Migrating
  <1>3. RowsAreOwed'
    <2>1. CASE disturbed
      BY <2>1 DEF RowsAreOwed
    <2>2. CASE ~disturbed
      BY <2>2, OwedStep
    <2> QED
      BY <2>1, <2>2
  <1> QED
    BY <1>1, <1>2, <1>3, OthersStep DEF IInv

LEMMA StaleSame ==
    ASSUME UNCHANGED <<vault, live, engine>>
    PROVE  Stale' = Stale
  BY DEF Stale, Known

LEMMA BackfillSteps ==
    ASSUME IInv, BackfillStart \/ BackfillClean \/ BackfillQueue \/ BackfillDirect \/ BackfillEnd
    PROVE  IInv'
  <1>1. /\ fill \in Backfill /\ live \in Index /\ box \subseteq Bucket /\ lost \subseteq Bucket /\ engine \in Model
        /\ vault \in [Bucket -> Text \cup {Gone}]
        /\ fill.pc # "idle" => fill.model \in Model
        /\ fill.pc # "idle" /\ (\E j \in Job : Migrating(j)) => disturbed
        /\ fill.pc = "direct" => disturbed
    BY Types DEF IInv, TypeOK, OutboxOK
  <1>2. fill.texts \in [Bucket -> Text \cup {Gone}] /\ fill = [pc |-> fill.pc, model |-> fill.model, texts |-> fill.texts]
    BY <1>1 DEF Backfill
  <1>3. CASE BackfillStart
    <2>1. fill' = [pc |-> "clean", model |-> engine, texts |-> vault] /\ slot = Nobody
          /\ UNCHANGED <<disk, engine, outbox, slot, job, disturbed, outlived, lost>> /\ Fails
      BY <1>3 DEF BackfillStart
    <2>2. ~\E j \in Job : Migrating(j)
      BY <2>1, NobodyAssumption DEF Migrating, IInv, TypeOK
    <2>3. fill' \in Backfill /\ fill'.pc = "clean" /\ fill'.model \in Model
      BY <1>1, <2>1 DEF Backfill
    <2>4. Stale' = Stale
      BY <2>1, StaleSame DEF disk
    <2>5. faults' \in 0..MaxFaults
      BY <2>1, FaultsAssumption DEF Fails, IInv, TypeOK
    <2> QED
      BY <1>1, <2>1, <2>2, <2>3, <2>4, <2>5, FillStep DEF disk
  <1>4. CASE BackfillClean
    <2>1. /\ live' = [b \in Bucket |-> IF fill.texts[b] = Gone /\ vault[b] = Gone THEN None ELSE live[b]]
          /\ fill' = [fill EXCEPT !.pc = "fill"] /\ fill.pc = "clean"
          /\ UNCHANGED <<vault, staging, ckpt, box, config, engine, outbox, slot, job, faults, disturbed, outlived, lost>>
      BY <1>4 DEF BackfillClean
    <2>2. fill' \in Backfill /\ fill'.pc = "fill" /\ fill'.model = fill.model
      BY <1>1, <2>1 DEF Backfill
    <2>3. live' \in Index
      BY <1>1, <2>1 DEF Index
    <2>4. Stale' = Stale
      BY <2>1 DEF Stale, Known
    <2> QED
      BY <1>1, <2>1, <2>2, <2>3, <2>4, FillStep
  <1>5. CASE BackfillQueue
    <2>1. /\ Requeue /\ fill' = IdleFill
          /\ UNCHANGED <<vault, live, staging, ckpt, config, engine, outbox, slot, job, disturbed, outlived>>
      BY <1>5 DEF BackfillQueue
    <2>2. /\ box' \subseteq Bucket /\ lost' \subseteq Bucket /\ faults' \in 0..MaxFaults
          /\ Stale \subseteq box' \cup lost'
      BY <2>1, Requeued
    <2>3. Stale' = Stale
      BY <2>1 DEF Stale, Known
    <2> QED
      BY <1>1, <2>1, <2>2, <2>3, Idle, FillStep
  <1>6. CASE BackfillDirect
    <2>1. /\ fill.pc = "fill" /\ outbox = "off"
          /\ fill' = [fill EXCEPT !.pc = "direct",
                           !.texts = [b \in Bucket |-> IF ModelOf(live[b]) = fill.model THEN Gone ELSE @[b]]]
          /\ UNCHANGED <<disk, engine, outbox, slot, job, faults, disturbed, outlived, lost>>
      BY <1>6 DEF BackfillDirect
    <2>2. disturbed
      BY <1>1, <2>1 DEF IInv, OutboxOK
    <2> DEFINE texts == [b \in Bucket |-> IF ModelOf(live[b]) = fill.model THEN Gone ELSE fill.texts[b]]
    <2>3. fill' = [pc |-> "direct", model |-> fill.model, texts |-> texts]
      BY <1>2, <2>1
    <2>4. texts \in [Bucket -> Text \cup {Gone}]
      BY <1>2
    <2> HIDE DEF texts
    <2>5. fill' \in Backfill /\ fill'.pc = "direct" /\ fill'.model = fill.model
      BY <1>1, <2>3, <2>4 DEF Backfill
    <2> QED
      BY <1>1, <2>1, <2>2, <2>5, FillStep DEF disk
  <1>7. CASE BackfillEnd
    <2>1. fill' = IdleFill /\ UNCHANGED <<disk, engine, outbox, slot, job, faults, disturbed, outlived, lost>>
      BY <1>7 DEF BackfillEnd
    <2>2. Stale' = Stale
      BY <2>1, StaleSame DEF disk
    <2> QED
      BY <1>1, <2>1, <2>2, Idle, FillStep DEF disk
  <1> QED
    BY <1>3, <1>4, <1>5, <1>6, <1>7

LEMMA BackfillEmbedStep ==
    ASSUME IInv, NEW b \in Bucket, BackfillEmbed(b)
    PROVE  IInv'
  <1>1. /\ fill.pc = "direct" /\ b \in Known(fill.texts)
        /\ live' = [live EXCEPT ![b] = <<fill.model, fill.texts[b]>>]
        /\ fill' = [fill EXCEPT !.texts[b] = Gone]
        /\ UNCHANGED <<vault, staging, ckpt, box, config, engine, outbox, slot, job, faults, disturbed, outlived, lost>>
    BY DEF BackfillEmbed
  <1>2. /\ fill \in Backfill /\ live \in Index /\ box \subseteq Bucket /\ lost \subseteq Bucket /\ fill.model \in Model /\ disturbed
    BY <1>1, Types DEF IInv, TypeOK, OutboxOK
  <1>3. fill.texts \in [Bucket -> Text \cup {Gone}] /\ fill.texts[b] \in Text
    BY <1>1, <1>2 DEF Backfill, Known
  <1>4. live' \in Index
    BY <1>1, <1>2, <1>3, Rows
  <1>5. fill' \in Backfill /\ fill'.pc = "direct" /\ fill'.model = fill.model
    <2>1. fill' = [fill EXCEPT !.texts = [fill.texts EXCEPT ![b] = Gone]]
      BY <1>1
    <2>2. [fill.texts EXCEPT ![b] = Gone] \in [Bucket -> Text \cup {Gone}]
      BY <1>3
    <2> QED
      BY <1>1, <1>2, <2>1, <2>2 DEF Backfill
  <1> QED
    BY <1>1, <1>2, <1>4, <1>5, FillStep

\* After a crash everybody is idle, and the outbox starts with a reconciliation.
LEMMA CrashStep ==
    ASSUME IInv, Crash
    PROVE  IInv'
  <1>1. /\ Fails /\ engine' = config /\ outbox' = "starting" /\ slot' = Nobody
        /\ job' = [j \in Job |-> IdleJob] /\ fill' = IdleFill /\ disturbed' = FALSE
        /\ outlived' = (outlived \/ (ckpt # None /\ \E j \in Job : job[j].pc = "swapped"))
        /\ UNCHANGED <<disk, lost>>
    BY DEF Crash
  <1>2. \A j \in Job : job'[j] = IdleJob /\ job'[j].pc = "idle" /\ slot' # j
    BY <1>1, Idle, NobodyAssumption
  <1>3. TypeOK'
    <2>1. faults' \in 0..MaxFaults
      BY <1>1, FaultsAssumption DEF Fails, IInv, TypeOK
    <2>2. job' \in [Job -> Task] /\ fill' \in Backfill
      BY <1>1, Idle
    <2>3. outlived' \in BOOLEAN /\ (outlived' => ckpt # None)
      BY <1>1, Types DEF IInv, TypeOK
    <2> QED
      BY <1>1, <1>2, <2>1, <2>2, <2>3, Types DEF disk, IInv, TypeOK, Task, Backfill
  <1>4. DoneIsStaged'
    BY <1>1, <1>2 DEF disk, IInv, DoneIsStaged
  <1>5. OutboxOK' /\ RowsAreOwed'
    BY <1>1, <1>2, Idle DEF OutboxOK, RowsAreOwed, Migrating
  <1> QED
    BY <1>1, <1>2, <1>3, <1>4, <1>5, Idle DEF IInv

-----------------------------------------------------------------------------
(* A request *)

\* What is left of an earlier migration: the checkpoint with the staging
\* database it counts, the checkpoint of another target alone, or none.
LEMMA Reset ==
    ASSUME IInv, NEW t \in Model, ResetStale(t)
    PROVE  /\ staging' \in Index /\ ckpt' \in {ckpt, None} /\ faults' \in 0..MaxFaults
           /\ outlived' \in BOOLEAN /\ (outlived' => ckpt' # None)
           /\ ~outlived' /\ ckpt' # None =>
                /\ ~outlived /\ ckpt' = ckpt /\ ckpt.target = t
                /\ staging # None => staging' = staging
  <1> DEFINE foreign == ckpt # None /\ ckpt.target # t
  <1>1. \/ /\ ~foreign /\ Succeeds /\ staging' = Created(staging) /\ UNCHANGED <<ckpt, outlived>>
        \/ foreign /\ Succeeds /\ ckpt' = None /\ staging' = EmptyIndex /\ outlived' = FALSE
        \/ /\ ckpt # None /\ Fails /\ staging' \in {EmptyIndex, Created(staging)}
           /\ (ckpt' = None /\ outlived' = FALSE) \/ (UNCHANGED ckpt /\ outlived' = TRUE)
    BY DEF ResetStale
  <1>2. Created(staging) \in Index /\ EmptyIndex \in Index /\ (staging # None => Created(staging) = staging)
    BY Rows DEF IInv, TypeOK, Created
  <1>3. faults' \in 0..MaxFaults
    BY <1>1, FaultsBound
  <1>4. staging' \in Index /\ ckpt' \in {ckpt, None}
    BY <1>1, <1>2
  <1>5. outlived' \in BOOLEAN /\ (outlived' => ckpt' # None)
    <2>1. outlived \in BOOLEAN /\ (outlived => ckpt # None)
      BY Types DEF IInv, TypeOK
    <2>2. CASE UNCHANGED <<ckpt, outlived>>
      BY <2>1, <2>2
    <2>3. CASE outlived' = FALSE
      BY <2>3
    <2>4. CASE outlived' = TRUE /\ ckpt' = ckpt /\ ckpt # None
      BY <2>4
    <2> QED
      BY <1>1, <2>2, <2>3, <2>4
  <1>6. ~outlived' /\ ckpt' # None => ~foreign /\ ckpt' = ckpt /\ ~outlived /\ staging' = Created(staging)
    BY <1>1
  <1> QED
    BY <1>2, <1>3, <1>4, <1>5, <1>6

LEMMA ReserveStep ==
    ASSUME IInv, NEW j \in Job, NEW t \in Model, Reserve(j, t)
    PROVE  IInv'
  <1> DEFINE w == [IdleJob EXCEPT !.pc = "probe", !.target = t]
  <1>1. /\ job[j].pc = "idle" /\ slot = Nobody /\ slot' = j /\ ResetStale(t)
        /\ job' = [job EXCEPT ![j] = w]
        /\ UNCHANGED <<vault, live, box, config, engine, outbox, fill, disturbed, lost>>
    BY DEF Reserve
  <1>2. w \in Task /\ w.pc = "probe" /\ w.target = t
    BY Idle DEF IdleJob, Task, Phase
  <1>3. /\ staging' \in Index /\ ckpt' \in {ckpt, None} /\ faults' \in 0..MaxFaults
        /\ outlived' \in BOOLEAN /\ (outlived' => ckpt' # None)
        /\ ~outlived' /\ ckpt' # None =>
             /\ ~outlived /\ ckpt' = ckpt /\ ckpt.target = t
             /\ staging # None => staging' = staging
    BY <1>1, Reset
  <1> HIDE DEF w
  <1>4. ckpt' \in Checkpoint \cup {None}
    BY <1>3 DEF IInv, TypeOK
  <1>5. WorkOK(w, staging') /\ SameTarget(w, ckpt', outlived')
    BY <1>2, <1>3 DEF WorkOK, SameTarget
  <1>6. \A x \in Job : job[x].pc = "idle"
    BY <1>1, NobodyAssumption DEF IInv, TypeOK
  <1>7. /\ job' \in [Job -> Task] /\ slot' \in Job \cup {Nobody}
        /\ job'[j] = w /\ \A x \in Job : x # j => job'[x].pc = "idle"
        /\ \A x \in Job : job'[x].pc # "idle" <=> slot' = x
        /\ \A x \in Job : WorkOK(job'[x], staging') /\ SameTarget(job'[x], ckpt', outlived')
    BY <1>1, <1>2, <1>5, TaskStep
  <1>8. TypeOK'
    BY <1>1, <1>3, <1>4, <1>7 DEF IInv, TypeOK, Task
  <1>9. DoneIsStaged'
    <2>1. \A x \in Job : job'[x].pc \in {"idle", "probe"}
      BY <1>2, <1>7
    <2>2. ~outlived' /\ ckpt' # None =>
            staging' # None /\ \A b \in ckpt'.done : ModelOf(staging'[b]) = ckpt'.target
      <3> SUFFICES ASSUME ~outlived', ckpt' # None
                   PROVE  staging' # None /\ \A b \in ckpt'.done : ModelOf(staging'[b]) = ckpt'.target
        OBVIOUS
      <3>1. ckpt' = ckpt /\ ~outlived
        BY <1>3
      <3>2. staging # None /\ \A b \in ckpt.done : ModelOf(staging[b]) = ckpt.target
        BY <1>6, <3>1 DEF IInv, DoneIsStaged
      <3> QED
        BY <1>3, <3>1, <3>2
    <2> QED
      BY <2>1, <2>2 DEF DoneIsStaged
  <1>10. \A x \in Job : ~Migrating(x) /\ ~Migrating(x)'
    BY <1>2, <1>6, <1>7 DEF Migrating
  <1>11. OutboxOK'
    BY <1>1, <1>10 DEF IInv, OutboxOK
  <1>12. RowsAreOwed'
    <2>1. Stale' = Stale
      BY <1>1, StaleSame
    <2> QED
      BY <1>1, <1>10, <2>1 DEF IInv, RowsAreOwed
  <1> QED
    BY <1>1, <1>7, <1>8, <1>9, <1>11, <1>12 DEF IInv

\* The end of job j, in whatever phase, as far as tasks and files go.
LEMMA EndedTask ==
    ASSUME IInv, NEW j \in Job, job[j].pc # "idle", job[j].pc # "swapped",
           job' = [job EXCEPT ![j] = IdleJob], slot' = Nobody,
           UNCHANGED <<vault, live, staging, ckpt, box, fill, disturbed, outlived, lost>>,
           config' \in Model, engine' \in Model, outbox' \in {"off", "starting", "running"},
           faults' \in 0..MaxFaults, OutboxOK', RowsAreOwed'
    PROVE  IInv'
  <1>1. slot = j /\ \A x \in Job : x # j => job[x].pc = "idle"
    BY OneTask DEF IInv
  <1>2. WorkOK(IdleJob, staging') /\ SameTarget(IdleJob, ckpt', outlived')
    BY Idle
  <1>3. /\ job' \in [Job -> Task] /\ slot' \in Job \cup {Nobody}
        /\ job'[j] = IdleJob /\ \A x \in Job : x # j => job'[x].pc = "idle"
        /\ \A x \in Job : job'[x].pc # "idle" <=> slot' = x
        /\ \A x \in Job : WorkOK(job'[x], staging') /\ SameTarget(job'[x], ckpt', outlived')
    BY <1>1, <1>2, Idle, TaskStep
  <1>4. TypeOK'
    BY <1>3 DEF IInv, TypeOK, Task
  <1>5. \A x \in Job : job[x].pc # "swapped" /\ job'[x].pc = "idle"
    BY <1>1, <1>3, Idle
  <1>6. DoneIsStaged'
    BY <1>5 DEF IInv, DoneIsStaged
  <1> QED
    BY <1>3, <1>4, <1>6 DEF IInv

LEMMA ProbeFailsStep ==
    ASSUME IInv, NEW j \in Job, ProbeFails(j)
    PROVE  IInv'
  <1>1. /\ job[j].pc = "probe" /\ job' = [job EXCEPT ![j] = IdleJob] /\ slot' = Nobody
        /\ UNCHANGED <<disk, engine, outbox, fill, faults, disturbed, outlived, lost>>
    BY DEF ProbeFails
  <1>2. \A x \in Job : ~Migrating(x) /\ ~Migrating(x)'
    <2>1. job \in [Job -> Task] /\ \A x \in Job : x # j => job[x].pc = "idle"
      BY <1>1, OneTask, Types DEF IInv
    <2>2. \A x \in Job : job'[x].pc = "idle"
      BY <1>1, <2>1, Idle
    <2> QED
      BY <1>1, <2>1, <2>2 DEF Migrating
  <1>3. OutboxOK'
    BY <1>1, <1>2 DEF IInv, OutboxOK
  <1>4. RowsAreOwed'
    <2>1. Stale' = Stale
      BY <1>1, StaleSame DEF disk
    <2> QED
      BY <1>1, <1>2, <2>1 DEF disk, IInv, RowsAreOwed
  <1>5. config' \in Model /\ engine' \in Model /\ outbox' \in {"off", "starting", "running"} /\ faults' \in 0..MaxFaults
    BY <1>1, Types DEF disk, IInv, TypeOK
  <1> QED
    BY <1>1, <1>3, <1>4, <1>5, EndedTask DEF disk

\* The outbox was running: nobody else has stopped it.
LEMMA StopOutboxStep ==
    ASSUME IInv, NEW j \in Job, StopOutbox(j)
    PROVE  IInv'
  <1> DEFINE w == [[job[j] EXCEPT !.pc = "fetch"] EXCEPT !.wasRunning = (outbox # "off")]
  <1>1. /\ job[j].pc = "probe" /\ outbox' = "off" /\ disturbed' = (disturbed \/ fill.pc # "idle")
        /\ job' = [job EXCEPT ![j].pc = "fetch", ![j].wasRunning = outbox # "off"]
        /\ UNCHANGED <<disk, engine, slot, fill, faults, outlived, lost>>
    BY DEF StopOutbox
  <1>2. job \in [Job -> Task] /\ job[j] \in Task /\ slot = j /\ \A x \in Job : x # j => job[x].pc = "idle"
    BY <1>1, OneTask, Types DEF IInv
  <1>3. outbox # "off"
    BY <1>1, <1>2 DEF IInv, OutboxOK, Migrating
  <1>4. w \in Task /\ w.pc = "fetch" /\ w.wasRunning /\ w.target = job[j].target
    BY <1>2, <1>3 DEF Task, Phase
  <1>5. job' = [job EXCEPT ![j] = w]
    BY <1>1, <1>2 DEF Task
  <1> HIDE DEF w
  <1>6. WorkOK(w, staging') /\ SameTarget(w, ckpt', outlived')
    BY <1>1, <1>4 DEF disk, IInv, WorkOK, SameTarget
  <1>7. /\ job' \in [Job -> Task] /\ slot' \in Job \cup {Nobody}
        /\ job'[j] = w /\ \A x \in Job : x # j => job'[x].pc = "idle"
        /\ \A x \in Job : job'[x].pc # "idle" <=> slot' = x
        /\ \A x \in Job : WorkOK(job'[x], staging') /\ SameTarget(job'[x], ckpt', outlived')
    BY <1>1, <1>2, <1>4, <1>5, <1>6, TaskStep
  <1>8. TypeOK'
    BY <1>1, <1>7, Types DEF disk, IInv, TypeOK, Task
  <1>9. DoneIsStaged'
    <2>1. \A x \in Job : /\ job'[x].pc \notin {"embed", "save", "decide", "swapped"}
                         /\ job[x].pc # "swapped"
      BY <1>1, <1>2, <1>4, <1>7
    <2> QED
      BY <1>1, <2>1 DEF disk, IInv, DoneIsStaged
  <1>10. Migrating(j)' /\ job'[j].wasRunning /\ \A x \in Job : Migrating(x)' => x = j
    BY <1>4, <1>7 DEF Migrating
  <1>11. OutboxOK'
    BY <1>1, <1>10 DEF IInv, OutboxOK
  <1>12. RowsAreOwed'
    BY <1>10 DEF RowsAreOwed
  <1> QED
    BY <1>1, <1>7, <1>8, <1>9, <1>11, <1>12 DEF IInv

-----------------------------------------------------------------------------
(* The task *)

\* GiveUp, Abandon and Publish: a migration ends, and leaves its files.
LEMMA EndSteps ==
    ASSUME IInv, NEW j \in Job, GiveUp(j) \/ Abandon(j) \/ Publish(j)
    PROVE  IInv'
  <1>1. /\ job[j].pc \in {"fetch", "decide", "publish"} /\ End(j)
        /\ UNCHANGED <<vault, live, staging, ckpt, box, fill, disturbed, outlived, lost>>
        /\ config' \in {config, job[j].target} /\ engine' \in {engine, job[j].target}
        /\ faults' = faults \/ Fails
    BY DEF GiveUp, Abandon, Publish, disk, Succeeds
  <1>2. job[j].target \in Model /\ config \in Model /\ engine \in Model
    BY <1>1, Types DEF IInv, WorkOK
  <1>3. faults' \in 0..MaxFaults
    BY <1>1, FaultsAssumption DEF Fails, IInv, TypeOK
  <1>4. Migrating(j)
    BY <1>1 DEF Migrating
  <1>5. OutboxOK' /\ RowsAreOwed' /\ outbox' \in {"off", "starting", "running"}
    BY <1>1, <1>4, Ending
  <1>6. job' = [job EXCEPT ![j] = IdleJob] /\ slot' = Nobody
    BY <1>1 DEF End
  <1> QED
    BY <1>1, <1>2, <1>3, <1>5, <1>6, EndedTask

\* The other steps of a task: it stays at work, as w, and the vault, the engine
\* and the outbox are what they were.
LEMMA WorkStep ==
    ASSUME IInv, NEW j \in Job, NEW w \in Task, job' = [job EXCEPT ![j] = w], Migrating(j),
           w.pc \notin {"idle", "probe"}, w.wasRunning = job[j].wasRunning,
           UNCHANGED <<vault, box, config, engine, outbox, slot, fill, disturbed, lost>>,
           live' \in Index, staging' \in Index \cup {None}, ckpt' \in Checkpoint \cup {None},
           faults' \in 0..MaxFaults, outlived' \in BOOLEAN, outlived' => ckpt' # None,
           WorkOK(w, staging'), SameTarget(w, ckpt', outlived'),
           w.pc \in {"embed", "save", "decide"} /\ ~(outlived' /\ ckpt'.target = w.target) =>
             \A b \in w.done : ModelOf(staging'[b]) = w.target,
           ~outlived' /\ ckpt' # None /\ w.pc # "swapped" =>
             staging' # None /\ \A b \in ckpt'.done : ModelOf(staging'[b]) = ckpt'.target
    PROVE  IInv'
  <1>1. slot = j /\ slot' = j
    BY OneTask DEF IInv, Migrating
  <1>2. /\ job' \in [Job -> Task] /\ slot' \in Job \cup {Nobody}
        /\ job'[j] = w /\ \A x \in Job : x # j => job'[x].pc = "idle"
        /\ \A x \in Job : job'[x].pc # "idle" <=> slot' = x
        /\ \A x \in Job : WorkOK(job'[x], staging') /\ SameTarget(job'[x], ckpt', outlived')
    BY <1>1, TaskStep
  <1>3. TypeOK'
    BY <1>2, Types DEF IInv, TypeOK, Task, Backfill
  <1>4. DoneIsStaged'
    <2>1. \A x \in Job : x # j => job'[x].pc \notin {"embed", "save", "decide", "swapped"}
      BY <1>2
    <2> QED
      BY <1>2, <2>1 DEF DoneIsStaged, Relic
  <1>5. OutboxOK' /\ RowsAreOwed'
    BY Working
  <1> QED
    BY <1>2, <1>3, <1>4, <1>5 DEF IInv

LEMMA FetchStep ==
    ASSUME IInv, NEW j \in Job, Fetch(j)
    PROVE  IInv'
  <1> DEFINE counted == IF ckpt # None /\ ckpt.target = job[j].target THEN ckpt.done ELSE {}
  <1>0. PICK done \in {counted, {}} :
          /\ job[j].pc = "fetch"
          /\ job' = [job EXCEPT ![j].pc = IF Known(vault) \ done = {} THEN "decide" ELSE "embed",
                                ![j].texts = vault, ![j].done = done, ![j].left = Known(vault) \ done]
          /\ UNCHANGED <<disk, engine, outbox, slot, fill, disturbed, outlived, lost>>
          /\ Succeeds \/ Fails
    BY DEF Fetch
  <1> DEFINE left == Known(vault) \ done
             w == [pc |-> IF left = {} THEN "decide" ELSE "embed", target |-> job[j].target,
                   texts |-> vault, left |-> left, done |-> done, failed |-> job[j].failed,
                   wasRunning |-> job[j].wasRunning]
  <1>1. /\ job[j].pc = "fetch"
        /\ job' = [job EXCEPT ![j].pc = IF left = {} THEN "decide" ELSE "embed",
                              ![j].texts = vault, ![j].done = done, ![j].left = left]
        /\ UNCHANGED <<disk, engine, outbox, slot, fill, disturbed, outlived, lost>>
        /\ Succeeds \/ Fails
    BY <1>0
  <1>2. /\ job \in [Job -> Task] /\ job[j] \in Task /\ vault \in [Bucket -> Text \cup {Gone}]
        /\ ckpt \in Checkpoint \cup {None} /\ job[j].target \in Model /\ staging \in Index
        /\ \A x \in Job : x # j => job[x].pc = "idle"
    BY <1>1, OneTask, Types DEF IInv, TypeOK, WorkOK
  <1>3. done \subseteq Bucket /\ left \subseteq Bucket /\ left \subseteq Known(vault) /\ Known(vault) \subseteq done \cup left
    BY <1>0, <1>2 DEF Checkpoint, Known
  <1>4. job' = [job EXCEPT ![j] = w]
    <2> DEFINE u == job[j]
               pc == IF left = {} THEN "decide" ELSE "embed"
    <2>1. job' = [job EXCEPT ![j].pc = pc, ![j].texts = vault, ![j].done = done, ![j].left = left]
      BY <1>1
    <2>2. u = [pc |-> u.pc, target |-> u.target, texts |-> u.texts, left |-> u.left,
               done |-> u.done, failed |-> u.failed, wasRunning |-> u.wasRunning]
      <3>1. u \in Task
        BY <1>2
      <3> HIDE DEF u
      <3> QED
        BY <3>1 DEF Task
    <2> HIDE DEF pc, left
    <2>3. job' = [job EXCEPT ![j] = [[[[job[j] EXCEPT !.pc = pc] EXCEPT !.texts = vault] EXCEPT !.done = done] EXCEPT !.left = left]]
      <3>1. job' = [[[[job EXCEPT ![j].pc = pc] EXCEPT ![j].texts = vault] EXCEPT ![j].done = done] EXCEPT ![j].left = left]
        BY <2>1
      <3> QED
        BY <3>1
    <2> HIDE DEF u
    <2>4. PICK v0 : v0 = [u EXCEPT !.pc = pc]
      OBVIOUS
    <2>5. v0 = [pc |-> pc, target |-> u.target, texts |-> u.texts, left |-> u.left,
                done |-> u.done, failed |-> u.failed, wasRunning |-> u.wasRunning]
      BY <2>2, <2>4
    <2>6. PICK v1 : v1 = [v0 EXCEPT !.texts = vault]
      OBVIOUS
    <2>7. v1 = [pc |-> pc, target |-> u.target, texts |-> vault, left |-> u.left,
                done |-> u.done, failed |-> u.failed, wasRunning |-> u.wasRunning]
      BY <2>5, <2>6
    <2>8. PICK v2 : v2 = [v1 EXCEPT !.done = done]
      OBVIOUS
    <2>9. v2 = [pc |-> pc, target |-> u.target, texts |-> vault, left |-> u.left,
                done |-> done, failed |-> u.failed, wasRunning |-> u.wasRunning]
      BY <2>7, <2>8
    <2>10. PICK v3 : v3 = [v2 EXCEPT !.left = left]
      OBVIOUS
    <2>11. v3 = [pc |-> pc, target |-> u.target, texts |-> vault, left |-> left,
                 done |-> done, failed |-> u.failed, wasRunning |-> u.wasRunning]
      BY <2>9, <2>10
    <2>12. v3 = [[[[u EXCEPT !.pc = pc] EXCEPT !.texts = vault] EXCEPT !.done = done] EXCEPT !.left = left]
      BY <2>4, <2>6, <2>8, <2>10, Zenon
    <2> QED
      BY <2>3, <2>11, <2>12 DEF pc, left, u
  <1>5. w \in Task
    <2> HIDE DEF left
    <2> QED
      BY <1>2, <1>3 DEF Task, Phase
  <1>6. WorkOK(w, staging) /\ SameTarget(w, ckpt, outlived)
    <2>1. SameTarget(job[j], ckpt, outlived)
      BY DEF IInv
    <2> HIDE DEF left
    <2> QED
      BY <1>1, <1>2, <1>3, <2>1 DEF WorkOK, SameTarget
  <1>7. w.pc \in {"embed", "decide"} /\ w.wasRunning = job[j].wasRunning /\ w.done = done /\ w.target = job[j].target
    OBVIOUS
  <1>8. /\ ~(outlived /\ ckpt.target = job[j].target) =>
             \A b \in done : ModelOf(staging[b]) = job[j].target
        /\ ~outlived /\ ckpt # None =>
             staging # None /\ \A b \in ckpt.done : ModelOf(staging[b]) = ckpt.target
    <2>1. \A x \in Job : job[x].pc # "swapped"
      BY <1>1, <1>2
    <2>2. ~outlived /\ ckpt # None =>
            staging # None /\ \A b \in ckpt.done : ModelOf(staging[b]) = ckpt.target
      BY <2>1 DEF IInv, DoneIsStaged
    <2> QED
      BY <1>0, <2>2
  <1>9. /\ UNCHANGED <<vault, live, staging, ckpt, box, config, engine, outbox, slot, fill, disturbed, outlived, lost>>
        /\ Migrating(j)
    BY <1>1 DEF disk, Migrating
  <1>10. /\ live \in Index /\ outlived \in BOOLEAN /\ (outlived => ckpt # None)
    BY Types DEF IInv, TypeOK
  <1>11. faults' \in 0..MaxFaults
    BY <1>1, FaultsBound
  <1> HIDE DEF w, left
  <1> QED
    BY <1>2, <1>4, <1>5, <1>6, <1>7, <1>8, <1>9, <1>10, <1>11, WorkStep

LEMMA EmbedStep ==
    ASSUME IInv, NEW j \in Job, NEW b \in Bucket, NEW ok \in BOOLEAN, Embed(j, b, ok)
    PROVE  IInv'
  <1>1. /\ job[j].pc = "embed" /\ b \in job[j].left
        /\ staging' = IF ok THEN [staging EXCEPT ![b] = <<job[j].target, job[j].texts[b]>>] ELSE staging
        /\ UNCHANGED <<vault, live, ckpt, box, config, engine, outbox, slot, fill, faults, disturbed, outlived, lost>>
    BY DEF Embed
  <1>2. PICK pc \in {"embed", "save"} :
          /\ job[j].left = {b} => pc = "save"
          /\ job' = [job EXCEPT ![j].pc = pc, ![j].left = @ \ {b},
                                ![j].done = IF ok THEN @ \cup {b} ELSE @,
                                ![j].failed = @ \/ ~ok]
    BY DEF Embed
  <1> DEFINE done == IF ok THEN job[j].done \cup {b} ELSE job[j].done
             w == [pc |-> pc, target |-> job[j].target, texts |-> job[j].texts,
                   left |-> job[j].left \ {b}, done |-> done,
                   failed |-> (job[j].failed \/ ~ok), wasRunning |-> job[j].wasRunning]
  <1>3. /\ job \in [Job -> Task] /\ job[j] \in Task /\ ckpt \in Checkpoint \cup {None}
        /\ job[j].target \in Model /\ staging \in Index
        /\ job[j].left \subseteq Known(job[j].texts)
        /\ ~job[j].failed => Known(job[j].texts) \subseteq job[j].done \cup job[j].left
        /\ ~outlived /\ ckpt # None => ckpt.target = job[j].target
        /\ \A x \in Job : x # j => job[x].pc = "idle"
    BY <1>1, OneTask, Types DEF IInv, TypeOK, WorkOK, SameTarget
  <1>4. /\ job[j].texts \in [Bucket -> Text \cup {Gone}] /\ job[j].texts[b] \in Text
        /\ job[j].done \subseteq Bucket /\ job[j].left \subseteq Bucket /\ job[j].failed \in BOOLEAN
    BY <1>1, <1>3 DEF Task, Known
  <1>5. /\ staging' \in Index /\ staging' # None
        /\ \A c \in Bucket : ModelOf(staging'[c]) = IF ok /\ c = b THEN job[j].target ELSE ModelOf(staging[c])
    <2>1. CASE ok
      <3> DEFINE new == <<job[j].target, job[j].texts[b]>>
      <3>1. new \in Row /\ ModelOf(new) = job[j].target /\ [staging EXCEPT ![b] = new] \in Index
        BY <1>3, <1>4, Rows
      <3> HIDE DEF new
      <3>2. staging' = [staging EXCEPT ![b] = new]
        BY <1>1, <2>1 DEF new
      <3>3. \A c \in Bucket : staging'[c] = IF c = b THEN new ELSE staging[c]
        BY <1>3, <3>2 DEF Index
      <3>4. staging' \in Index
        BY <3>1, <3>2
      <3>5. staging' # None
        BY <3>4, NoneAssumption
      <3> QED
        BY <2>1, <3>1, <3>3, <3>4, <3>5
    <2>2. CASE ~ok
      BY <1>1, <1>3, <2>2, NoneAssumption
    <2> QED
      BY <2>1, <2>2
  <1>6. w \in Task
    BY <1>3, <1>4 DEF Task, Phase
  <1>7. job' = [job EXCEPT ![j] = w]
    <2> DEFINE u == job[j]
               left == job[j].left \ {b}
               failed == (job[j].failed \/ ~ok)
    <2>1. job' = [job EXCEPT ![j].pc = pc, ![j].left = left, ![j].done = done, ![j].failed = failed]
      BY <1>2, <1>3
    <2>2. u = [pc |-> u.pc, target |-> u.target, texts |-> u.texts, left |-> u.left,
               done |-> u.done, failed |-> u.failed, wasRunning |-> u.wasRunning]
      <3>1. u \in Task
        BY <1>3
      <3> HIDE DEF u
      <3> QED
        BY <3>1 DEF Task
    <2> HIDE DEF left, failed, done
    <2>3. job' = [job EXCEPT ![j] = [[[[job[j] EXCEPT !.pc = pc] EXCEPT !.left = left] EXCEPT !.done = done] EXCEPT !.failed = failed]]
      <3>1. job' = [[[[job EXCEPT ![j].pc = pc] EXCEPT ![j].left = left] EXCEPT ![j].done = done] EXCEPT ![j].failed = failed]
        BY <2>1
      <3> QED
        BY <3>1
    <2> HIDE DEF u
    <2>4. PICK v0 : v0 = [u EXCEPT !.pc = pc]
      OBVIOUS
    <2>5. v0 = [pc |-> pc, target |-> u.target, texts |-> u.texts, left |-> u.left,
                done |-> u.done, failed |-> u.failed, wasRunning |-> u.wasRunning]
      BY <2>2, <2>4
    <2>6. PICK v1 : v1 = [v0 EXCEPT !.left = left]
      OBVIOUS
    <2>7. v1 = [pc |-> pc, target |-> u.target, texts |-> u.texts, left |-> left,
                done |-> u.done, failed |-> u.failed, wasRunning |-> u.wasRunning]
      BY <2>5, <2>6
    <2>8. PICK v2 : v2 = [v1 EXCEPT !.done = done]
      OBVIOUS
    <2>9. v2 = [pc |-> pc, target |-> u.target, texts |-> u.texts, left |-> left,
                done |-> done, failed |-> u.failed, wasRunning |-> u.wasRunning]
      BY <2>7, <2>8
    <2>10. PICK v3 : v3 = [v2 EXCEPT !.failed = failed]
      OBVIOUS
    <2>11. v3 = [pc |-> pc, target |-> u.target, texts |-> u.texts, left |-> left,
                 done |-> done, failed |-> failed, wasRunning |-> u.wasRunning]
      BY <2>9, <2>10
    <2>12. v3 = [[[[u EXCEPT !.pc = pc] EXCEPT !.left = left] EXCEPT !.done = done] EXCEPT !.failed = failed]
      BY <2>4, <2>6, <2>8, <2>10, Zenon
    <2> QED
      BY <2>3, <2>11, <2>12 DEF left, failed, done, u
  <1>8. /\ w.pc = pc /\ w.wasRunning = job[j].wasRunning /\ w.done = done /\ w.target = job[j].target
        /\ w.left = job[j].left \ {b} /\ w.texts = job[j].texts /\ w.failed = (job[j].failed \/ ~ok)
    OBVIOUS
  <1> HIDE DEF w
  <1>9. WorkOK(w, staging') /\ SameTarget(w, ckpt, outlived)
    <2>1. w.left \subseteq Known(w.texts)
      BY <1>3, <1>8
    <2>2. ~w.failed => Known(w.texts) \subseteq w.done \cup w.left
      BY <1>3, <1>8
    <2>3. w.target \in Model /\ w.pc \in {"embed", "save"} /\ (~outlived /\ ckpt # None => ckpt.target = w.target)
      BY <1>3, <1>8
    <2> QED
      BY <1>5, <2>1, <2>2, <2>3 DEF WorkOK, SameTarget
  <1>10. /\ ~(outlived /\ ckpt.target = job[j].target) =>
              \A c \in done : ModelOf(staging'[c]) = job[j].target
         /\ ~outlived /\ ckpt # None =>
              staging' # None /\ \A c \in ckpt.done : ModelOf(staging'[c]) = ckpt.target
    <2>1. ~(outlived /\ ckpt.target = job[j].target) =>
            \A c \in job[j].done : ModelOf(staging[c]) = job[j].target
      BY <1>1 DEF IInv, DoneIsStaged, Relic
    <2>2. ~outlived /\ ckpt # None => \A c \in ckpt.done : ModelOf(staging[c]) = ckpt.target
      <3>1. \A x \in Job : job[x].pc # "swapped"
        BY <1>1, <1>3
      <3> QED
        BY <3>1 DEF IInv, DoneIsStaged
    <2>3. ckpt # None => ckpt.done \subseteq Bucket
      BY <1>3 DEF Checkpoint
    <2>4. \A c \in Bucket : ModelOf(staging[c]) = job[j].target => ModelOf(staging'[c]) = job[j].target
      BY <1>5
    <2>5. ok => ModelOf(staging'[b]) = job[j].target
      BY <1>4, <1>5
    <2> QED
      BY <1>3, <1>4, <1>5, <2>1, <2>2, <2>3, <2>4, <2>5
  <1>11. Migrating(j) /\ w.pc \in {"embed", "save"}
    BY <1>1, <1>8 DEF Migrating
  <1>12. live \in Index /\ faults \in 0..MaxFaults /\ outlived \in BOOLEAN /\ (outlived => ckpt # None)
    BY Types DEF IInv, TypeOK
  <1> HIDE DEF done
  <1> QED
    BY <1>1, <1>3, <1>5, <1>6, <1>7, <1>8, <1>9, <1>10, <1>11, <1>12, WorkStep

\* What IInv says of the task at work in its later phases.
LEMMA AtWork ==
    ASSUME IInv, NEW j \in Job, job[j].pc \notin {"idle", "probe"}
    PROVE  /\ job \in [Job -> Task] /\ job[j] \in Task /\ job[j].target \in Model /\ Migrating(j)
           /\ WorkOK(job[j], staging) /\ SameTarget(job[j], ckpt, outlived)
           /\ live \in Index /\ staging \in Index \cup {None} /\ ckpt \in Checkpoint \cup {None}
           /\ faults \in 0..MaxFaults /\ outlived \in BOOLEAN /\ (outlived => ckpt # None)
           /\ \A x \in Job : x # j => job[x].pc = "idle"
  BY OneTask, Types DEF IInv, TypeOK, WorkOK, Migrating

LEMMA SaveStep ==
    ASSUME IInv, NEW j \in Job, Save(j)
    PROVE  IInv'
  <1> DEFINE w == [job[j] EXCEPT !.pc = IF job[j].left = {} THEN "decide" ELSE "embed"]
             new == [target |-> job[j].target, done |-> job[j].done]
  <1>1. /\ job[j].pc = "save" /\ job' = [job EXCEPT ![j] = w] /\ (Succeeds \/ Fails)
        /\ \/ ckpt' = new /\ outlived' = (outlived /\ ckpt.target = job[j].target)
           \/ UNCHANGED <<ckpt, outlived>>
        /\ UNCHANGED <<vault, live, staging, box, config, engine, outbox, slot, fill, disturbed, lost>>
    BY DEF Save
  <1>2. /\ job[j] \in Task /\ job[j].target \in Model /\ Migrating(j)
        /\ WorkOK(job[j], staging) /\ SameTarget(job[j], ckpt, outlived) /\ staging \in Index
        /\ live \in Index /\ ckpt \in Checkpoint \cup {None} /\ outlived \in BOOLEAN
        /\ (outlived => ckpt # None) /\ \A x \in Job : x # j => job[x].pc = "idle"
    BY <1>1, AtWork DEF WorkOK
  <1>3. /\ w \in Task /\ w.pc \in {"embed", "decide"} /\ (w.pc = "decide" => w.left = {})
        /\ w.target = job[j].target /\ w.texts = job[j].texts /\ w.left = job[j].left
        /\ w.done = job[j].done /\ w.failed = job[j].failed /\ w.wasRunning = job[j].wasRunning
    BY <1>2 DEF Task, Phase
  <1>4. new \in Checkpoint /\ new # None /\ new.target = job[j].target /\ new.done = job[j].done
    <2>1. job[j].done \subseteq Bucket
      BY <1>2 DEF Task
    <2>2. new \in Checkpoint /\ new.target = job[j].target /\ new.done = job[j].done
      BY <1>2, <2>1 DEF Checkpoint
    <2> HIDE DEF new
    <2> QED
      BY <2>2, NoneAssumption
  <1> HIDE DEF w, new
  <1>5. /\ ckpt' \in Checkpoint \cup {None} /\ outlived' \in BOOLEAN /\ (outlived' => ckpt' # None)
        /\ (~outlived' /\ ckpt' # None => ckpt'.target = job[j].target)
    <2>1. CASE ckpt' = new /\ outlived' = (outlived /\ ckpt.target = job[j].target)
      BY <1>2, <1>4, <2>1
    <2>2. CASE UNCHANGED <<ckpt, outlived>>
      BY <1>1, <1>2, <2>2 DEF SameTarget
    <2> QED
      BY <1>1, <2>1, <2>2
  <1>6. WorkOK(w, staging) /\ SameTarget(w, ckpt', outlived')
    BY <1>1, <1>2, <1>3, <1>5 DEF WorkOK, SameTarget
  <1>7. ~(outlived /\ ckpt.target = job[j].target) =>
          \A b \in job[j].done : ModelOf(staging[b]) = job[j].target
    BY <1>1 DEF IInv, DoneIsStaged, Relic
  <1>8. ~(outlived' /\ ckpt'.target = job[j].target) => ~(outlived /\ ckpt.target = job[j].target)
    <2>1. CASE ckpt' = new /\ outlived' = (outlived /\ ckpt.target = job[j].target)
      BY <1>4, <2>1
    <2>2. CASE UNCHANGED <<ckpt, outlived>>
      BY <2>2
    <2> QED
      BY <1>1, <2>1, <2>2
  <1>9. ~outlived' /\ ckpt' # None =>
          staging # None /\ \A b \in ckpt'.done : ModelOf(staging[b]) = ckpt'.target
    <2> SUFFICES ASSUME ~outlived', ckpt' # None
                 PROVE  staging # None /\ \A b \in ckpt'.done : ModelOf(staging[b]) = ckpt'.target
      OBVIOUS
    <2>1. \A x \in Job : job[x].pc # "swapped"
      BY <1>1, <1>2
    <2>2. staging # None
      BY <1>2, NoneAssumption
    <2>3. CASE ckpt' = ckpt /\ outlived' = outlived
      BY <2>1, <2>2, <2>3 DEF IInv, DoneIsStaged
    <2>4. CASE ckpt' = new
      BY <1>4, <1>7, <1>8, <2>2, <2>4
    <2> QED
      BY <1>1, <2>3, <2>4
  <1>10. faults' \in 0..MaxFaults
    BY <1>1, FaultsBound
  <1> QED
    BY <1>1, <1>2, <1>3, <1>5, <1>6, <1>7, <1>8, <1>9, <1>10, WorkStep

LEMMA SwapStep ==
    ASSUME IInv, NEW j \in Job, Swap(j)
    PROVE  IInv'
  <1> DEFINE w == [pc |-> "swapped", target |-> job[j].target, texts |-> IdleJob.texts,
                   left |-> job[j].left, done |-> {}, failed |-> job[j].failed,
                   wasRunning |-> job[j].wasRunning]
  <1>1. /\ job[j].pc = "decide" /\ live' = staging /\ staging' = None
        /\ job' = [job EXCEPT ![j].pc = "swapped", ![j].texts = IdleJob.texts, ![j].done = {}]
        /\ UNCHANGED <<vault, ckpt, box, config, engine, outbox, slot, fill, faults, disturbed, outlived, lost>>
    BY DEF Swap
  <1>2. /\ job \in [Job -> Task] /\ job[j] \in Task /\ job[j].target \in Model /\ Migrating(j)
        /\ SameTarget(job[j], ckpt, outlived) /\ staging \in Index /\ ckpt \in Checkpoint \cup {None}
        /\ faults \in 0..MaxFaults /\ outlived \in BOOLEAN /\ (outlived => ckpt # None)
    BY <1>1, AtWork DEF WorkOK
  <1>3. w \in Task
    <2>1. IdleJob.texts \in [Bucket -> Text \cup {Gone}]
      BY DEF IdleJob
    <2> QED
      BY <1>2, <2>1 DEF Task, Phase
  <1>4. job' = [job EXCEPT ![j] = w]
    <2> DEFINE u == job[j]
               gone == IdleJob.texts
    <2>1. u = [pc |-> u.pc, target |-> u.target, texts |-> u.texts, left |-> u.left,
               done |-> u.done, failed |-> u.failed, wasRunning |-> u.wasRunning]
      <3>1. u \in Task
        BY <1>2
      <3> HIDE DEF u
      <3> QED
        BY <3>1 DEF Task
    <2> HIDE DEF gone
    <2>2. job' = [job EXCEPT ![j] = [[[job[j] EXCEPT !.pc = "swapped"] EXCEPT !.texts = gone] EXCEPT !.done = {}]]
      <3>1. job' = [[[job EXCEPT ![j].pc = "swapped"] EXCEPT ![j].texts = gone] EXCEPT ![j].done = {}]
        BY <1>1 DEF gone
      <3> QED
        BY <3>1
    <2> HIDE DEF u
    <2>3. PICK v0 : v0 = [u EXCEPT !.pc = "swapped"]
      OBVIOUS
    <2>4. v0 = [pc |-> "swapped", target |-> u.target, texts |-> u.texts, left |-> u.left,
                done |-> u.done, failed |-> u.failed, wasRunning |-> u.wasRunning]
      BY <2>1, <2>3
    <2>5. PICK v1 : v1 = [v0 EXCEPT !.texts = gone]
      OBVIOUS
    <2>6. v1 = [pc |-> "swapped", target |-> u.target, texts |-> gone, left |-> u.left,
                done |-> u.done, failed |-> u.failed, wasRunning |-> u.wasRunning]
      BY <2>4, <2>5
    <2>7. PICK v2 : v2 = [v1 EXCEPT !.done = {}]
      OBVIOUS
    <2>8. v2 = [pc |-> "swapped", target |-> u.target, texts |-> gone, left |-> u.left,
                done |-> {}, failed |-> u.failed, wasRunning |-> u.wasRunning]
      BY <2>6, <2>7
    <2>9. v2 = [[[u EXCEPT !.pc = "swapped"] EXCEPT !.texts = gone] EXCEPT !.done = {}]
      BY <2>3, <2>5, <2>7, Zenon
    <2> QED
      BY <2>2, <2>8, <2>9 DEF gone, u
  <1>5. w.pc = "swapped" /\ w.target = job[j].target /\ w.wasRunning = job[j].wasRunning
    OBVIOUS
  <1> HIDE DEF w
  <1>6. WorkOK(w, staging') /\ SameTarget(w, ckpt, outlived)
    BY <1>1, <1>2, <1>5 DEF WorkOK, SameTarget
  <1> QED
    BY <1>1, <1>2, <1>3, <1>4, <1>5, <1>6, WorkStep

LEMMA DropCheckpointStep ==
    ASSUME IInv, NEW j \in Job, DropCheckpoint(j)
    PROVE  IInv'
  <1> DEFINE w == [job[j] EXCEPT !.pc = "publish"]
  <1>1. /\ job[j].pc = "swapped" /\ job' = [job EXCEPT ![j] = w] /\ (Succeeds \/ Fails)
        /\ \/ ckpt' = None /\ outlived' = FALSE
           \/ ckpt' = ckpt /\ outlived' = (ckpt # None)
        /\ UNCHANGED <<vault, live, staging, box, config, engine, outbox, slot, fill, disturbed, lost>>
    BY DEF DropCheckpoint
  <1>2. /\ job[j] \in Task /\ job[j].target \in Model /\ Migrating(j)
        /\ staging \in Index \cup {None} /\ live \in Index /\ ckpt \in Checkpoint \cup {None}
    BY <1>1, AtWork
  <1>3. w \in Task /\ w.pc = "publish" /\ w.target = job[j].target /\ w.wasRunning = job[j].wasRunning
    BY <1>2 DEF Task, Phase
  <1> HIDE DEF w
  <1>4. WorkOK(w, staging) /\ SameTarget(w, ckpt', outlived')
    BY <1>2, <1>3 DEF WorkOK, SameTarget
  <1>5. ckpt' \in Checkpoint \cup {None} /\ outlived' \in BOOLEAN /\ (outlived' <=> ckpt' # None)
    BY <1>1, <1>2
  <1>6. faults' \in 0..MaxFaults
    BY <1>1, FaultsBound
  <1> QED
    BY <1>1, <1>2, <1>3, <1>4, <1>5, <1>6, WorkStep

-----------------------------------------------------------------------------
(* The start, and every step *)

LEMMA InitIInv == Init => IInv
  <1> SUFFICES ASSUME Init PROVE IInv
    OBVIOUS
  <1>1. /\ vault \in [Bucket -> Text \cup {Gone}] /\ engine = Original /\ config = Original
        /\ live = [b \in Bucket |-> IF vault[b] = Gone THEN None ELSE <<engine, vault[b]>>]
        /\ staging = None /\ ckpt = None /\ box = {} /\ outbox = "running" /\ slot = Nobody
        /\ job = [j \in Job |-> IdleJob] /\ fill = IdleFill /\ faults = 0
        /\ disturbed = FALSE /\ outlived = FALSE /\ lost = {}
    BY DEF Init
  <1>2. \A j \in Job : job[j] = IdleJob /\ job[j].pc = "idle" /\ slot # j
    BY <1>1, Idle, NobodyAssumption
  <1>3. live \in Index
    <2>1. \A b \in Bucket : live[b] \in Row \cup {None}
      BY <1>1, OriginalAssumption DEF Row
    <2> QED
      BY <1>1, <2>1 DEF Index
  <1>4. TypeOK
    <2>1. job \in [Job -> Task] /\ fill \in Backfill
      BY <1>1, Idle
    <2>2. \A j \in Job : job[j].pc # "idle" <=> slot = j
      BY <1>2
    <2>3. box \subseteq Bucket /\ lost \subseteq Bucket /\ {config, engine} \subseteq Model
      BY <1>1, OriginalAssumption
    <2>4. {disturbed, outlived} \subseteq BOOLEAN /\ (outlived => ckpt # None)
      BY <1>1
    <2>5. faults \in 0..MaxFaults
      BY <1>1, FaultsAssumption
    <2>6. staging \in Index \cup {None} /\ ckpt \in Checkpoint \cup {None} /\ slot \in Job \cup {Nobody}
          /\ outbox \in {"off", "starting", "running"}
      BY <1>1
    <2> QED
      BY <1>1, <1>3, <2>1, <2>2, <2>3, <2>4, <2>5, <2>6 DEF TypeOK, Task, Backfill
  <1>5. DoneIsStaged
    BY <1>1, <1>2 DEF DoneIsStaged
  <1>6. OutboxOK
    BY <1>1, <1>2, Idle DEF OutboxOK, Migrating
  <1>7. RowsAreOwed
    <2>1. Stale = {}
      BY <1>1 DEF Stale, Known
    <2> QED
      BY <2>1 DEF RowsAreOwed
  <1> QED
    BY <1>1, <1>2, <1>4, <1>5, <1>6, <1>7, Idle DEF IInv

LEMMA JobIInv ==
    ASSUME IInv, NEW j \in Job, JobStep(j)
    PROVE  IInv'
  BY ProbeFailsStep, StopOutboxStep, EndSteps, FetchStep, SaveStep, SwapStep, DropCheckpointStep,
     EmbedStep DEF JobStep

LEMMA SameIInv ==
    ASSUME IInv, UNCHANGED vars
    PROVE  IInv'
  <1>1. UNCHANGED <<vault, live, staging, ckpt, box, config, engine, outbox, slot, job, fill, faults,
                    disturbed, outlived, lost>>
    BY DEF vars, disk
  <1>2. TypeOK'
    BY <1>1 DEF IInv, TypeOK
  <1>3. OutboxOK'
    BY <1>1, OutboxSame DEF IInv
  <1>4. RowsAreOwed'
    BY <1>1, StaleSame, OwedStep
  <1> QED
    BY <1>1, <1>2, <1>3, <1>4, OthersStep DEF IInv

LEMMA NextIInv == IInv /\ [Next]_vars => IInv'
  <1> SUFFICES ASSUME IInv, [Next]_vars PROVE IInv'
    OBVIOUS
  <1>1. ASSUME NEW j \in Job, JobStep(j) \/ \E t \in Model : Reserve(j, t)
        PROVE  IInv'
    BY <1>1, JobIInv, ReserveStep
  <1>2. ASSUME NEW b \in Bucket,
               Process(b) \/ BackfillEmbed(b) \/ Delete(b) \/ \E x \in Text : Write(b, x)
        PROVE  IInv'
    BY <1>2, ProcessStep, BackfillEmbedStep, DeleteStep, WriteStep
  <1>3. CASE \/ BackfillStart \/ BackfillClean \/ BackfillQueue \/ BackfillDirect \/ BackfillEnd
    BY <1>3, BackfillSteps
  <1>4. CASE Reconcile \/ Ensure \/ Crash \/ UNCHANGED vars
    BY <1>4, ReconcileStep, EnsureStep, CrashStep, SameIInv
  <1> QED
    BY <1>1, <1>2, <1>3, <1>4 DEF Next

LEMMA SpecIInv == Spec => []IInv
  BY InitIInv, NextIInv, PTL DEF Spec

-----------------------------------------------------------------------------
(* Theorems *)

\* All data keep their types, and one migration at most is past its request.
THEOREM MigrationTypeCorrect == Spec => []TypeOK
  <1>1. IInv => TypeOK
    BY DEF IInv
  <1> QED
    BY <1>1, SpecIInv, PTL

\* What a migration or its checkpoint counts as done has a row of the target
\* in the staging database, unless the checkpoint has outlived these rows.
THEOREM DoneStaysStaged == Spec => []DoneIsStaged
  <1>1. IInv => DoneIsStaged
    BY DEF IInv
  <1> QED
    BY <1>1, SpecIInv, PTL

\* Every vector that does not represent its memory is owed by the outbox, by a
\* reconciliation under way or by one that follows the migration, unless
\* others wrote vectors during a migration or the outbox has failed to register
\* the memory since.
THEOREM StaleRowsAreOwed == Spec => []RowsAreOwed
  <1>1. IInv => RowsAreOwed
    BY DEF IInv
  <1> QED
    BY <1>1, SpecIInv, PTL

\* The database that goes live has a row of the target for every memory that
\* the migration read, unless the migration believed a checkpoint that has
\* outlived its rows.
THEOREM ExchangeIsWhole == Spec => SwapIsWhole
  <1>1. IInv /\ [Next]_vars =>
          [ \A j \in Job : ~Relic(job[j].target) /\ job[j].pc = "decide" /\ job'[j].pc = "swapped" =>
              \A b \in Known(job[j].texts) : ModelOf(live'[b]) = job[j].target ]_vars
    <2> SUFFICES ASSUME IInv, Next, NEW j \in Job, ~Relic(job[j].target), job[j].pc = "decide", job'[j].pc = "swapped",
                        NEW b \in Known(job[j].texts)
                 PROVE  ModelOf(live'[b]) = job[j].target
      OBVIOUS
    <2>1. job \in [Job -> Task] /\ \A x \in Job : x # j => job[x].pc = "idle"
      BY AtWork
    <2>2. Swap(j)
      <3>1. ~(job' = job)
        OBVIOUS
      <3>2. CASE \E x \in Job : JobStep(x)
        <4>1. PICK x \in Job : JobStep(x)
          BY <3>2
        <4>2. job[x].pc # "idle"
          BY <4>1 DEF JobStep, ProbeFails, StopOutbox, GiveUp, Fetch, Save, Abandon, Swap, DropCheckpoint,
                      Publish, Embed
        <4>3. x = j
          BY <2>1, <4>2
        <4>4. ~Abandon(j)
          BY <2>1, Idle DEF Abandon, End
        <4> QED
          BY <4>1, <4>3, <4>4 DEF JobStep, ProbeFails, StopOutbox, GiveUp, Fetch, Save, DropCheckpoint,
                                  Publish, Embed
      <3>3. CASE \E x \in Job, t \in Model : Reserve(x, t)
        <4>1. slot = Nobody
          BY <3>3 DEF Reserve
        <4> QED
          BY <4>1, OneTask, NobodyAssumption DEF IInv
      <3>4. CASE Crash
        <4>1. job'[j] = IdleJob
          BY <3>4 DEF Crash
        <4> QED
          BY <4>1, Idle
      <3> QED
        BY <3>1, <3>2, <3>3, <3>4 DEF Next, Reconcile, Process, BackfillEmbed, Delete, Write, BackfillStart,
             BackfillClean, BackfillQueue, BackfillDirect, BackfillEnd, Ensure
    <2>3. WorkOK(job[j], staging) /\ ~job[j].failed /\ live' = staging
      BY <2>2 DEF IInv, Swap
    <2>4. b \in job[j].done
      BY <2>3 DEF WorkOK
    <2>5. ModelOf(staging[b]) = job[j].target
      BY <2>4 DEF IInv, DoneIsStaged
    <2> QED
      BY <2>3, <2>5
  <1> QED
    BY <1>1, SpecIInv, PTL DEF Spec, SwapIsWhole
=============================================================================

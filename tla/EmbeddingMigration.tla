------------------------- MODULE EmbeddingMigration -------------------------
(***************************************************************************)
(* Changing the model of the vector index while the memory is in use.      *)
(*                                                                         *)
(* A migration computes the vector of every memory with the target model   *)
(* into a staging database, and replaces the live database by it only when *)
(* all of them are there.  A checkpoint remembers which memories are done, *)
(* so that a migration that failed or died is continued.  One slot admits  *)
(* one migration at a time; the worker of the outbox is stopped for the    *)
(* time of the migration and afterwards restarted with a reconciliation.   *)
(*                                                                         *)
(* vault, live, staging, ckpt, box and config are on disk and survive a    *)
(* crash.  The outbox is the one of module EmbeddingOutbox, reduced to     *)
(* bodies and to one action for each of its coroutines.  Every job is both *)
(* the request that starts a migration and the background task it becomes. *)
(***************************************************************************)
EXTENDS Naturals

CONSTANTS
    Bucket,      \* bucket ids
    Text,        \* texts a memory may hold
    Model,       \* embedding models (backend, name and dimension)
    Original,    \* the model at the beginning
    Job,         \* requests for a migration
    Gone,        \* the text of a memory that does not exist
    None,        \* no row, no file
    Nobody,      \* nobody holds the slot
    Ops,         \* what else may happen: see the actions
    Changing,    \* bound: memories that are written or deleted
    MaxFaults    \* bound: crashes, failed writes, uses of Ensure and backfills

ASSUME OriginalAssumption == Original \in Model
ASSUME ChangingAssumption == Changing \subseteq Bucket
ASSUME GoneAssumption == Gone \notin Text
ASSUME NobodyAssumption == Nobody \notin Job
ASSUME FaultsAssumption == MaxFaults \in Nat

VARIABLES
    vault,       \* Markdown truth
    live,        \* embeddings.db: the model and the text of every row
    staging,     \* embeddings.db.migrating
    ckpt,        \* the checkpoint: its target and the memories that are done
    box,         \* memories that the outbox file lists
    config,      \* the model that config.yaml names
    engine,      \* the model that the running server uses
    outbox,      \* "off", "starting" (reconciling) or "running"
    slot,        \* the job that holds the migration slot
    job,         \* the jobs
    fill,        \* the backfill task
    faults,      \* how many of these have happened
    disturbed,   \* history: others wrote the live index during a migration
    outlived,    \* history: the checkpoint has outlived the rows it counts
    lost         \* history: memories that a failed registration or
                 \* reconciliation has passed over since

disk == <<vault, live, staging, ckpt, box, config>>
vars == <<disk, engine, outbox, slot, job, fill, faults, disturbed, outlived, lost>>

-----------------------------------------------------------------------------
(* Data *)

Row == Model \X Text
Index == [Bucket -> Row \cup {None}]
EmptyIndex == [b \in Bucket |-> None]
Checkpoint == [target : Model, done : SUBSET Bucket]

\* Nothing else is taken for a missing row or file.
ASSUME NoneAssumption == None \notin Model \cup Row \cup Index \cup Checkpoint

ModelOf(row) == IF row = None THEN None ELSE row[1]
Known(texts) == {b \in Bucket : texts[b] # Gone}

IdleJob == [pc |-> "idle", target |-> None, texts |-> [b \in Bucket |-> Gone],
            left |-> {}, done |-> {}, failed |-> FALSE, wasRunning |-> FALSE]
IdleFill == [pc |-> "idle", model |-> None, texts |-> [b \in Bucket |-> Gone]]

\* Memories whose vector is missing, or of another model or text.
Stale == {b \in Known(vault) : live[b] # <<engine, vault[b]>>}

\* From outbox.stop() until the outbox is handed back.
Migrating(j) == job[j].pc \notin {"idle", "probe"}

\* start() does nothing while the outbox runs.
Started == IF outbox = "off" THEN "starting" ELSE outbox

Init ==
    /\ vault \in [Bucket -> Text \cup {Gone}]
    /\ Bucket \ Changing \subseteq Known(vault)
    /\ engine = Original
    /\ config = Original
    /\ live = [b \in Bucket |-> IF vault[b] = Gone THEN None ELSE <<engine, vault[b]>>]
    /\ staging = None
    /\ ckpt = None
    /\ box = {}
    /\ outbox = "running"
    /\ slot = Nobody
    /\ job = [j \in Job |-> IdleJob]
    /\ fill = IdleFill
    /\ faults = 0
    /\ disturbed = FALSE
    /\ outlived = FALSE
    /\ lost = {}

\* Something fails and the code goes on without it: a small file cannot be
\* read, written or removed, the outbox does not register a memory, a
\* reconciliation passes memories over; or one of the other events that share
\* the bound.
Fails == faults < MaxFaults /\ faults' = faults + 1
Succeeds == UNCHANGED faults

-----------------------------------------------------------------------------
(* The request *)

\* The target engine creates the staging database unless it is there.
Created(stage) == IF stage = None THEN EmptyIndex ELSE stage

\* reset_stale_migration_state, and the target engine after it: the checkpoint
\* of another target is removed together with the rows it counts.  Either
\* removal may fail, also that of a checkpoint that cannot be read, and nobody
\* is told: the checkpoint may go without the rows, or the rows without it.
ResetStale(t) ==
    LET foreign == ckpt # None /\ ckpt.target # t
    IN \/ /\ ~foreign
          /\ Succeeds
          /\ staging' = Created(staging)
          /\ UNCHANGED <<ckpt, outlived>>
       \/ /\ foreign
          /\ Succeeds
          /\ ckpt' = None
          /\ staging' = EmptyIndex
          /\ outlived' = FALSE
       \/ /\ ckpt # None
          /\ Fails
          /\ staging' \in {EmptyIndex, Created(staging)}
          /\ \/ ckpt' = None /\ outlived' = FALSE
             \/ UNCHANGED ckpt /\ outlived' = TRUE

\* (Mutant) Staging files are prepared before the slot is reserved.
ReserveLate(j, t) ==
    /\ job[j].pc = "idle"
    /\ slot' = IF slot = Nobody THEN j ELSE slot
    /\ ResetStale(t)
    /\ job' = [job EXCEPT ![j] = IF slot = Nobody
                                 THEN [IdleJob EXCEPT !.pc = "probe", !.target = t] ELSE @]
    /\ UNCHANGED <<vault, live, box, config, engine, outbox, fill, disturbed, lost>>

\* reserve_migration, and all that the route does before it awaits the probe:
\* what an earlier migration to another target has left behind is removed, and
\* the target engine creates the staging database.
Reserve(j, t) ==
    /\ job[j].pc = "idle"
    /\ slot = Nobody
    /\ slot' = j
    /\ ResetStale(t)
    /\ job' = [job EXCEPT ![j] = [IdleJob EXCEPT !.pc = "probe", !.target = t]]
    /\ UNCHANGED <<vault, live, box, config, engine, outbox, fill, disturbed, lost>>

\* (Mutant) The early return keeps the reservation.
ProbeFailsHolding(j) ==
    /\ job[j].pc = "probe"
    /\ job' = [job EXCEPT ![j] = IdleJob]
    /\ UNCHANGED <<disk, engine, outbox, slot, fill, faults, disturbed, outlived, lost>>

\* The target engine cannot embed the probe: nothing is migrated.
ProbeFails(j) ==
    /\ job[j].pc = "probe"
    /\ job' = [job EXCEPT ![j] = IdleJob]
    /\ slot' = Nobody
    /\ UNCHANGED <<disk, engine, outbox, fill, faults, disturbed, outlived, lost>>

\* The worker is stopped; a backfill may still be at work.
StopOutbox(j) ==
    /\ job[j].pc = "probe"
    /\ job' = [job EXCEPT ![j].pc = "fetch", ![j].wasRunning = outbox # "off"]
    /\ outbox' = "off"
    /\ disturbed' = (disturbed \/ fill.pc # "idle")
    /\ UNCHANGED <<disk, engine, slot, fill, faults, outlived, lost>>

-----------------------------------------------------------------------------
(* The task *)

\* (Mutant) The callback restarts the worker without a reconciliation.
EndPlain(j) ==
    /\ job' = [job EXCEPT ![j] = IdleJob]
    /\ slot' = Nobody
    /\ outbox' = IF job[j].wasRunning THEN "running" ELSE outbox

\* The end of every migration: on_complete restarts the outbox, the slot is
\* released.
End(j) ==
    /\ job' = [job EXCEPT ![j] = IdleJob]
    /\ slot' = Nobody
    /\ outbox' = IF job[j].wasRunning THEN Started ELSE outbox

\* The backup or the list of memories fails, or the request is cancelled
\* while it waits for the outbox.
GiveUp(j) ==
    /\ job[j].pc = "fetch"
    /\ End(j)
    /\ UNCHANGED <<disk, engine, fill, faults, disturbed, outlived, lost>>

\* The list of memories, and what the checkpoint of this target has done if it
\* can be read.
Fetch(j) ==
    LET done == IF ckpt # None /\ ckpt.target = job[j].target THEN ckpt.done ELSE {}
        Begin(d) == job' = [job EXCEPT ![j].pc = IF Known(vault) \ d = {} THEN "decide" ELSE "embed",
                                       ![j].texts = vault, ![j].done = d,
                                       ![j].left = Known(vault) \ d]
    IN /\ job[j].pc = "fetch"
       /\ \/ Succeeds /\ Begin(done)
          \/ Fails /\ Begin({})
       /\ UNCHANGED <<disk, engine, outbox, slot, fill, disturbed, outlived, lost>>

\* One memory, with the text that was read at the beginning.  A batch ends
\* after some memories, at the latest after the last one.
Embed(j, b, ok) ==
    /\ job[j].pc = "embed"
    /\ b \in job[j].left
    /\ staging' = IF ok THEN [staging EXCEPT ![b] = <<job[j].target, job[j].texts[b]>>] ELSE staging
    /\ \E pc \in {"embed", "save"} :
         /\ job[j].left = {b} => pc = "save"
         /\ job' = [job EXCEPT ![j].pc = pc, ![j].left = @ \ {b},
                               ![j].done = IF ok THEN @ \cup {b} ELSE @,
                               ![j].failed = @ \/ ~ok]
    /\ UNCHANGED <<vault, live, ckpt, box, config, engine, outbox, slot, fill, faults, disturbed, outlived, lost>>

\* The checkpoint after a batch replaces the one that was there: one of another
\* target whose removal failed counts no more.
Save(j) ==
    /\ job[j].pc = "save"
    /\ \/ /\ Succeeds
          /\ ckpt' = [target |-> job[j].target, done |-> job[j].done]
          /\ outlived' = (outlived /\ ckpt.target = job[j].target)
       \/ Fails /\ UNCHANGED <<ckpt, outlived>>
    /\ job' = [job EXCEPT ![j].pc = IF job[j].left = {} THEN "decide" ELSE "embed"]
    /\ UNCHANGED <<vault, live, staging, box, config, engine, outbox, slot, fill, disturbed, lost>>

\* Some memory failed, or the files cannot be exchanged: checkpoint and
\* staging database remain for the next migration.
Abandon(j) ==
    /\ job[j].pc = "decide"
    /\ End(j)
    /\ IF job[j].failed THEN Succeeds ELSE Fails
    /\ UNCHANGED <<disk, engine, fill, disturbed, outlived, lost>>

\* (Mutant) Failed memories do not stop the exchange.
SwapAnyway(j) ==
    /\ job[j].pc = "decide"
    /\ live' = staging
    /\ staging' = None
    /\ job' = [job EXCEPT ![j].pc = "swapped", ![j].texts = IdleJob.texts, ![j].done = {}]
    /\ UNCHANGED <<vault, ckpt, box, config, engine, outbox, slot, fill, faults, disturbed, outlived, lost>>

\* os.replace(staging, live); the lists of the task are not used any more.
Swap(j) ==
    /\ job[j].pc = "decide"
    /\ ~job[j].failed
    /\ live' = staging
    /\ staging' = None
    /\ job' = [job EXCEPT ![j].pc = "swapped", ![j].texts = IdleJob.texts, ![j].done = {}]
    /\ UNCHANGED <<vault, ckpt, box, config, engine, outbox, slot, fill, faults, disturbed, outlived, lost>>

\* The checkpoint has served; an error is ignored.
DropCheckpoint(j) ==
    /\ job[j].pc = "swapped"
    /\ \/ Succeeds /\ ckpt' = None /\ outlived' = FALSE
       \/ Fails /\ UNCHANGED ckpt /\ outlived' = (ckpt # None)
    /\ job' = [job EXCEPT ![j].pc = "publish"]
    /\ UNCHANGED <<vault, live, staging, box, config, engine, outbox, slot, fill, disturbed, lost>>

\* on_complete(True): the engine is exchanged, then config.yaml is written.
Publish(j) ==
    /\ job[j].pc = "publish"
    /\ engine' = job[j].target
    /\ \/ Succeeds /\ config' = job[j].target
       \/ Fails /\ UNCHANGED config
    /\ End(j)
    /\ UNCHANGED <<vault, live, staging, ckpt, box, fill, disturbed, outlived, lost>>

JobStep(j) ==
    \/ ProbeFails(j) \/ StopOutbox(j) \/ GiveUp(j) \/ Fetch(j) \/ Save(j)
    \/ Abandon(j) \/ Swap(j) \/ DropCheckpoint(j) \/ Publish(j)
    \/ \E b \in Bucket, ok \in BOOLEAN : Embed(j, b, ok)

-----------------------------------------------------------------------------
(* The others *)

\* What a reconciliation finds missing is put into the outbox, except what it
\* passes over: a memory that cannot be read again, or all of them when it
\* cannot list the vault or the index.
Requeue ==
    \E missed \in SUBSET Stale :
        /\ IF missed = {} THEN Succeeds ELSE Fails
        /\ box' = box \cup (Stale \ missed)
        /\ lost' = missed \ box

\* The reconciliation with which the outbox starts: the worker starts after it
\* whether it has failed or not.
Reconcile ==
    /\ outbox = "starting"
    /\ outbox' = "running"
    /\ Requeue
    /\ UNCHANGED <<vault, live, staging, ckpt, config, engine, slot, job, fill, disturbed, outlived>>

\* The worker deals with one memory of the outbox.
Process(b) ==
    /\ outbox = "running"
    /\ b \in box
    /\ box' = box \ {b}
    /\ live' = [live EXCEPT ![b] = IF vault[b] = Gone THEN None ELSE <<engine, vault[b]>>]
    /\ UNCHANGED <<vault, staging, ckpt, config, engine, outbox, slot, job, fill, faults, disturbed, outlived, lost>>

\* A memory is created or changed, and then enqueued; a failure of the outbox
\* is logged and survived.
Write(b, x) ==
    /\ vault[b] # x
    /\ vault' = [vault EXCEPT ![b] = x]
    /\ \/ Succeeds /\ box' = box \cup {b} /\ lost' = lost \ {b}
       \/ Fails /\ lost' = lost \cup ({b} \ box) /\ UNCHANGED box
    /\ UNCHANGED <<live, staging, ckpt, config, engine, outbox, slot, job, fill, disturbed, outlived>>

\* Tools of the current API also make sure that the outbox runs, whoever has
\* stopped it.
Ensure ==
    /\ outbox = "off"
    /\ Fails
    /\ outbox' = "starting"
    /\ disturbed' = TRUE
    /\ UNCHANGED <<disk, engine, slot, job, fill, outlived, lost>>

\* A memory is deleted: its entry and its row go in the same request.
Delete(b) ==
    /\ "delete" \in Ops
    /\ vault[b] # Gone
    /\ vault' = [vault EXCEPT ![b] = Gone]
    /\ box' = box \ {b}
    /\ live' = [live EXCEPT ![b] = None]
    /\ lost' = lost \ {b}
    /\ UNCHANGED <<staging, ckpt, config, engine, outbox, slot, job, fill, faults, disturbed, outlived>>

\* The backfill route refuses while a migration holds the slot; the task
\* takes the engine and lists the memories.
BackfillStart ==
    /\ "backfill" \in Ops
    /\ fill.pc = "idle"
    /\ slot = Nobody
    /\ Fails
    /\ fill' = [pc |-> "clean", model |-> engine, texts |-> vault]
    /\ UNCHANGED <<disk, engine, outbox, slot, job, disturbed, outlived, lost>>

\* Rows of memories that are still unknown are deleted.
BackfillClean ==
    /\ fill.pc = "clean"
    /\ live' = [b \in Bucket |-> IF fill.texts[b] = Gone /\ vault[b] = Gone THEN None ELSE live[b]]
    /\ fill' = [fill EXCEPT !.pc = "fill"]
    /\ UNCHANGED <<vault, staging, ckpt, box, config, engine, outbox, slot, job, faults, disturbed, outlived, lost>>

\* A running outbox is given the missing memories ...
BackfillQueue ==
    /\ fill.pc = "fill"
    /\ outbox # "off"
    /\ Requeue
    /\ fill' = IdleFill
    /\ UNCHANGED <<vault, live, staging, ckpt, config, engine, outbox, slot, job, disturbed, outlived>>

\* ... otherwise the task embeds them itself, one after the other and with the
\* texts that it has read, whoever writes vectors by then.
BackfillDirect ==
    /\ fill.pc = "fill"
    /\ outbox = "off"
    /\ fill' = [fill EXCEPT !.pc = "direct",
                           !.texts = [b \in Bucket |-> IF ModelOf(live[b]) = fill.model THEN Gone ELSE @[b]]]
    /\ UNCHANGED <<disk, engine, outbox, slot, job, faults, disturbed, outlived, lost>>

BackfillEmbed(b) ==
    /\ fill.pc = "direct"
    /\ b \in Known(fill.texts)
    /\ live' = [live EXCEPT ![b] = <<fill.model, fill.texts[b]>>]
    /\ fill' = [fill EXCEPT !.texts[b] = Gone]
    /\ UNCHANGED <<vault, staging, ckpt, box, config, engine, outbox, slot, job, faults, disturbed, outlived, lost>>

BackfillEnd ==
    /\ fill.pc \in {"fill", "direct"}
    /\ fill' = IdleFill
    /\ UNCHANGED <<disk, engine, outbox, slot, job, faults, disturbed, outlived, lost>>

\* The server dies and is started again: the engine is the configured one, the
\* outbox starts with a reconciliation.
Crash ==
    /\ Fails
    /\ engine' = config
    /\ outbox' = "starting"
    /\ slot' = Nobody
    /\ job' = [j \in Job |-> IdleJob]
    /\ fill' = IdleFill
    /\ disturbed' = FALSE
    /\ outlived' = (outlived \/ (ckpt # None /\ \E j \in Job : job[j].pc = "swapped"))
    /\ UNCHANGED <<disk, lost>>

Next ==
    \/ \E j \in Job : JobStep(j) \/ \E t \in Model : Reserve(j, t)
    \/ Reconcile
    \/ \E b \in Bucket :
         \/ Process(b) \/ BackfillEmbed(b)
         \/ b \in Changing /\ Delete(b)
         \/ b \in Changing /\ \E x \in Text : Write(b, x)
    \/ BackfillStart \/ BackfillClean \/ BackfillQueue
    \/ BackfillDirect \/ BackfillEnd
    \/ Ensure \/ Crash

Spec == Init /\ [][Next]_vars

-----------------------------------------------------------------------------
(* Properties *)

Phase == {"idle", "probe", "fetch", "embed", "save", "decide", "swapped", "publish"}

\* The types of all variables, and: a job at work holds the slot.
TypeOK ==
    /\ vault \in [Bucket -> Text \cup {Gone}]
    /\ live \in Index
    /\ staging \in Index \cup {None}
    /\ ckpt \in Checkpoint \cup {None}
    /\ box \subseteq Bucket
    /\ {config, engine} \subseteq Model
    /\ outbox \in {"off", "starting", "running"}
    /\ slot \in Job \cup {Nobody}
    /\ job \in [Job -> [pc : Phase, target : Model \cup {None},
                        texts : [Bucket -> Text \cup {Gone}], left : SUBSET Bucket,
                        done : SUBSET Bucket, failed : BOOLEAN, wasRunning : BOOLEAN]]
    /\ fill \in [pc : {"idle", "clean", "fill", "direct"}, model : Model \cup {None},
                 texts : [Bucket -> Text \cup {Gone}]]
    /\ faults \in 0..MaxFaults
    /\ {disturbed, outlived} \subseteq BOOLEAN
    /\ outlived => ckpt # None
    /\ lost \subseteq Bucket
    /\ \A j \in Job : job[j].pc # "idle" <=> slot = j

\* The checkpoint counts rows of target t that have moved away: its removal
\* failed or did not happen, after the exchange or before another migration.
Relic(t) == outlived /\ ckpt.target = t

\* What counts as done is there: a migration that is about to exchange the
\* databases, or will be after a crash, has a row of its own target for every
\* memory it counts, however many requests and migrations came before.  (But
\* a checkpoint that has outlived its rows lists what is not there, and a
\* migration to its target believes it.)
DoneIsStaged ==
    /\ \A j \in Job : job[j].pc \in {"embed", "save", "decide"} /\ ~Relic(job[j].target) =>
         \A b \in job[j].done : ModelOf(staging[b]) = job[j].target
    /\ ~outlived /\ ckpt # None /\ (\A j \in Job : job[j].pc # "swapped") =>
         staging # None /\ \A b \in ckpt.done : ModelOf(staging[b]) = ckpt.target

\* The live index changes row by row or is exchanged for one that has a row of
\* one model for every memory of the vault that existed when the migration
\* began: it is never the half of a migration.  (Except by a migration that
\* believes a checkpoint which has outlived its rows: the server died or the
\* removal failed after the exchange, or the removal failed before a migration
\* to another target.)
SwapIsWhole ==
    [][ \A j \in Job :
          ~Relic(job[j].target) /\ job[j].pc = "decide" /\ job'[j].pc = "swapped" =>
            \A b \in Known(job[j].texts) : ModelOf(live'[b]) = job[j].target ]_vars

\* A row that does not represent its memory is owed by somebody: it is in the
\* outbox, or a reconciliation is under way or will follow the migration.
\* (Except what the outbox has failed to register, or its last reconciliation
\* has passed over: these wait for the next one.)
RowsAreOwed ==
    ~disturbed => \A b \in Stale :
        \/ b \in box \cup lost
        \/ outbox = "starting"
        \/ \E j \in Job : Migrating(j) /\ job[j].wasRunning
=============================================================================

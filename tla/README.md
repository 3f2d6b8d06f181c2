# Ombre Brain: a TLA+ verification project

Ombre Brain is a long-term memory for language-model clients. A memory ("bucket") is one Markdown
file; everything else that speeds up or enriches recall (vectors, caches, BM25, ledgers, relations)
is derived from the files. The server is Python: MCP tools and a web API call a bucket store, and
background tasks (outbox worker, decay loop, schedulers) work on the same files. This directory
holds TLA+ models of the parts where order, concurrency and failure decide whether a memory, or
the data derived from it, is lost; the TLC runs that check them; and proofs checked by TLAPS.

All source paths below are relative to the repository, whose Python code is under `src/`.

## 1. Inventory

| Component | Source | State | Operations | Talks to |
|---|---|---|---|---|
| Bucket store | `src/bucket_manager.py` | Markdown tree (active directories and archive), active cache with its file fingerprints, BM25 index and dirty flag, path index | create, update, archive, activate, restore, delete, touch, list, search, anchor | outbox, vector index, ledger; callers are tools, web, engines |
| Embedding outbox | `src/ombrebrain/storage/embedding_outbox.py` | JSON sidecar: per bucket and component the wanted digest, attempts, next attempt time; circuit breaker in memory | enqueue, ensure_pending, discard, worker cycle, reconcile, retry_now, start, stop | vault (re-reads), vector index, provider |
| Vector index | `src/embedding_engine.py` | SQLite table of vectors with the digest of their text | store content or meaning vector, clear, delete, search | provider |
| Scarcity quotas | `src/bucket_manager.py`, `src/tools/_common.py`, `src/tools/hold`, `src/tools/trace`, `src/tools/anchor` | flags `pinned`, `protected`, `anchor` in front matter; file leases `quota-*` | pin, protect, anchor, release, restore, activate | bucket store |
| Human deletion requests | `src/deletion_requests.py` | one JSON file of requests | submit, batch, withdraw, decide, reconcile | bucket store |
| Grow retry guard | `src/tools/grow/retry_guard.py` | in-flight set and completed results by fingerprint | run_once | grow tool |
| Reminders | `src/reminder_store.py` | SQLite rows, shared by the gateway's and the server's process | create, update, due list, mark_reminded, archive_expired | gateway, tools, web page |
| OAuth grants | `src/web/oauth.py`, `src/web/auth.py`, `src/web/_shared.py` | codes, access and refresh tokens, credential generation, token file | authorize, exchange, rotate, revoke all, change password | web server |
| Migration of the vector index | `src/migration_engine.py`, `src/web/embedding.py` | live and staging database, checkpoint, migration slot, configured model | migrate, resume, exchange, backfill | outbox, vector index, provider |
| Import jobs, vault import | `src/import_memory.py`, `src/web/import_api.py`, `src/migrate_engine.py` | progress file, job record | start, pause, resume, apply | bucket store, provider |
| Raw events, gateway state | `src/raw_events.py`, `src/gateway_state.py` | append-only SQLite log; session rounds and cooldowns | append with dedup, mark, prune | gateway |
| Decay engine, schedulers | `src/decay_engine.py`, `src/current_schedulers.py` | last-run marks | periodic cycle, run-once-a-day | bucket store, outbox |
| Raft core and fabric log | `src/ombrebrain/cluster`, `src/ombrebrain/fabric` | term, leader, logs, WAL file | elect, commit, append, replay | event kernel |
| Event ledger, projections | `src/ombrebrain/eventsourcing`, `src/ombrebrain/projection` | append-only mirror of commits | record, replay, audit | written by the bucket store |
| Relation, source, quote, media stores | `src/ombrebrain/storage` | front matter links, media files | link, unlink, bind, persist | bucket store |
| Engines: reflection, portrait, persona, dream, dehydrator | `src/*_engine.py` | result files | prompt a model, write memories | bucket store |
| Them, You | `src/ombrebrain/them`, `src/ombrebrain/you` | derived profiles | observe, correct, forget | bucket store |
| Recall and ranking | `src/recall_policy.py`, `src/memory_relevance.py`, `src/recall_pipeline.py` | none | scoring | reads the bucket store |
| Gateway | `src/gateway.py` | requests in flight | answer a turn: inject memories and reminders, ask the model, record the round | recall, gateway state, reminders |
| Backup, GitHub sync | `src/backup_manager.py`, `src/ombrebrain/storage/backup_archive.py`, `src/github_sync.py` | archives, remote tree | snapshot, restore, push | whole vault |
| Server, web API, tools, frontend | `src/server.py`, `src/web`, `src/tools`, `frontend` | configuration | routing | everything |

How the parts interact. A managed write takes the file lease of its bucket
(`_filesystem_turn`, an OS lock because requests may run on different loops, threads or processes),
commits one Markdown file atomically, and releases the lease; what the commit captured is then
registered with the outbox, still in the same handler. The worker of the outbox takes the
*derived-index* lease of the bucket, never the bucket lease, so a slow provider does not block writes.
Reconcile compares the vault with the index at start-up and from the decay loop. Reads go through an
active cache that is validated by file fingerprints and by a generation counter. Quota checks count
first and write afterwards, under a lease named after the quota.

What makes it hard: writes and derived work are decoupled by awaits and leases; external editors
change the files at any time; a crash may separate any two steps; failures of the outbox file,
the index and the provider are logged and survived; several loops or processes may share one vault.

## 2. What must be true, per component

- Outbox: no stale vector without somebody who will repair it; no vector of a deleted bucket without
  somebody who will remove it; convergence of bodies, also after crashes.
- Bucket store, cache: what the cache shows is the file, or the next poll can notice the difference;
  readers converge to the vault; BM25 is not silently old.
- Quotas: the limits on pinned, protected and anchored memories hold for the *active* set under every
  order of calls; pinned and anchor exclude each other.
- Deletion requests: one pending request per bucket, limits per day and per life, an approval and its
  deletion belong together, a decision never changes; the whole is a ledger that changes by whole operations.
- Reminders and gateway turns: a stamp of a turn belongs to a round that took place; limits are overrun by
  overlapping requests at most, as long as nobody lowers them or marks by hand; what was to appear once is not reopened by an answer.
- OAuth grants: nothing granted under an old password survives its change through the dashboard, a code or refresh token is good
  for one grant, also across failed saves and restarts.
- Migration of the vector index: the exchange is whole, a row that does not represent its memory is owed.
- Not modelled yet: retry guard (one execution at a time), Raft core (logs agree up to the committed index).

## 3. Plan

Modules in order of importance. Each is described in section 4.

1. `EmbeddingOutbox` with `EmbeddingOutboxProofs` (one event loop) and `OutboxWorkersProofs` (workers of several processes): the core.
2. `AtomicMarks`, an atomic test and write, and `ScarcityQuotas`, which implements it, with its proofs: pinned, protected and anchor limits under concurrent tools.
3. `VaultCache` with its proofs: active cache, external editors and BM25.
4. `DeletionLedger`, the abstract ledger, and `DeletionRequests`, which implements it; proofs in
   `DeletionRequestsProofs`.
5. `ReminderStore`, and `GatewayTurns`, which composes it with the requests of the gateway; proofs in
   `GatewayTurnsProofs`.
6. `OAuthGrants` with its proofs: what is granted under a password, over four files, failures and restarts.
7. `EmbeddingMigration` with its proofs: the exchange of the vector index, composed with an outbox reduced to its
   interface (start, stop, reconcile, queue).

Next candidates: `GrowRetryGuard`; backoff and circuit breaker of the outbox as numbers; import jobs; relation edits
with two bucket leases; the quotas composed with the cache that counts read.

## 4. Modules, runs and proofs

### EmbeddingOutbox

The write-behind path from Markdown to vectors, and the core of the project.

| Model | Code |
|---|---|
| `vault[b]`: status, body, latest meaning | the bucket's Markdown file; `deleted` stands for `deleted_at`, which makes `get()` return None |
| `box[b][k]`: wanted digest per component | `content_hash` and `meaning_hash` of an outbox item |
| `late` | components whose `next_attempt_at` is in the future |
| `index[b][k]` | `content_hash` column, and the text of the meaning vector |
| `lease[b]` | the file lease of `_derived_index_turn` |
| `wk`, `cl`, `rec` | the worker's, a request handler's and reconcile's position in their coroutine, with the values they hold across awaits |
| `service` | process down, starting (start-up reconcile) or running |
| `faults`, `missed` | bound and history variable: which buckets had a failed or interrupted registration or removal |

A digest is the pair of a format and a text: `body` (the canonical content hash), `hist` (the historical
"Title + Content" rendering that `ensure_embedding_index` asks for) and `meaning`. Each action touches one
shared store once. With `SingleLoop = TRUE` another actor runs only while everybody else is suspended at a real await
(waiting for a turn, for the provider, between items); with FALSE every interleaving is possible, which
is the situation that the docstring of `_filesystem_turn` describes (several loops, threads or processes).

Not in the model: the circuit breaker and the numeric backoff (a due time is simply in the future or not),
the graceful stop of the worker alone during an embedding migration, the inline indexing of a store without
an outbox, legacy items with an empty hash, an exception while a meaning vector is cleared
(`embedding_outbox.py:1068-1070`; the item stays, as after a failed provider call), and a change of the embedding model.

Properties. `NoLostWork`: a vector of a live or archived bucket that does not represent its text has a
pending digest, a handler that is about to register one, or a worker that will notice at its second read; the
only exceptions are the buckets in `missed`. `NoOrphanVector`: the same for vectors of deleted buckets.
`BodyConverges` and `DeletionConverges` are the liveness halves.

| Run | Instance | Shows |
|---|---|---|
| `one_loop` | 1 bucket, a body that may be blank, a meaning that is set and cleared, 2 handlers, 1 worker, 1 fault | types, `NoLostWork` and `NoOrphanVector` with all operations on one loop |
| `two_workers` | 2 bodies, 2 workers and 1 handler that do not share a loop | the lease and the digest comparison suffice between processes |
| `converge` | 2 bodies, 1 handler, 1 worker, 1 fault, fair | convergence, also after a crash |

What does not hold, with the constants that let TLC find it:

- Two handlers on different loops, `restore` and `delete`: the sweep of a delete erases the registration of a restore that
  committed in between (`src/bucket_manager.py:803`), against `NoLostWork`.
- One handler and a worker on different loops, `restore`: the worker has read the tombstone (reconcile had queued the bucket
  from a list older than the delete), the restore commits and registers, and the worker drops the item
  (`src/ombrebrain/storage/embedding_outbox.py:1031`), against `NoLostWork`.
- Two handlers on different loops, create and update: `enqueue` replaces the pending digest whatever it is, so the
  registration of an older commit can arrive after that of a newer one and after the worker's second read, and the
  worker then acknowledges it. The docstring of `ensure_pending` calls a stale hash harmless
  (`embedding_outbox.py:502`).
- A body that becomes blank and returns to its old text between the worker's two reads, without a common loop, loses the
  clearing of its vector; `ensure` with a text read earlier does the same to a newer registration. This is why
  `two_workers` has no blank body, no "ensure" and no "restore".
- With "ensure" called again and again, `BodyConverges` fails: `ensure_embedding_index` wants the historical rendering and
  reconcile the plain body, and each regards the other's vector as stale (`src/bucket_manager.py:1155`).

Bounds. All state is per bucket (leases, items, rows), so one bucket shows every interference; a second body, or a
blank one, distinguishes old from new; two handlers give every race of two commits; `MaxFaults = 1` lets one crash,
failed write, failed removal or lease timeout happen anywhere. The proofs need none of these bounds.

Fairness. The event loop resumes ready coroutines in order (strong fairness of each actor's steps); the
lease is polled until it is free, so a handler or worker for which it is free again and again gets it;
`_next_due` serves the oldest due time first (strong fairness of picking each component); the decay loop
calls reconcile again and again; and the provider does not fail for ever (strong fairness of `Store`).

Proofs (`EmbeddingOutboxProofs`). `TypeCorrect` proves `TypeOK` for all constants. `OneLoopLosesNoWork` proves
`NoLostWork` for one loop and any number of buckets, texts, handlers, workers and faults. `NoLostWork` alone
is not inductive: that a worker's acknowledgement is harmless needs to know that, past its second read, the
text has not changed. The invariant `IInv` adds: at most one actor is between two awaits (`OneRuns`); what a
worker past a read knows of the vault is still true (`WorkerKnows`); the same for a handler (`ClientKnows`); an
absent bucket has blank data (`AbsentBlank`); and `WorkKept`, the strengthened form of the property. The proof has
one lemma per group of actions, and frame lemmas (`WorkerFrame`, `ClientFrame`, `Untouched`) for the
conjuncts a step does not touch. It rests on the named assumptions of the module only. `OneLoopLeavesNoOrphan`
proves `NoOrphanVector` on top of the same invariant: a worker that clears, requeues or acknowledges, and a handler that
registers, does so for a bucket that is there (`Settles`, `Serves`).

Proofs without a common loop (`OutboxWorkersProofs`). `SharedLosesNoWork` and `SharedLeavesNoOrphan` prove the two
properties for any number of workers that share nothing but the files; `OneHandlerManyWorkers` is the setting of
`two_workers` for all its sizes. Two hypotheses. `SharedOps` leaves out "restore", "ensure" and blank bodies, and
`[]HandlersApart` asks that two handlers are not at work on the same memory: each of these is needed, as the list of
what does not hold says. Nothing is asked of the workers, of the reconciler, of crashes, or of handlers on different
memories, and meanings may come and go. The invariant `SInv` differs from `IInv` in kind, since no actor knows what
the vault holds now. It says what a lease is worth: a worker that holds it has its component pending until it lets go,
whatever is committed meanwhile (`WorkerHas`), because registrations only replace a digest and a sweep waits for the
lease. So one step alone can lose work, the acknowledgement, and `AckSafe` says why it does not: if the text has
changed since the second read, its digest is either in the place of the acknowledged one already, so that the
comparison fails, or still owed by its handler; if the bucket has been deleted since, the sweep waits for this very
worker. `ClientHas` keeps the digests of a handler current until they are registered, `Kept` and `Noticed` are the
properties, bucket by bucket, without the worker's part (`InHand` is not needed any more), and `Traceless` and
`SeenIsThere` keep the reconciler away from buckets that were never created.

### DeletionRequests and DeletionLedger

Humans ask that a memory be deleted or archived, and the AI approves or rejects: `src/deletion_requests.py`.

| Model | Code |
|---|---|
| `records` | the list `requests` of `.human_deletion_requests.json`; the position stands for the id |
| `holder` | the file lease `human-deletion-requests`, under which all five operations load, work and save |
| `cl[c]` | a handler: its call, its place in the method, its copy `draft` of the ledger, the memories or requests still to visit |
| `vault[b]` | what `get` and `_is_active_target` see: active, archived or tombstoned |
| `Letter`, `Test` | letters (whose deletion succeeds when already gone) and erasable test memories (exempt from approval) |
| `executed` | history only: requests whose approval has removed the memory |

`Take` is the lease and `_load`; `Submit`, `BatchItem`, `BatchDone`, `Withdraw`, `ReconcileItem`, `ReconcileDone`,
`Judge`, `Execute` and `SaveApproval` are the bodies of the methods, cut where they await the vault, as
`Archive`, `Delete` and `Restore` need only the lease of the bucket. `Midnight` changes the local date,
`Crash` ends a handler and frees its lease, `TurnTimeout` ends one that waited too long, and with `"unreadable"`
a load may find a file it cannot read.

The abstract specification. `DeletionLedger` has no leases, copies or handlers: requests are added within the limits
(`File`), pending requests end (`End`; as rejected only while the memory is there), a memory is removed and its approval recorded (`Remove`, `Approve`) with nothing
written in between, and a crash forgets a removal that was not recorded (`Forget`). `LedgerKept` says that `DeletionRequests`
implements it; the refinement mapping takes `vault`, `records` and `today` as they are, and `removed` from the handler
that stands between removal and record (`Removing`).

Properties. `WithinLimits`: the rules of ADR-0003, at most one pending request per memory (`OnePending`), a limit per life
(`LifetimeCap`) and per day (`DailyCap`). `LedgerKept`: the operations appear to happen one at a time. `ExecutedIsApproved`:
without crashes, what removed a memory is recorded as approved. `RejectedWasSpared`: with crashes, a request that has
removed its memory is never recorded as rejected. `PendingEnds`: requests for memories that are gone end.

| Run | Instance | Shows |
|---|---|---|
| `deletion_limits` | 2 memories, 2 handlers, limits of 2, 2 days, batches, deletions, crashes, lease timeouts | `WithinLimits`, `RejectedWasSpared` and the refinement |
| `deletion_decide` | a letter and a test memory, 2 handlers, delete and archive, restores, fair | `TypeOK`, `ExecutedIsApproved` and `PendingEnds` |

Two promises of ADR-0003 (lines 64 and 65: requests and decisions persist) do not survive failures. With "unreadable" in
`Ops`, `DecidedForGood` and the refinement fail: `_load` counts a file it cannot read as empty, and the next save replaces
the whole ledger (`src/deletion_requests.py:87`). With "crash", `NoOtherEnding` fails: after a crash between the removal and its
record the request ends as withdrawn or superseded, and the approval and its reason are lost (line 343).

Bounds. Limits of two let the second request be the last; two memories and one batch reach the daily limit before the
lifetime limit; two days let a batch file its requests under a day that has passed. The limits also end the runs. The
proofs need none of these bounds.

Fairness (`LiveSpec`). A handler that waits for the lease polls it every 10 ms and gets it if it is free again and
again; strong fairness of `Steps(c)` says so. Every `breath` reconciles, and clients breathe again and again: strong
fairness of `CallReconcile(c)`. `deletion_decide` has no crashes and no lease timeouts: a client that
always times out would never reconcile.

Not in the model: another deletion between the read and the removal of a letter (`Execute` is one step), the wording of
reasons and errors.

`RejectedWasSpared` is checked without `restore`: a memory restored after a crash may rightly be spared by a later
decision on the same, still pending request.

Proofs (`DeletionRequestsProofs`), for any number of memories, letters, test memories and handlers and any limits, with
crashes, timeouts and midnight, as long as the ledger can be read. The limits are not inductive: a save writes a copy, and
the invariant must say what every copy is worth. `IInv` says that of each handler (`CopyOK`): a handler that submits,
withdraws or decides has the file itself; the copy of a batch is the file with lawful additions of its day (`Added`); the
copy of a reconciliation is the file with pending requests ended (`Ended`). As only the holder of the lease has a copy,
everybody else's knowledge survives a save (`HandlerStep`). On the data side, `FilingKeepsLaw` and `EndingsKeepLaw` count
what an addition or an ending does to the limits. `DeletionTypeCorrect`, `LimitsHold` follow. For the refinement, one lemma per
action maps it to a step of the ledger or a stutter (`SubmitLedger` to `NextLedger`), which gives `LedgerImplemented`.
`DecisionsStand` and `RemovalsRecorded` are then consequences of the abstract ledger (`DecisionsKept`): a decision never changes,
and without crashes every removal is recorded as approved. `RejectedAreSpared` takes from the abstract ledger that only a
memory that is still there can be spared (`Reject`, `NewlyRejected`), and from the code that without `restore` what is
removed stays away (`GoneStays`); its invariant `Spared` says both of every removal carried out.

### ReminderStore and GatewayTurns

Reminders ("care memos") are rows of one SQLite table, used by two processes: the gateway, which picks what is due for a
turn and marks it when the turn has succeeded, and the server, whose tools and web page create, change, finish, snooze,
limit and mark them.

| Model | Code |
|---|---|
| `row[r]` | a row of the table `reminders`: status, rule, session, limits, due time, counts, the last round |
| `now` | half days, the two slots of the rule "morning_evening"; `Day` is the key of the daily count |
| `hand` | the `mark_reminded` of the server between its read and its UPDATE, two transactions (`src/reminder_store.py:339-387`) |
| `rounds[s]` | the last `round_id` of the session in `request_rounds` |
| `turn[t]` | a request in `handle_chat`: what it was told to inject, the round it became, the row it has read |
| `loop` | the turn that records: `_record_successful_round` has no await, so other turns of the gateway wait, and the server does not |
| `marks`, `shown` | history: how often the gateway has marked a reminder, in all and today since its daily limit was set |
| `had` | history: `marks` when the limit on all appearances was changed last |
| `seen`, `lost` | history: `shown` when `hand` read the row, and the marks of today that marks of the server have overwritten |
| `foreign` | history: reminders whose stamp the server wrote, or was written for a session the reminder no longer belongs to |

`RowIsDue` is the whole condition of `_row_is_due`, `NextDue` and `ArchivedAfter` the rules of what follows, and
`Marked` the UPDATE of `mark_reminded`: the count is raised in the database, and everything else comes from the row
that was read before, by the gateway and the server alike. `Update` sets any one of the fields rule, session, end, due
time, interval and limit on appearances; `SetStatus` and `SetDailyLimit` are the two fields with effects of their own.
The server's handlers have no await between read and write, so it does one call at a time (`Call`), but the gateway is
another process and goes on between `HandRead` and `HandWrite`. `Swept` is `archive_expired`, which `list` and `due`
run first. In `GatewayTurns`, `BuildActiveReminders` looks up what is due in the round that the turn hopes to be;
`NoAnswer` and `SkipRound` end a turn without a trace; `RecordSuccess`, `MarkRead`, `MarkWrite`, `MarkFails` and
`Finish` are the bookkeeping of a turn that was answered, one database transaction each; `Restart` loses all turns;
`Serve`, `Change`, `Relimit` and the three `MarkByHand...` are the server.

Properties. `StampedWhenShown`: a stamp names a round of a session that may see the reminder, and a failed turn leaves none;
stamps in `foreign` are left out. `TotalLimitKept`: a limit is overrun only by turns that were under way together, at most by
the others; if it was set lower afterwards, only turns under way then still mark the reminder. `DailyLimitKept`: the same of
a day, also over midnight and when the server changes the row between the lookup and the mark, with the marks in `lost`
on top. `OnceIsOnce`: no answer and no mark of the server reopens a reminder that was to appear once, unless it read
the row while the rule was another. Without any one of these exemptions TLC finds a counterexample.

| Run | Instance | Shows |
|---|---|---|
| `gateway` | 1 reminder of 7 kinds, 2 sessions, 2 requests, 3 half days, 2 rounds per session, 2 calls of the server, restarts | all four properties |

What does not hold:

- A stamp need not be of a round that took place: PATCH /api/reminders/{id} passes any `round_id` up to 100000000 to
  `mark_reminded` (`src/web/current_memory.py:954-960`), and with a high one an interval in rounds is never over again.
  Nor need it be of the reminder's session once `session_id` has been changed (`src/reminder_store.py:298`).
- A limit does not bound the marks there were when it was set lower (`src/reminder_store.py:316`), and the turns that
  had picked the reminder under the old one mark it still.
- A mark of the server writes the count of the day from the row it read, over marks the gateway has made since
  (`src/reminder_store.py:346-350`); the reminder may then be shown as often again on that day.
- A turn that read the row before its rule was changed to "once" marks it by the rule it read, and may make it active again.
- `DoneStaysDone`. A reminder that is finished while a turn with it awaits its answer is made active
again by the mark (`src/reminder_store.py:352`), although status="done" is how a reminder is finished (`docs/Tool Guide.md:55`).

Bounds. Reminders do not interact, except in how many fit into one prompt, so one row suffices; two requests give every
overlap, and the excess in the limits is stated for any number; three half days contain one midnight, which may fall
between any two steps; two rounds let an interval be too short, and the round people stamp (`Stamp`) is 3, which no
session reaches; two calls let the server create a reminder and then change, finish or mark it.

Not in the model: channels, start times and cooldowns in minutes, which only make a reminder due less often, with the
updates of them, and edits of title and text. A time given with a change is one of the half days, or none.

Proofs (`GatewayTurnsProofs`). Types and all four properties, for any number of reminders, sessions, requests and
rounds and any limits. The invariant `IInv` counts, for every reminder, the requests that have picked it and not
marked it yet (`Holders`): whoever picks it has seen room under its limits, so the marks made and the holders together
stay below the limit plus the number of requests, or, if the limit has changed since, below the marks there were then
plus that number (`TotalRoom`, `DailyRoom`). The mark of the day needs more, as it is written from a row that was read
before: only one request at a time is at its bookkeeping, so the row was read after every other mark of the gateway,
and if midnight has passed since, the day has no mark yet (`ReadOK`). The server's mark may overwrite marks of the
gateway, but only those made since it read (`HandOK`), which is what `lost` counts. `RequestKeeps`, `RowKeeps` and
`HandKeeps` say once when a request, a reminder or the server's mark keeps its part of `IInv`; `RowFrame` says what
may happen to a reminder between two marks of the gateway, and every action of the server is shown to be such a step
(`OneRow`, `WorldStep`); `RequestStep` covers the requests. The only facts about cardinality are those of
`FiniteSetTheorems` on subsets and on removing an element.

### EmbeddingMigration

Changing the model of the vector index while the memory is in use: `src/migration_engine.py` and the routes in
`src/web/embedding.py`, composed with an outbox reduced to its interface (off, starting with a reconciliation, running;
the set of queued memories), as `EmbeddingOutbox` models the rest.

| Model | Code |
|---|---|
| `live`, `staging` | `embeddings.db` and `embeddings.db.migrating`: the model and text of every row |
| `ckpt` | the checkpoint: target signature and the memories that are done |
| `slot`, `job[j]` | the migration slot; a request and the background task it becomes |
| `engine`, `config` | the model the server uses, and the one `config.yaml` names |
| `outbox`, `box` | the worker, and what the outbox file lists |
| `fill` | the backfill task |
| `faults` | bound on everything that goes through `Fails`: crashes, failed reads, writes and removals, failed registrations and reconciliations, uses of `Ensure`, backfills |
| `disturbed`, `outlived` | history: somebody else wrote the live index during a migration; the checkpoint counts rows that have moved away |
| `lost` | history: memories that a failed registration or the last reconciliation has passed over |

`Reserve` takes the slot and prepares the files before the first await, with `ResetStale`, in which the removal of the
checkpoint, that of the staging file, or both may fail without anybody being told (`src/migration_engine.py:243-252`);
`ProbeFails`, `StopOutbox`, `GiveUp`, `Fetch`, `Embed`, `Save`, `Abandon`, `Swap`, `DropCheckpoint` and `Publish`
follow `_run_migration` and its callback; `End` is common to all endings. `Fetch` may fail to read the checkpoint and
then starts over. `Requeue` is what a reconciliation queues, which may be less than all that is stale
(`src/ombrebrain/storage/embedding_outbox.py:801`, `:821-826`, `:844`), or nothing when it raises and the worker is
started all the same (`:703`); `Write` survives a failed registration (`src/bucket_manager.py:784`). `Ensure` is the
restart of the worker by tools of the current API (`src/current_runtime.py:350`).

Properties. `DoneIsStaged`: what a migration or its checkpoint counts as done has a row of its target in the staging
database. `SwapIsWhole`: an exchange brings in a row of the new model for every memory that existed when the migration
began. Both leave out a migration to the target of a checkpoint that has outlived its rows (`Relic`). `RowsAreOwed`: a row
that does not represent its memory is in the outbox or in `lost`, or a reconciliation is under way or will follow the
migration.

| Run | Instance | Shows |
|---|---|---|
| `migration` | 2 memories that change, 2 texts, 2 models, 2 requests, 1 fault or backfill, deletions | all four properties |

What does not hold:

- The checkpoint is removed after the exchange, and a failure to do so is ignored (`src/migration_engine.py:451`; the
  comment at line 410 says that a crash at any point leaves a live index without a half of a migration). If the server dies
  there, or the removal fails, the next migration to the same target believes that checkpoint, embeds nothing, and
  exchanges the empty staging database for the live index.
- The removal of another target's checkpoint before a migration is ignored as well (`src/migration_engine.py:243-246`),
  while its staging file is deleted: unless a batch of the new migration replaces it, the next migration to its target
  believes it. `outlived` marks both, and `DoneIsStaged` and `SwapIsWhole` are stated of the other migrations; without
  this exemption TLC finds the loss.
- A memory that a reconciliation passes over, or whose registration fails, is owed by nobody until the next
  reconciliation: `lost`. Without it TLC finds `RowsAreOwed` violated.
- A migration that begins during a backfill (a backfill refuses during a migration, `src/web/embedding.py:741`, but not
  the reverse) or a worker restarted in the middle leaves rows that nobody owes: `disturbed`.

Bounds. Two memories let one be done and one fail; two models let a checkpoint be of another target; two requests compete
for the slot, one after the other any number of times. One fault lets one crash, failed file operation, failed registration
or reconciliation, restarted worker or backfill happen anywhere; the proofs cover any number of them.

Not in the model: the status file, the Ollama download, meaning vectors, which are not migrated. Blank memories, which no
engine can embed, make every migration fail. Rows staged for a memory that is deleted meanwhile become rows of
a deleted memory until a manual backfill. The signature of a checkpoint uses the dimension that was configured before
the probe.

Proofs (`EmbeddingMigrationProofs`). All four properties, for any number of memories, texts, models, requests and
faults. The invariant `IInv` adds to them what a task's phase says (`WorkOK`: it has a target and a staging database,
and every memory it has read is done, left or has failed), that a checkpoint which has not outlived its rows is of the
target of whoever works (`SameTarget`, as `Reserve` removes any other or marks it: this is why done memories of one
target are never counted for another), and that a migration has found the outbox running and, if nobody interfered,
has it off in its care (`OutboxOK`, hence `RowsAreOwed` survives every ending). `TaskStep`, `Working` and `Ending` say
once what every step of a task does to the others; the steps of the outbox and the backfill go through `OthersStep`
and `FillStep`. `SwapIsWhole` is the last theorem: the step is `Swap`, nothing is left and nothing has failed, so all
is done and staged. `NoneAssumption` says that `None` is no model, row, database or checkpoint.

### OAuthGrants

The password of the dashboard, and what is granted by it: sessions, authorization codes, access and refresh tokens. Every
registry is in memory and in a file of its own; a change is written to the file first.

| Model | Code |
|---|---|
| `disk` | the files of the password, sessions, tokens and clients |
| `sessions`, `access`, `refresh`, `clients`, `codes` | the registries in memory; codes are nowhere else |
| `generation` | `_credential_generation`, which ends every verification under way when it moves |
| `guard` | `_credential_state_guard`, while a password change holds it over several files |
| `req[h]` | a request between two locks: what it has verified (`CredentialProof`), what it presents |
| `env`, `Password` | `OMBRE_DASHBOARD_PASSWORD` of this process; the password in force, which is that one if there is one |
| `under` | the password under which a code or token was granted; sessions and access tokens are kept as these passwords |
| `under`, `over` of a request | the password and the answer in the file when it began |
| `late`, `used` | history: a verification began before the last revocation; grants made for each code and refresh token |
| `left`, `expired` | history: passwords in force before a restart with another environment, since the last revocation; clients whose year was over |

`Begin` and `Verify` are the two halves of `_verify_..._for_rotation`, outside all locks. `RevokeSessions`,
`RevokeGrants`, `SavePassword` and `NewSession` are `_commit_password_rotation`, one step per file, each of which may
fail, and `Restart` may come between. `StoreCode` and `ActivateClient` are the consent; `Present`, `ExchangeCode` and
`RotateRefresh` the token endpoint, which reads a code or token before it commits; `Register`, `ExpireClient` and
`Evicted` the registry of clients. `Restart` may find another password in the environment, or none (`NewEnvironment`);
while there is one, the password can be neither changed nor recovered, and logins and consents are verified against
it. An expired client is dropped in memory by the next reader and from the file by the next write; the model drops
both at once, since nobody but a start, which drops it too, reads the file.

Properties. `NoGrantOutlivesPassword`: in memory and on disk, only what was granted under the password in force, or
under one that a restart with another environment replaced without a change since. `NoLateCode`: no code from a
verification that began before a revocation, even if the revocation could not be written. `SingleUse`: one grant per
code and refresh token. `GrantedClientKept`: whoever holds a refresh token is registered, until the year since its
consent is over. `NoLostChange`: whoever replaces the password or the answer began under both that are in the file, so
of two overlapping changes the second does not undo the first.

Two of these say less than one might wish, because the code does. A new `OMBRE_DASHBOARD_PASSWORD` takes effect at a
restart (`_shared.py:1084-1088`, `1117-1122`), which loads every session and token as it was: what was granted under
the earlier password stays good until it expires or the password in the file is changed. And the year of an activated
client runs from the last consent (`oauth.py:451`); a refresh rotation (`:827-867`) renews the token and not the
client, which is dropped when the year is over (`:404-408`, `:591`, `:645`) while its refresh token is still good.

| Run | Instance | Shows |
|---|---|---|
| `oauth` | 2 requests, limits of 2 clients and 1 code, 1 revocation per process life, 4 new passwords, answers, clients, codes and refresh tokens in any mix, restarts | all six properties |

Bounds. Two requests give every race of two changes, two exchanges, or a consent and a revocation; two clients fill
the registry; `MaxGeneration` and `MaxIds` bound what only grows (a restart resets the generation, so the password can
be changed again); four new values, of which the last is no password, answer or code (`Room`), are a code, its refresh
token and two rotations, or two changes of the password or the answer, an environment among them, with a code and its
token. Failures need no bound, as they change nothing.

Not in the model: the first-run set-up, rate limits, the fixed client and static token, and expiry of access and refresh
tokens (`Logout`, `ExpireCode` and `ExpireClient` are the expiries that are).

Proofs (`OAuthGrantsProofs`). All six properties, for any number of requests, limits and ids. The invariant `IInv`
says that memory and files agree between steps (`Mirrored`, hence a restart loses only codes and requests); that ids
are given out once and a code or token that is still there has not been used (`Fresh`); that what was granted is of a
password of `Good`, the one in force and those of `left`; that codes handed out and refresh tokens belong to active
clients or to ones whose time is over, which never come back (`Consented`, `Departed`, which is why eviction cannot
hit them and why the restart's repair of clients changes nothing); that what a request has verified is true if its
generation is the current one (`Knows`); and that the holder of the guard has emptied what it has passed, with every
other verification behind it (`Cleared`). The last is what makes `SavePassword` safe, the one step that changes the
password: nothing is granted under the old one any more, and nobody can still grant. `RequestStep`, `EndStep` and
`WorldStep` say once which steps leave the requests' part of `IInv` alone; each action then has a lemma. `Replaced` is
`NoLostChange` as a step formula.

### ScarcityQuotas

Pinned, protected and anchor marks: a limit on each, pairs of marks that exclude one another, and tools that
count first and write later.

| Model | Code |
|---|---|
| `mem[b]`: status and marks | the front matter of a bucket; `archived` and `deleted` are terminal, where no limit counts the marks |
| `quota[f]` | the file lease `quota-<mark>` of `_quota_turn` and `set_anchor` |
| `turn[b]` | the file lease of `_bucket_turn`, recorded only where an await lies between taking it and the write |
| `cl[c]` | a handler between two awaits: what it saw first (`seen`), the marks it sets and clears, those it must find room for (`gain`), the leases it has still to take (`need`) |
| `Ops` | which operations a run offers |

A request goes `turns` (take the quota leases, pinned before protected), `look` (read again under them),
`check` (count), `count` (`update` counts anchors once more), `write`. `TakeTurn`, `Look`, `Check`, `CountAnchors` and
the writes are single awaited calls of the code. `Create`, `Archive`, `Activate` and `Delete` are one
write under the bucket lease. `Ops` splits "trace" from "restate": a `trace` that repeats a mark the memory has
already skips that mark's lease and its check, which is one of the loopholes below.

Properties. `PinnedCap`, `ProtectedCap`, `AnchorCap`: at most the limit, however handlers interleave.
`PinnedProtectedExclusive`, `ProtectedAnchorExclusive`, `PinnedAnchorExclusive`: no active memory has both marks.
`DecaySparesMarked`: decay archives nothing that is marked at that moment. `NoCircularWait`: in every set of requests one waits for none of the
others; `RequestReturns` is the liveness it serves. `MarksSetAtomically`: the steps implement `AtomicMarks`, a
specification with one action, in which a memory's marks are replaced if there is room for those it gains
and no excluded pair is among them. The mapping takes the marks of the active memories; requests and leases are hidden.

| Run | Operations | Shows |
|---|---|---|
| `quota_tools` | create, hold, trace, anchor, release, archive, delete, decay, lease timeouts | all three limits, protected excludes anchor, no circular wait, and the refinement of `AtomicMarks` |
| `quota_all` | create, trace, restore, direct writes, archive, activate; one memory, fair, no timeouts | pinned and protected exclude one another; every request returns |

The loopholes of the code, each with the operations that let TLC find it:

- `anchor`, `archive` and `restore` exceed the anchor limit: a restore keeps the mark, and no limit is asked
  (`src/bucket_manager.py:3548`).
- `restate` and `trace` exceed the pinned limit: `trace(pinned=1)` on a memory that is pinned at its first read takes no
  quota lease, and re-pins the memory after another request has unpinned it and a third has taken its place
  (`src/tools/trace/core.py:568`).
- `archive` and `activate` exceed it without any race: `activate` keeps the mark and asks no quota
  (`src/bucket_manager.py:5409`), while `restore_archived` takes care not to (line 3548).
- `trace` and `restore` exceed the protected limit: restore decides by its first read whether it needs the lease
  (`src/tools/trace/core.py:386`).
- `direct` exceeds the anchor limit: two `update(anchor=True)` count before either writes
  (`src/bucket_manager.py:2989`).
- `trace` and `anchor` give one memory both marks, against `PinnedAnchorExclusive`: `set_anchor` reads an
  unpinned memory under another lease (`src/bucket_manager.py:4872`).
- `decay` and `trace` break `DecaySparesMarked`: the cycle goes by the list it read when it began
  (`src/decay_engine.py:372`).

Bounds. Limits of 1 with two memories: one memory too many is the smallest excess, and a limit matters only by
"full or not". Two handlers race for the last place. Exclusion of two marks concerns one memory. The proofs need none
of these bounds.

Fairness. A waiting handler polls the lease file and a live holder releases it, so a lease that is free again and
again is obtained: strong fairness of each handler's step. No timeout is assumed, which would hide a deadlock.

Proofs (`ScarcityQuotasProofs`). `QuotaTypeCorrect` proves `TypeOK` for every set of operations. `PinnedCapHolds`,
`ProtectedCapHolds` and `AnchorCapHolds` prove each limit for every value of the limits and any number of memories and
handlers, provided `Ops` offers no operation of `Bypass(f)`: those that set mark `f` without the quota lease of
`f`. That set is the list of loopholes in the code; TLC finds a violation for each. A limit alone
is not inductive. `CapInv(f)` adds the claim of every handler that has passed its check: it holds the quota lease
of `f` and there is still room. As nobody else may then add a memory with `f`, every other step leaves the set of
marked memories the same or smaller, and the holder's own write adds at most one (`StepKeeps`, and one lemma
per action). That marks exclude one another is inductive once it is said of every memory, active or not (`Apart`), and needs
no lease: `PinnedNeverProtected` holds under every set of operations, `ProtectedNeverAnchor` under all but the unguarded
`create`.
`NoRequestsDeadlock` proves `NoCircularWait` under every set of operations. Its invariant `LeaseInv` says what holding a
lease implies: the holder of a quota lease has a request under way and, if it wants another one, holds pinned and
wants protected; whoever holds a bucket lease across an await is about to write. Hence each wait is for a
request that is nearer to its write (`Distance`, `WaitsForNearer`), and the nearest of a set waits for nobody in it.
`ToolsSetMarksAtomically` proves the refinement from `CapInv` of all three marks: the claim to room that a handler checked
several awaits ago still stands when it writes.

`create` accepts protected and anchor together ("directCreate" in `Ops`), which is why `ProtectedAnchorExclusive` is
checked without it. Not in the model: failures of counting (`count_pinned` returns 0 then) and a stale active list
in another process. The current-profile `trace` behaves like `Direct`.


### VaultCache

The active cache: `list_all()` polls file fingerprints, parses the vault and publishes rows, while managed writers
drop or patch them and people edit the Markdown files outside.

| Model | Code |
|---|---|
| `disk[f]`: text, activation count, links | a Markdown file of the active directories; `Gone` stands for no file |
| `cache`: rows, and the files written since their fingerprint was recorded | `_active_cache`, `_active_file_state` |
| `due` | the poll interval since `_last_file_state_check` has passed |
| `rd` | the `list_all` that holds `_active_cache_lock`: its phase, rows parsed, previous rows |
| `moved` | files written since `rd` last scanned their fingerprint |
| `bumped` | `_active_cache_generation` differs from the number `rd` captured |
| `wr[c]` | a writer under the lease of its bucket: loaded, written, bumped |
| `told[f]` | the text last registered with the embedding outbox |
| `managed` | (history) the store has updated or touched a memory |
| `bm` | the BM25 index, `_bm25_dirty`, a search with the rows it read, a rebuild with its input |

A fingerprint is abstracted to "written since", as every write changes the modification time, and a generation to
"bumped since captured"; neither needs a counter. Scans and parses take one step per file in any order, so that
writers and editors come between any two of them. `Written` is what every write does to fingerprints; `Edit` is an
outside edit; `LoadUpdate`, `LoadTouch`, `Write`, `GiveUp`, `Bump` and `Invalidate` are the managed writers that tell
the cache; `LoadLink` and `WriteLink` are the three that do not (`mutate_source_links`, `mutate_relation_links`,
`mutate_relation_pair`, which writes two files under two leases, here one after the other); `Look`, `PollFile`,
`PollDone`, `Capture`, `ScanBefore`, `Parse`, `ScanAfter`, `Publish` and `Reconcile` follow `list_all` line by line.
`Init` is the state after the start-up listing.

Properties. `CacheTruthful`: a published row that is not what the file holds will be noticed by the next poll or
dropped by a writer about to finish. `ReadsOwnWrites`: of texts and activation counts, only those of an external edit
can hide from the cache, never those of a finished managed write. It says nothing of links, which do hide (below).
`EditsRequeued`: until the store updates or touches a memory, what has been noticed has been registered for embedding.
`SparseFresh`: an index not marked dirty indexes the published rows. `EventuallyTruthful`: after the last write,
listing converges.

| Run | Instance | Shows |
|---|---|---|
| `cache_writes` | 2 files, 2 handlers, 2 texts, 2 writes or edits, fair | `CacheTruthful`, `ReadsOwnWrites` and convergence without touches, with link writes; `EditsRequeued`, also when a build starts over |
| `cache_touch` | the same with touches and searches and no edits | patching in place keeps texts and activation counts equal to the files, over link writes |

Four things do not hold. A write of source links or relations neither drops nor patches the published rows
(`src/bucket_manager.py:2503`, `:2545`, `:2583`): list_all returns the old links until the next poll, and if a touch
of the same memory comes first, it records the fingerprint that the link write left (`:1383`), and the old links stay
in the cache until something else drops it. With touches and edits together, `CacheTruthful` and `ReadsOwnWrites`
fail: a touch takes over the fingerprint of an edit that nobody has noticed (`src/bucket_manager.py:1383`).
`EditsRequeued` stops at the first update or touch: `update` drops the rows that an edit would have been compared
with, and the edit is published without being queued for embedding (`src/bucket_manager.py:1350`), against
"并只对正文变化重新排队向量" in `docs/OPERATIONS.md:39`. `SparseFresh` fails with `update` and `search`: a rebuild that finishes
after a write clears the dirty mark of that write (`src/bucket_manager.py:1560`).

Bounds. Two files let one be written while the other is parsed; two writes race each other and the build between;
`MaxWrites` also makes writing stop for `EventuallyTruthful`. Two texts tell old from new. The proofs need none of
these bounds.

Fairness. `list_all` is called by every tool and loop, time passes, and a handler that runs finishes: weak fairness
of `ReaderStep`, `PollDue` and each `WriterStep`. The rebuild needs none, as no liveness is claimed of it.

Proofs (`VaultCacheProofs`). `VaultTypeCorrect` proves `TypeOK` for all operations (no run repeats it). `EditsNoticed`
proves `CacheTruthful` if nothing touches; its invariant adds `BuildTruthful`: what a build has parsed is still in the
file, or has moved the fingerprint, or the scans differ. `ManagedWritesVisible` proves `ReadsOwnWrites` if nobody
edits outside; its invariant says what every writer knows (`WriterKnows`) and that published rows, and those of a
build whose generation is still current, agree with the files, in text and activation count, up to a writer in flight,
and with what that writer loaded if it touches (`CacheAgrees`, `BuildAgrees`). Neither premise can be dropped: touches
and edits together break both properties. `EditsQueuedAgain` proves `EditsRequeued` for all operations; until
`managed` is set, what is registered is always the text of the rows published last (`Registered`), which are in the
cache, or, from the moment a poll drops them until the reconciliation, in the `previous_cache` of the builder, through
all its attempts; with `EditsNoticed` these rows are what the files hold, but for files whose fingerprint the next
poll will find changed.

Not in the model: the bulk writers that write many files and invalidate once (backup and GitHub restore, vault import), the
path index, files that fail to parse, fingerprints that an edit leaves unchanged, and several
processes (each has its own cache; another process's writes are external edits to it).


## 5. What is only model-checked, and what is not modelled

Liveness under fairness stays with TLC, as the prover handles neither fairness nor ENABLED: `BodyConverges`,
`DeletionConverges`, `RequestReturns`, `EventuallyTruthful` and `PendingEnds`. Every invariant and every action property that a run
checks is also a theorem, under the hypotheses that section 4 names. The type invariants of `ScarcityQuotas`, `VaultCache`,
`ReminderStore` and `GatewayTurns` are theorems and no run repeats them. What the code is known to break is described in section 4 with the operations that let
TLC find it; no run of `PROJECT.json` states it.

Not modelled: floating-point scoring and ranking, prompting engines and text rules (no protocol of their
own), HTTP proxying and routing, backup and GitHub transport, import jobs, the Raft core of the vNext fabric (an in-memory
simulation that the server does not call), the dashboard. They are listed under
`components` in `PROJECT.json` with the reason. Most of the repository's lines are of these kinds (the
gateway's prompt assembly, the reflection, portrait and import engines, configuration pages), which is why the
modules stand for a small share of the lines and for most of the shared state. Provider calls are one step that
succeeds or fails. File writes are atomic (the code writes a temporary file and renames it).

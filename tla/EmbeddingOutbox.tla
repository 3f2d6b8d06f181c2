--------------------------- MODULE EmbeddingOutbox ---------------------------
(***************************************************************************)
(* The write-behind path from the Markdown vault to the vector index.      *)
(*                                                                         *)
(* A memory ("bucket") is committed to Markdown first; the vectors that    *)
(* represent its body and its latest meaning are derived data.  Between    *)
(* the two stands the durable outbox: per bucket and per component it      *)
(* holds the digest of the text whose vector is wanted.  A worker takes a  *)
(* due component, re-reads Markdown, asks the provider for a vector,       *)
(* stores it, re-reads Markdown once more and acknowledges the component.  *)
(*                                                                         *)
(* Three stores survive a crash: vault, box (the outbox file) and index    *)
(* (the embeddings table).  Everything else belongs to running actors:     *)
(* request handlers (Client), outbox workers (Worker) and one reconciler.  *)
(*                                                                         *)
(* Each action touches one shared store once.  When SingleLoop holds, all  *)
(* actors are coroutines of one event loop and others run only while an    *)
(* actor is suspended at an await; otherwise they are threads, loops or    *)
(* processes that share the files, and only the file leases order them.    *)
(***************************************************************************)
EXTENDS Naturals, FiniteSets

CONSTANTS
    Bucket,        \* bucket ids
    Body,          \* texts a bucket body may hold
    Meaning,       \* latest meanings a bucket may hold
    Empty,         \* the blank body; a member of Body only where a run wants it
    NoMeaning,     \* "no meaning recorded", whose digest may still be pending
    None,          \* no digest
    Nobody,        \* no holder of a lease, no bucket of an idle actor
    Client,        \* request handlers
    Worker,        \* outbox workers, one per process that serves the vault
    SingleLoop,    \* TRUE: one event loop; FALSE: several loops or processes
    Ops,           \* the operations clients may call
    MaxFaults      \* bound: crashes, failed registrations and lease timeouts

ASSUME LoopAssumption == SingleLoop \in BOOLEAN
ASSUME MeaningAssumption == NoMeaning \in Meaning
ASSUME NoneAssumption == None \notin {"body", "hist", "meaning"} \X (Body \cup Meaning \cup {Empty})
ASSUME NobodyAssumption == Nobody \notin Client \cup Worker
ASSUME ActorsAssumption == Client \cap Worker = {}
ASSUME FaultsAssumption == MaxFaults \in Nat

VARIABLES
    vault,         \* Markdown truth: status, body and latest meaning of a bucket
    box,           \* the outbox file: wanted digest per bucket and component
    late,          \* components whose next_attempt_at lies in the future
    index,         \* the embeddings table: digest each vector was made from
    lease,         \* holder of the derived-index turn of a bucket
    wk,            \* workers: pc, bucket and digest in hand
    cl,            \* clients: pc, bucket and digests still to be registered
    rec,           \* the reconciler
    service,       \* "down", "starting" (startup reconcile) or "running"
    faults,        \* how many faults have happened
    missed         \* history: buckets of which a registration was cut short

vars == <<vault, box, late, index, lease, wk, cl, rec, service, faults, missed>>

-----------------------------------------------------------------------------
(* Data.  A digest stands for the exact text of a vector: the body, the    *)
(* historical "Title + Content" rendering of the body, or the meaning.     *)

Kind == {"content", "meaning"}
ContentDigest == {"body", "hist"} \X (Body \cup {Empty})
MeaningDigest == {"meaning"} \X Meaning
Digest == ContentDigest \cup MeaningDigest
KindOf(d) == IF d[1] = "meaning" THEN "meaning" ELSE "content"

\* One digest, or none, for each component of a bucket.
Entry == {e \in [Kind -> Digest \cup {None}] :
            \A k \in Kind : e[k] # None => KindOf(e[k]) = k}
Nothing == [k \in Kind |-> None]

Gone(b) == vault[b].status \in {"absent", "deleted"}

\* The text of bucket b in the format that digest d was rendered in.
Rerender(b, d) ==
    IF d[1] = "meaning" THEN <<"meaning", vault[b].meaning>>
                        ELSE <<d[1], vault[b].body>>

\* The text a worker queues when a pending digest matches no rendering.
Canonical(b, d) ==
    IF d[1] = "meaning" THEN <<"meaning", vault[b].meaning>>
                        ELSE <<"body", vault[b].body>>

\* A vector of component k that does not represent what Markdown now says.
StaleBody(b) ==
    /\ vault[b].body # Empty
    /\ index[b]["content"] # <<"body", vault[b].body>>
    /\ index[b]["content"] # <<"hist", vault[b].body>>
StaleMeaning(b) ==
    index[b]["meaning"] # IF vault[b].meaning = NoMeaning
                          THEN None ELSE <<"meaning", vault[b].meaning>>
Stale(b, k) == ~Gone(b) /\ IF k = "content" THEN StaleBody(b) ELSE StaleMeaning(b)

-----------------------------------------------------------------------------
(* Actors *)

IdleWorker == [pc |-> "idle", b |-> Nobody, want |-> None]
IdleClient == [pc |-> "idle", b |-> Nobody, todo |-> Nothing]
IdleRec    == [pc |-> "idle", seen |-> {}]

\* Where a coroutine is suspended at an await, so that others may run.
WorkerYields(w) == wk[w].pc \in {"idle", "turn", "generate"}
ClientYields(c) == cl[c].pc \in {"idle", "discardTurn", "inline"}
RecYields       == rec.pc \in {"idle", "snapshot"}

WorkerMayRun(w) ==
    SingleLoop => /\ RecYields
                  /\ \A c \in Client : ClientYields(c)
                  /\ \A x \in Worker \ {w} : WorkerYields(x)
ClientMayRun(c) ==
    SingleLoop => /\ RecYields
                  /\ \A w \in Worker : WorkerYields(w)
                  /\ \A x \in Client \ {c} : ClientYields(x)
RecMayRun ==
    SingleLoop => /\ \A c \in Client : ClientYields(c)
                  /\ \A w \in Worker : WorkerYields(w)

Running == service # "down"

-----------------------------------------------------------------------------
(* Outbox file transactions *)

\* (Mutant) Both components share one hash field.
EnqueueSharedField(b, d) ==
    /\ box' = [box EXCEPT ![b]["content"] = d]
    /\ late' = late \ {<<b, KindOf(d)>>}

\* enqueue / enqueue_meaning: the wanted digest replaces the pending one and
\* its retry state is reset; a blank body only withdraws the component.
Enqueue(b, d) ==
    /\ box' = [box EXCEPT ![b][KindOf(d)] = IF d = <<"body", Empty>> THEN None ELSE d]
    /\ late' = late \ {<<b, KindOf(d)>>}

\* discard: every component of the bucket.
Discard(b) ==
    /\ box' = [box EXCEPT ![b] = Nothing]
    /\ late' = late \ ({b} \X Kind)

\* (Mutant) Acknowledges whatever is pending.
CompleteAny(b, d) ==
    /\ box' = [box EXCEPT ![b][KindOf(d)] = None]
    /\ late' = late \ {<<b, KindOf(d)>>}

\* _complete_component: only the very digest that was worked on.
Complete(b, d) ==
    IF box[b][KindOf(d)] = d
    THEN /\ box' = [box EXCEPT ![b][KindOf(d)] = None]
         /\ late' = late \ {<<b, KindOf(d)>>}
    ELSE UNCHANGED <<box, late>>

\* (Mutant) A failed component is given up.
PostponeForgets(b, d) ==
    /\ box' = [box EXCEPT ![b][KindOf(d)] = None]
    /\ late' = late \ {<<b, KindOf(d)>>}

\* _fail_component: the digest stays and becomes due again later.
Postpone(b, d) ==
    /\ late' = IF box[b][KindOf(d)] = d THEN late \cup {<<b, KindOf(d)>>} ELSE late
    /\ UNCHANGED box

-----------------------------------------------------------------------------
Init ==
    /\ vault = [b \in Bucket |-> [status |-> "absent", body |-> Empty, meaning |-> NoMeaning]]
    /\ box = [b \in Bucket |-> Nothing]
    /\ late = {}
    /\ index = [b \in Bucket |-> Nothing]
    /\ lease = [b \in Bucket |-> Nobody]
    /\ wk = [w \in Worker |-> IdleWorker]
    /\ cl = [c \in Client |-> IdleClient]
    /\ rec = IdleRec
    /\ service = "down"
    /\ faults = 0
    /\ missed = {}

-----------------------------------------------------------------------------
(* Request handlers.  The bucket turn makes the read-modify-write of one   *)
(* Markdown file atomic, so each commit is one action; what the commit     *)
(* captured is registered with the outbox after the turn is released.      *)

Begin(c, op) == /\ op \in Ops
                /\ Running
                /\ cl[c].pc = "idle"
                /\ ClientMayRun(c)

Goto(c, pc, b, todo) == cl' = [cl EXCEPT ![c] = [pc |-> pc, b |-> b, todo |-> todo]]
Return(c) == cl' = [cl EXCEPT ![c] = IdleClient]

\* What a commit captures: the body when queue_content, the meaning when queue_meaning.
Captured(v, content, meaning) ==
    [k \in Kind |-> IF k = "content"
                    THEN IF content THEN <<"body", v.body>> ELSE None
                    ELSE IF meaning THEN <<"meaning", v.meaning>> ELSE None]

Create(c, b, body, meaning) ==
    /\ Begin(c, "create")
    /\ vault[b].status = "absent"
    /\ LET v == [status |-> "live", body |-> body, meaning |-> meaning]
       IN /\ vault' = [vault EXCEPT ![b] = v]
          /\ Goto(c, "queue", b, Captured(v, TRUE, meaning # NoMeaning))
    /\ UNCHANGED <<box, late, index, lease, wk, rec, service, faults, missed>>

\* An archived or deleted bucket is terminal: update() rejects it.
Update(c, b, v, content, meaning) ==
    /\ Begin(c, "update")
    /\ vault[b].status = "live"
    /\ v.status = "live"
    /\ content \/ meaning
    /\ ~content => v.body = vault[b].body
    /\ ~meaning => v.meaning = vault[b].meaning
    /\ vault' = [vault EXCEPT ![b] = v]
    /\ Goto(c, "queue", b, Captured(v, content, meaning))
    /\ UNCHANGED <<box, late, index, lease, wk, rec, service, faults, missed>>

\* restore_archived: explicit return from the archive or from a tombstone.
Restore(c, b) ==
    /\ Begin(c, "restore")
    /\ vault[b].status \in {"archived", "deleted"}
    /\ LET v == [vault[b] EXCEPT !.status = "live"]
       IN /\ vault' = [vault EXCEPT ![b] = v]
          /\ Goto(c, "queue", b, Captured(v, TRUE, v.meaning # NoMeaning))
    /\ UNCHANGED <<box, late, index, lease, wk, rec, service, faults, missed>>

\* archive() and activate() move the file and leave the derived state alone.
Archive(c, b) ==
    /\ Begin(c, "archive")
    /\ vault[b].status = "live"
    /\ vault' = [vault EXCEPT ![b].status = "archived"]
    /\ UNCHANGED <<box, late, index, lease, wk, cl, rec, service, faults, missed>>

Activate(c, b) ==
    /\ Begin(c, "activate")
    /\ vault[b].status = "archived"
    /\ vault' = [vault EXCEPT ![b].status = "live"]
    /\ UNCHANGED <<box, late, index, lease, wk, cl, rec, service, faults, missed>>

\* (Mutant) Leaves the derived state to somebody else.
DeleteOnly(c, b) ==
    /\ Begin(c, "delete")
    /\ vault[b].status # "absent"
    /\ vault' = [vault EXCEPT ![b].status = "deleted"]
    /\ UNCHANGED <<box, late, index, lease, wk, cl, rec, service, faults, missed>>

\* delete() stamps deleted_at, also on a bucket that already carries it.
Delete(c, b) ==
    /\ Begin(c, "delete")
    /\ vault[b].status # "absent"
    /\ vault' = [vault EXCEPT ![b].status = "deleted"]
    /\ Goto(c, "discardTurn", b, Nothing)
    /\ UNCHANGED <<box, late, index, lease, wk, rec, service, faults, missed>>

\* _queue_derived_state: the content digest is registered before the meaning.
Queue(c) ==
    /\ cl[c].pc = "queue"
    /\ ClientMayRun(c)
    /\ LET b == cl[c].b
           k == IF cl[c].todo["content"] # None THEN "content" ELSE "meaning"
           rest == [cl[c].todo EXCEPT ![k] = None]
       IN /\ Enqueue(b, cl[c].todo[k])
          /\ IF rest = Nothing THEN Return(c) ELSE Goto(c, "queue", b, rest)
    /\ UNCHANGED <<vault, index, lease, wk, rec, service, faults, missed>>

\* The outbox file could not be written: the exception is logged, and what
\* was still to be registered is dropped.
QueueFails(c) ==
    /\ cl[c].pc = "queue"
    /\ ClientMayRun(c)
    /\ faults < MaxFaults
    /\ faults' = faults + 1
    /\ missed' = missed \cup {cl[c].b}
    /\ Return(c)
    /\ UNCHANGED <<vault, box, late, index, lease, wk, rec, service>>

(* _discard_derived_index_if_terminal, the second half of delete() *)

DiscardTurn(c) ==
    /\ cl[c].pc = "discardTurn"
    /\ ClientMayRun(c)
    /\ lease[cl[c].b] = Nobody
    /\ lease' = [lease EXCEPT ![cl[c].b] = c]
    /\ Goto(c, "discardRead", cl[c].b, Nothing)
    /\ UNCHANGED <<vault, box, late, index, wk, rec, service, faults, missed>>

\* The derived turn was not granted in time: delete() raises.
DiscardTimeout(c) ==
    /\ cl[c].pc = "discardTurn"
    /\ ClientMayRun(c)
    /\ faults < MaxFaults
    /\ faults' = faults + 1
    /\ missed' = missed \cup {cl[c].b}
    /\ Return(c)
    /\ UNCHANGED <<vault, box, late, index, lease, wk, rec, service>>

\* A restore that committed in between keeps its derived state.
DiscardRead(c) ==
    /\ cl[c].pc = "discardRead"
    /\ ClientMayRun(c)
    /\ IF Gone(cl[c].b)
       THEN /\ Goto(c, "discardItem", cl[c].b, Nothing)
            /\ UNCHANGED lease
       ELSE /\ Return(c)
            /\ lease' = [lease EXCEPT ![cl[c].b] = Nobody]
    /\ UNCHANGED <<vault, box, late, index, wk, rec, service, faults, missed>>

DiscardItem(c) ==
    /\ cl[c].pc = "discardItem"
    /\ ClientMayRun(c)
    /\ Discard(cl[c].b)
    /\ Goto(c, "discardIndex", cl[c].b, Nothing)
    /\ UNCHANGED <<vault, index, lease, wk, rec, service, faults, missed>>

\* (Mutant) Only the content columns are cleared.
DiscardContentOnly(c) ==
    /\ cl[c].pc = "discardIndex"
    /\ ClientMayRun(c)
    /\ index' = [index EXCEPT ![cl[c].b]["content"] = None]
    /\ lease' = [lease EXCEPT ![cl[c].b] = Nobody]
    /\ Return(c)
    /\ UNCHANGED <<vault, box, late, wk, rec, service, faults, missed>>

DiscardIndex(c) ==
    /\ cl[c].pc = "discardIndex"
    /\ ClientMayRun(c)
    /\ index' = [index EXCEPT ![cl[c].b] = Nothing]
    /\ lease' = [lease EXCEPT ![cl[c].b] = Nobody]
    /\ Return(c)
    /\ UNCHANGED <<vault, box, late, wk, rec, service, faults, missed>>

\* Either removal may fail: the exception is logged and delete() goes on.
DiscardItemFails(c) ==
    /\ cl[c].pc = "discardItem"
    /\ ClientMayRun(c)
    /\ faults < MaxFaults
    /\ faults' = faults + 1
    /\ missed' = missed \cup {cl[c].b}
    /\ Goto(c, "discardIndex", cl[c].b, Nothing)
    /\ UNCHANGED <<vault, box, late, index, lease, wk, rec, service>>

DiscardIndexFails(c) ==
    /\ cl[c].pc = "discardIndex"
    /\ ClientMayRun(c)
    /\ faults < MaxFaults
    /\ faults' = faults + 1
    /\ missed' = missed \cup {cl[c].b}
    /\ lease' = [lease EXCEPT ![cl[c].b] = Nobody]
    /\ Return(c)
    /\ UNCHANGED <<vault, box, late, index, wk, rec, service>>

(* ensure_embedding_index: wants the "Title + Content" rendering *)

Ensure(c, b) ==
    /\ Begin(c, "ensure")
    /\ ~Gone(b)
    /\ Goto(c, "ensure", b, [Nothing EXCEPT !["content"] = <<"hist", vault[b].body>>])
    /\ UNCHANGED <<vault, box, late, index, lease, wk, rec, service, faults, missed>>

\* get_content_hash decides between acknowledging and queueing.
EnsureRead(c) ==
    /\ cl[c].pc = "ensure"
    /\ ClientMayRun(c)
    /\ Goto(c, IF index[cl[c].b]["content"] = cl[c].todo["content"]
               THEN "ensureAck" ELSE "ensureQueue", cl[c].b, cl[c].todo)
    /\ UNCHANGED <<vault, box, late, index, lease, wk, rec, service, faults, missed>>

EnsureAck(c) ==
    /\ cl[c].pc = "ensureAck"
    /\ ClientMayRun(c)
    /\ Complete(cl[c].b, cl[c].todo["content"])
    /\ Return(c)
    /\ UNCHANGED <<vault, index, lease, wk, rec, service, faults, missed>>

EnsureQueue(c) ==
    /\ cl[c].pc = "ensureQueue"
    /\ ClientMayRun(c)
    /\ Enqueue(cl[c].b, cl[c].todo["content"])
    /\ Return(c)
    /\ UNCHANGED <<vault, index, lease, wk, rec, service, faults, missed>>

\* Registration failed: one inline attempt, outside the derived turn.
EnsureQueueFails(c) ==
    /\ cl[c].pc = "ensureQueue"
    /\ ClientMayRun(c)
    /\ faults < MaxFaults
    /\ faults' = faults + 1
    /\ missed' = missed \cup {cl[c].b}
    /\ Goto(c, "inline", cl[c].b, cl[c].todo)
    /\ UNCHANGED <<vault, box, late, index, lease, wk, rec, service>>

InlineStores(c) ==
    /\ cl[c].pc = "inline"
    /\ ClientMayRun(c)
    /\ index' = [index EXCEPT ![cl[c].b]["content"] = cl[c].todo["content"]]
    /\ Goto(c, "ensureAck", cl[c].b, cl[c].todo)
    /\ UNCHANGED <<vault, box, late, lease, wk, rec, service, faults, missed>>

InlineFails(c) ==
    /\ cl[c].pc = "inline"
    /\ ClientMayRun(c)
    /\ Return(c)
    /\ UNCHANGED <<vault, box, late, index, lease, wk, rec, service, faults, missed>>

(* The repair in merge_or_create: ensure_pending never replaces a pending *)
(* content digest, which may be newer than the text in hand.              *)

Repair(c, b) ==
    /\ Begin(c, "repair")
    /\ ~Gone(b)
    /\ box[b] = Nothing
    /\ index[b]["content"] = None
    /\ Goto(c, "repair", b, [Nothing EXCEPT !["content"] = <<"body", vault[b].body>>])
    /\ UNCHANGED <<vault, box, late, index, lease, wk, rec, service, faults, missed>>

EnsurePending(c) ==
    /\ cl[c].pc = "repair"
    /\ ClientMayRun(c)
    /\ LET b == cl[c].b
           d == cl[c].todo["content"]
       IN IF box[b]["content"] = None /\ d # <<"body", Empty>>
          THEN Enqueue(b, d)
          ELSE UNCHANGED <<box, late>>
    /\ Return(c)
    /\ UNCHANGED <<vault, index, lease, wk, rec, service, faults, missed>>

ClientStep(c) ==
    \/ Queue(c) \/ DiscardTurn(c) \/ DiscardRead(c) \/ DiscardItem(c) \/ DiscardIndex(c)
    \/ EnsureRead(c) \/ EnsureAck(c) \/ EnsureQueue(c) \/ InlineStores(c) \/ InlineFails(c)
    \/ EnsurePending(c)

ClientFault(c) ==
    \/ QueueFails(c) \/ DiscardTimeout(c) \/ DiscardItemFails(c) \/ DiscardIndexFails(c)
    \/ EnsureQueueFails(c)

ClientBegins(c) ==
    \E b \in Bucket :
        \/ \E body \in Body, meaning \in Meaning : Create(c, b, body, meaning)
        \/ \E body \in Body, meaning \in Meaning, qc, qm \in BOOLEAN :
              Update(c, b, [status |-> "live", body |-> body, meaning |-> meaning], qc, qm)
        \/ Restore(c, b) \/ Archive(c, b) \/ Activate(c, b) \/ Delete(c, b)
        \/ Ensure(c, b) \/ Repair(c, b)

-----------------------------------------------------------------------------
(* The worker: _run, _process and _process_component *)

Hold(w, pc, d) == wk' = [wk EXCEPT ![w] = [pc |-> pc, b |-> wk[w].b, want |-> d]]
Release(w) == /\ wk' = [wk EXCEPT ![w] = IdleWorker]
              /\ lease' = [lease EXCEPT ![wk[w].b] = Nobody]

\* _next_due.  The order among due components matters to progress only.
Pick(w, b, k) ==
    /\ service = "running"
    /\ wk[w].pc = "idle"
    /\ WorkerMayRun(w)
    /\ box[b][k] # None
    /\ <<b, k>> \notin late
    /\ wk' = [wk EXCEPT ![w] = [pc |-> "turn", b |-> b, want |-> box[b][k]]]
    /\ UNCHANGED <<vault, box, late, index, lease, cl, rec, service, faults, missed>>

\* _current_component_snapshot: inside the turn, a pick that is no longer
\* pending or no longer due is dropped.
Enter(w) ==
    /\ wk[w].pc = "turn"
    /\ WorkerMayRun(w)
    /\ LET b == wk[w].b
           d == wk[w].want
       IN /\ lease[b] = Nobody
          /\ IF box[b][KindOf(d)] = d /\ <<b, KindOf(d)>> \notin late
             THEN /\ lease' = [lease EXCEPT ![b] = w]
                  /\ Hold(w, "read", d)
             ELSE /\ wk' = [wk EXCEPT ![w] = IdleWorker]
                  /\ UNCHANGED lease
    /\ UNCHANGED <<vault, box, late, index, cl, rec, service, faults, missed>>

\* The turn was not granted in time: the component is postponed.
TurnTimeout(w) ==
    /\ wk[w].pc = "turn"
    /\ WorkerMayRun(w)
    /\ faults < MaxFaults
    /\ faults' = faults + 1
    /\ Postpone(wk[w].b, wk[w].want)
    /\ wk' = [wk EXCEPT ![w] = IdleWorker]
    /\ UNCHANGED <<vault, index, lease, cl, rec, service, missed>>

\* Markdown decides what happens to the pending digest.
Read(w) ==
    /\ wk[w].pc = "read"
    /\ WorkerMayRun(w)
    /\ LET b == wk[w].b
           d == wk[w].want
           blank == KindOf(d) = "content" /\ vault[b].body = Empty
       IN \/ Gone(b) /\ Hold(w, "dropIndex", d)
          \/ ~Gone(b) /\ blank /\ Hold(w, "ack", d)
          \/ ~Gone(b) /\ ~blank /\ d # Rerender(b, d) /\ Hold(w, "requeue", Canonical(b, d))
          \/ ~Gone(b) /\ ~blank /\ d = Rerender(b, d)
             /\ Hold(w, IF d = <<"meaning", NoMeaning>> THEN "clear" ELSE "generate", d)
    /\ UNCHANGED <<vault, box, late, index, lease, cl, rec, service, faults, missed>>

\* delete_embedding removes the row with both vectors.
DropIndex(w) ==
    /\ wk[w].pc = "dropIndex"
    /\ WorkerMayRun(w)
    /\ index' = [index EXCEPT ![wk[w].b] = Nothing]
    /\ Hold(w, "dropItem", wk[w].want)
    /\ UNCHANGED <<vault, box, late, lease, cl, rec, service, faults, missed>>

\* A failed removal is swallowed: the item is dropped all the same.
DropIndexFails(w) ==
    /\ wk[w].pc = "dropIndex"
    /\ WorkerMayRun(w)
    /\ faults < MaxFaults
    /\ faults' = faults + 1
    /\ missed' = missed \cup {wk[w].b}
    /\ Hold(w, "dropItem", wk[w].want)
    /\ UNCHANGED <<vault, box, late, index, lease, cl, rec, service>>

DropItem(w) ==
    /\ wk[w].pc = "dropItem"
    /\ WorkerMayRun(w)
    /\ Discard(wk[w].b)
    /\ Release(w)
    /\ UNCHANGED <<vault, index, cl, rec, service, faults, missed>>

Requeue(w) ==
    /\ wk[w].pc = "requeue"
    /\ WorkerMayRun(w)
    /\ Enqueue(wk[w].b, wk[w].want)
    /\ Release(w)
    /\ UNCHANGED <<vault, index, cl, rec, service, faults, missed>>

\* delete_meaning_embedding: no provider call for an empty meaning.
Clear(w) ==
    /\ wk[w].pc = "clear"
    /\ WorkerMayRun(w)
    /\ index' = [index EXCEPT ![wk[w].b]["meaning"] = None]
    /\ Hold(w, "verify", wk[w].want)
    /\ UNCHANGED <<vault, box, late, lease, cl, rec, service, faults, missed>>

\* generate_and_store, generate_and_store_meaning: the provider answered.
Store(w) ==
    /\ wk[w].pc = "generate"
    /\ WorkerMayRun(w)
    /\ index' = [index EXCEPT ![wk[w].b][KindOf(wk[w].want)] = wk[w].want]
    /\ Hold(w, "verify", wk[w].want)
    /\ UNCHANGED <<vault, box, late, lease, cl, rec, service, faults, missed>>

\* The provider failed or was rejected.
Fail(w) ==
    /\ wk[w].pc = "generate"
    /\ WorkerMayRun(w)
    /\ Postpone(wk[w].b, wk[w].want)
    /\ Release(w)
    /\ UNCHANGED <<vault, index, cl, rec, service, faults, missed>>

\* Markdown is read again: it may have moved on during the provider call.
Verify(w) ==
    /\ wk[w].pc = "verify"
    /\ WorkerMayRun(w)
    /\ LET b == wk[w].b
           d == wk[w].want
       IN Hold(w, IF Gone(b) THEN "dropIndex"
                  ELSE IF d = Rerender(b, d) THEN "ack" ELSE "requeue",
               IF Gone(b) THEN d ELSE Rerender(b, d))
    /\ UNCHANGED <<vault, box, late, index, lease, cl, rec, service, faults, missed>>

Ack(w) ==
    /\ wk[w].pc = "ack"
    /\ WorkerMayRun(w)
    /\ Complete(wk[w].b, wk[w].want)
    /\ Release(w)
    /\ UNCHANGED <<vault, index, cl, rec, service, faults, missed>>

\* The outbox file cannot be written: neither the outcome nor, in the
\* exception handler, its postponement is recorded.
OutcomeLost(w) ==
    /\ wk[w].pc \in {"dropItem", "requeue", "ack"}
    /\ WorkerMayRun(w)
    /\ faults < MaxFaults
    /\ faults' = faults + 1
    /\ missed' = missed \cup {wk[w].b}
    /\ Release(w)
    /\ UNCHANGED <<vault, box, late, index, cl, rec, service>>

WorkerFault(w) == TurnTimeout(w) \/ DropIndexFails(w) \/ OutcomeLost(w)

WorkerStep(w) ==
    \/ Enter(w) \/ Read(w) \/ DropIndex(w) \/ DropItem(w) \/ Requeue(w)
    \/ Clear(w) \/ Store(w) \/ Fail(w) \/ Verify(w) \/ Ack(w)

-----------------------------------------------------------------------------
(* reconcile(): at startup over the whole vault, later from the decay loop  *)
(* over the active buckets.  Its bucket list may be long out of date.       *)

Content(b) == <<"body", vault[b].body>>
Known(archives) ==
    {b \in Bucket : /\ vault[b].status = "live" \/ (archives /\ vault[b].status = "archived")
                    /\ vault[b].body # Empty}

RecStep(pc, seen) == rec' = [pc |-> pc, seen |-> seen]
RecUnchanged == UNCHANGED <<vault, index, lease, wk, cl, faults, missed>>

ListBuckets(archives) ==
    /\ Running
    /\ service = "starting" => archives
    /\ rec.pc = "idle"
    /\ RecMayRun
    /\ RecStep("snapshot", {<<b, Content(b)>> : b \in Known(archives)})
    /\ RecUnchanged /\ UNCHANGED <<box, late, service>>

\* (Mutant) Looks for missing rows only, not for stale hashes.
CandidatesMissingOnly ==
    /\ rec.pc = "snapshot"
    /\ RecMayRun
    /\ RecStep("reread", {e \in rec.seen : index[e[1]]["content"] = None})
    /\ RecUnchanged /\ UNCHANGED <<box, late, service>>

\* read_index_state, first time: which entries lack a vector of their body?
Candidates ==
    /\ rec.pc = "snapshot"
    /\ RecMayRun
    /\ RecStep("reread", {e \in rec.seen : index[e[1]]["content"] # e[2]})
    /\ RecUnchanged /\ UNCHANGED <<box, late, service>>

\* The candidates are re-read from Markdown.
Reread ==
    /\ rec.pc = "reread"
    /\ RecMayRun
    /\ RecStep("confirm", {<<b, Content(b)>> : b \in {e[1] : e \in rec.seen} \cap Known(TRUE)})
    /\ RecUnchanged /\ UNCHANGED <<box, late, service>>

\* read_index_state, second time, before the outbox file is taken.
Confirm ==
    /\ rec.pc = "confirm"
    /\ RecMayRun
    /\ RecStep("queue", {e \in rec.seen : index[e[1]]["content"] # e[2]})
    /\ RecUnchanged /\ UNCHANGED <<box, late, service>>

\* start() creates the worker once the startup reconcile has returned.
Started == service' = "running"

\* A pending content digest may be newer than this snapshot and stays.
QueueMissing ==
    /\ rec.pc = "queue"
    /\ RecMayRun
    /\ LET new == {e \in rec.seen : box[e[1]]["content"] = None}
       IN /\ box' = [b \in Bucket |->
                       IF \E e \in new : e[1] = b
                       THEN [box[b] EXCEPT !["content"] = (CHOOSE e \in new : e[1] = b)[2]]
                       ELSE box[b]]
          /\ late' = late \ ({e[1] : e \in new} \X {"content"})
    /\ rec' = IdleRec
    /\ Started
    /\ RecUnchanged

\* The index cannot be read: "unknown is not the same as empty", nothing is queued.
ReconcileGivesUp ==
    /\ rec.pc \in {"snapshot", "confirm"}
    /\ RecMayRun
    /\ faults < MaxFaults
    /\ faults' = faults + 1
    /\ rec' = IdleRec
    /\ Started
    /\ UNCHANGED <<vault, box, late, index, lease, wk, cl, missed>>

Reconcile ==
    \/ \E archives \in BOOLEAN : ListBuckets(archives)
    \/ Candidates \/ Reread \/ Confirm \/ QueueMissing

-----------------------------------------------------------------------------
(* Time, operators and crashes *)

\* The retry time of a component arrives.
BecomesDue(b, k) ==
    /\ <<b, k>> \in late
    /\ late' = late \ {<<b, k>>}
    /\ UNCHANGED <<vault, box, index, lease, wk, cl, rec, service, faults, missed>>

\* The dashboard's retry_now makes every pending component due.
RetryNow ==
    /\ Running
    /\ RecMayRun /\ RecYields
    /\ late # {}
    /\ late' = {}
    /\ UNCHANGED <<vault, box, index, lease, wk, cl, rec, service, faults, missed>>

Start ==
    /\ service = "down"
    /\ service' = "starting"
    /\ UNCHANGED <<vault, box, late, index, lease, wk, cl, rec, faults, missed>>

\* Digests of bucket b that a client has yet to register.
Owed(b, k) == \E c \in Client : cl[c].pc = "queue" /\ cl[c].b = b /\ cl[c].todo[k] # None
\* A worker that has changed a vector of b and not yet compared it with Markdown.
InHand(b, k) == \E w \in Worker : /\ wk[w].pc \in {"verify", "requeue"}
                                  /\ wk[w].b = b
                                  /\ KindOf(wk[w].want) = k
\* A deletion whose derived state is still to be removed.
Sweeping(b) == \/ \E c \in Client : /\ cl[c].pc \in {"discardTurn", "discardRead",
                                                    "discardItem", "discardIndex"}
                                    /\ cl[c].b = b
               \/ \E w \in Worker : /\ wk[w].pc \in {"verify", "requeue", "dropIndex"}
                                    /\ wk[w].b = b

\* Every actor dies with the service; the kernel frees the leases.
Crash ==
    /\ Running
    /\ faults < MaxFaults
    /\ faults' = faults + 1
    /\ missed' = missed \cup {b \in Bucket : Sweeping(b) \/ \E k \in Kind : Owed(b, k) \/ InHand(b, k)}
    /\ service' = "down"
    /\ lease' = [b \in Bucket |-> Nobody]
    /\ wk' = [w \in Worker |-> IdleWorker]
    /\ cl' = [c \in Client |-> IdleClient]
    /\ rec' = IdleRec
    /\ UNCHANGED <<vault, box, late, index>>

-----------------------------------------------------------------------------
Next ==
    \/ \E c \in Client : ClientBegins(c) \/ ClientStep(c) \/ ClientFault(c)
    \/ \E w \in Worker : WorkerStep(w) \/ WorkerFault(w)
                         \/ \E b \in Bucket, k \in Kind : Pick(w, b, k)
    \/ Reconcile \/ ReconcileGivesUp
    \/ \E b \in Bucket, k \in Kind : BecomesDue(b, k)
    \/ RetryNow \/ Start \/ Crash

Spec == Init /\ [][Next]_vars

\* Strong fairness of each actor: the event loop resumes ready coroutines in
\* order, a polled lease that is free again and again is taken, _next_due
\* serves the oldest due time first, the decay loop keeps reconciling the
\* active buckets, and the provider does not reject a text for ever.
Fairness ==
    /\ \A c \in Client : SF_vars(ClientStep(c))
    /\ \A w \in Worker : SF_vars(WorkerStep(w)) /\ SF_vars(Store(w))
    /\ \A b \in Bucket, k \in Kind : /\ SF_vars(\E w \in Worker : Pick(w, b, k))
                                     /\ WF_vars(BecomesDue(b, k))
    /\ SF_vars(Reconcile)
    /\ WF_vars(Start)

LiveSpec == Spec /\ Fairness

-----------------------------------------------------------------------------
(* Properties *)

Status == {"absent", "live", "archived", "deleted"}
WorkerPc == {"idle", "turn", "read", "dropIndex", "dropItem", "requeue",
             "clear", "generate", "verify", "ack"}
ClientPc == {"idle", "queue", "discardTurn", "discardRead", "discardItem",
             "discardIndex", "ensure", "ensureAck", "ensureQueue", "inline", "repair"}
RecPc == {"idle", "snapshot", "reread", "confirm", "queue"}

\* Every variable has its type; a component never holds the digest of the
\* other, and an actor past "idle" has a bucket and a digest in hand.
TypeOK ==
    /\ vault \in [Bucket -> [status : Status, body : Body \cup {Empty}, meaning : Meaning]]
    /\ box \in [Bucket -> Entry]
    /\ late \in SUBSET (Bucket \X Kind)
    /\ index \in [Bucket -> Entry]
    /\ lease \in [Bucket -> Worker \cup Client \cup {Nobody}]
    /\ wk \in [Worker -> [pc : WorkerPc, b : Bucket \cup {Nobody}, want : Digest \cup {None}]]
    /\ \A w \in Worker : wk[w].pc # "idle" => wk[w].b \in Bucket /\ wk[w].want \in Digest
    /\ cl \in [Client -> [pc : ClientPc, b : Bucket \cup {Nobody}, todo : Entry]]
    /\ \A c \in Client :
         /\ cl[c].pc # "idle" => cl[c].b \in Bucket
         /\ cl[c].pc = "queue" => \E k \in Kind : cl[c].todo[k] # None
         /\ cl[c].pc \in {"ensure", "ensureAck", "ensureQueue", "inline", "repair"}
               => cl[c].todo["content"] # None
    /\ rec \in [pc : RecPc, seen : SUBSET (Bucket \X ContentDigest)]
    /\ service \in {"down", "starting", "running"}
    /\ faults \in 0..MaxFaults
    /\ missed \in SUBSET Bucket

\* No derived work is lost: a live or archived bucket whose vectors do not
\* represent its Markdown has the digest pending in the outbox, or a handler
\* about to register it, or a worker about to requeue it - unless a failed or
\* interrupted registration is on record.
NoLostWork ==
    \A b \in Bucket, k \in Kind :
        Stale(b, k) => box[b][k] # None \/ Owed(b, k) \/ InHand(b, k) \/ b \in missed

\* A vector that arrives late for a deleted bucket never survives unnoticed:
\* as long as it is there, an outbox item or a running sweep will remove it.
NoOrphanVector ==
    \A b \in Bucket :
        Gone(b) /\ index[b] # Nothing => box[b] # Nothing \/ Sweeping(b) \/ b \in missed

\* Once the body of a live bucket stops changing, its vector comes to
\* represent it, whatever crashes and failed registrations went before:
\* reconcile finds what the outbox has lost.  (It lists archived buckets at
\* startup only.)
BodyConverges ==
    \A b \in Bucket :
        <>[][FALSE]_(vault[b]) => <>[](vault[b].status = "live" => ~Stale(b, "content"))

\* Once a deletion stands, the vectors of the bucket are removed for good
\* (when no sweep was cut short).
DeletionConverges ==
    \A b \in Bucket :
        <>[](vault[b].status = "deleted") => <>[](index[b] = Nothing \/ b \in missed)
=============================================================================

------------------------ MODULE EmbeddingOutboxProofs ------------------------
(* Theorems about EmbeddingOutbox, for every set of buckets, texts, clients *)
(* and workers.                                                             *)
EXTENDS EmbeddingOutbox, TLAPS

-----------------------------------------------------------------------------
(* Digests and entries *)

\* No digest is the absent one, and its kind is a component.
LEMMA DigestFacts ==
    /\ None \notin Digest
    /\ \A d \in Digest : KindOf(d) \in Kind
    /\ \A d \in ContentDigest : KindOf(d) = "content" /\ d \in Digest
    /\ \A d \in MeaningDigest : KindOf(d) = "meaning" /\ d \in Digest
    /\ \A d \in Digest : KindOf(d) = "content" => d \in ContentDigest
BY NoneAssumption, SMT DEF Digest, ContentDigest, MeaningDigest, KindOf, Kind

LEMMA NothingFacts ==
    /\ Nothing \in Entry
    /\ \A k \in Kind : Nothing[k] = None
BY DEF Nothing, Entry

\* Setting one component of an entry to a digest of its own kind, or to none.
LEMMA EntryUpdate ==
    ASSUME NEW e \in Entry, NEW k \in Kind, NEW d \in Digest \cup {None},
           d # None => KindOf(d) = k
    PROVE  /\ [e EXCEPT ![k] = d] \in Entry
           /\ [e EXCEPT ![k] = d][k] = d
           /\ \A j \in Kind : j # k => [e EXCEPT ![k] = d][j] = e[j]
BY DEF Entry

\* What a renderer returns is a digest of the kind it was asked for.
LEMMA RenderFacts ==
    ASSUME TypeOK, NEW b \in Bucket, NEW d \in Digest
    PROVE  /\ Rerender(b, d) \in Digest /\ KindOf(Rerender(b, d)) = KindOf(d)
           /\ Canonical(b, d) \in Digest /\ KindOf(Canonical(b, d)) = KindOf(d)
           /\ Content(b) \in ContentDigest
BY SMT DEF TypeOK, Rerender, Canonical, Content, Digest, ContentDigest, MeaningDigest, KindOf

\* Capture holds one digest per registered component.
LEMMA CapturedFacts ==
    ASSUME NEW v \in [status : Status, body : Body \cup {Empty}, meaning : Meaning],
           NEW p \in BOOLEAN, NEW q \in BOOLEAN
    PROVE  /\ Captured(v, p, q) \in Entry
           /\ p => Captured(v, p, q)["content"] = <<"body", v.body>>
           /\ ~p => Captured(v, p, q)["content"] = None
           /\ q => Captured(v, p, q)["meaning"] = <<"meaning", v.meaning>>
           /\ ~q => Captured(v, p, q)["meaning"] = None
           /\ p \/ q => \E k \in Kind : Captured(v, p, q)[k] # None
<1>1. <<"body", v.body>> \in ContentDigest /\ <<"meaning", v.meaning>> \in MeaningDigest
  BY SMT DEF ContentDigest, MeaningDigest
<1>2. /\ <<"body", v.body>> \in Digest /\ KindOf(<<"body", v.body>>) = "content"
      /\ <<"meaning", v.meaning>> \in Digest /\ KindOf(<<"meaning", v.meaning>>) = "meaning"
  BY <1>1, DigestFacts
<1> QED BY <1>2, DigestFacts DEF Captured, Entry, Kind

-----------------------------------------------------------------------------
(* The outbox transactions keep the outbox well typed *)

LEMMA EnqueueType ==
    ASSUME TypeOK, NEW b \in Bucket, NEW d \in Digest, Enqueue(b, d)
    PROVE  box' \in [Bucket -> Entry] /\ late' \in SUBSET (Bucket \X Kind)
<1>1. KindOf(d) \in Kind BY DigestFacts
<1>2. [box[b] EXCEPT ![KindOf(d)] = IF d = <<"body", Empty>> THEN None ELSE d] \in Entry
  BY <1>1, EntryUpdate DEF TypeOK
<1> QED BY <1>1, <1>2 DEF TypeOK, Enqueue

LEMMA DiscardType ==
    ASSUME TypeOK, NEW b \in Bucket, Discard(b)
    PROVE  box' \in [Bucket -> Entry] /\ late' \in SUBSET (Bucket \X Kind)
BY NothingFacts DEF TypeOK, Discard

LEMMA CompleteType ==
    ASSUME TypeOK, NEW b \in Bucket, NEW d \in Digest, Complete(b, d)
    PROVE  box' \in [Bucket -> Entry] /\ late' \in SUBSET (Bucket \X Kind)
<1>1. KindOf(d) \in Kind BY DigestFacts
<1>2. [box[b] EXCEPT ![KindOf(d)] = None] \in Entry
  BY <1>1, EntryUpdate DEF TypeOK
<1> QED BY <1>1, <1>2 DEF TypeOK, Complete

LEMMA PostponeType ==
    ASSUME TypeOK, NEW b \in Bucket, NEW d \in Digest, Postpone(b, d)
    PROVE  box' \in [Bucket -> Entry] /\ late' \in SUBSET (Bucket \X Kind)
<1>1. KindOf(d) \in Kind BY DigestFacts
<1> QED BY <1>1 DEF TypeOK, Postpone

-----------------------------------------------------------------------------
(* Type correctness *)

WorkersTyped ==
    /\ wk \in [Worker -> [pc : WorkerPc, b : Bucket \cup {Nobody}, want : Digest \cup {None}]]
    /\ \A w \in Worker : wk[w].pc # "idle" => wk[w].b \in Bucket /\ wk[w].want \in Digest

ClientsTyped ==
    /\ cl \in [Client -> [pc : ClientPc, b : Bucket \cup {Nobody}, todo : Entry]]
    /\ \A c \in Client :
         /\ cl[c].pc # "idle" => cl[c].b \in Bucket
         /\ cl[c].pc = "queue" => \E k \in Kind : cl[c].todo[k] # None
         /\ cl[c].pc \in {"ensure", "ensureAck", "ensureQueue", "inline", "repair"}
               => cl[c].todo["content"] # None

\* A worker in the middle of its turn moves on, or lets go.
LEMMA HoldType ==
    ASSUME TypeOK, NEW w \in Worker, NEW pc \in WorkerPc, NEW d \in Digest,
           wk[w].pc # "idle", Hold(w, pc, d)
    PROVE  WorkersTyped'
BY DEF TypeOK, WorkersTyped, Hold, WorkerPc

LEMMA IdleWorkerType ==
    ASSUME TypeOK, NEW w \in Worker, wk' = [wk EXCEPT ![w] = IdleWorker]
    PROVE  WorkersTyped'
BY DEF TypeOK, WorkersTyped, IdleWorker, WorkerPc

LEMMA ReleaseType ==
    ASSUME TypeOK, NEW w \in Worker, Release(w)
    PROVE  WorkersTyped' /\ lease' \in [Bucket -> Worker \cup Client \cup {Nobody}]
BY IdleWorkerType DEF TypeOK, Release

LEMMA GotoType ==
    ASSUME TypeOK, NEW c \in Client, NEW pc \in ClientPc, NEW b \in Bucket, NEW todo \in Entry,
           Goto(c, pc, b, todo),
           pc = "queue" => \E k \in Kind : todo[k] # None,
           pc \in {"ensure", "ensureAck", "ensureQueue", "inline", "repair"} => todo["content"] # None
    PROVE  ClientsTyped'
BY DEF TypeOK, ClientsTyped, Goto

LEMMA ReturnType ==
    ASSUME TypeOK, NEW c \in Client, Return(c)
    PROVE  ClientsTyped'
BY NothingFacts DEF TypeOK, ClientsTyped, Return, IdleClient, ClientPc

\* A request handler's operation, step or failure.
LEMMA ClientTypeStep ==
    ASSUME TypeOK, NEW c \in Client, ClientBegins(c) \/ ClientStep(c) \/ ClientFault(c)
    PROVE  TypeOK'
<1> USE DEF ClientPc
<1>b. cl[c].pc # "idle" => cl[c].b \in Bucket
  BY DEF TypeOK
<1>t. /\ cl[c].todo \in Entry
      /\ \A k \in Kind : cl[c].todo[k] # None => cl[c].todo[k] \in Digest /\ KindOf(cl[c].todo[k]) = k
  BY DEF TypeOK, Entry
<1>k. "content" \in Kind /\ "meaning" \in Kind
  BY DEF Kind
<1>w. WorkersTyped /\ ClientsTyped
  BY DEF TypeOK, WorkersTyped, ClientsTyped
<1>1. ASSUME NEW b \in Bucket, NEW body \in Body, NEW meaning \in Meaning, Create(c, b, body, meaning)
      PROVE  TypeOK'
  <2> DEFINE v == [status |-> "live", body |-> body, meaning |-> meaning]
  <2>1. v \in [status : Status, body : Body \cup {Empty}, meaning : Meaning]
    BY DEF Status
  <2>2. vault' = [vault EXCEPT ![b] = v] /\ Goto(c, "queue", b, Captured(v, TRUE, meaning # NoMeaning))
    BY <1>1 DEF Create
  <2>3. /\ Captured(v, TRUE, meaning # NoMeaning) \in Entry
        /\ \E k \in Kind : Captured(v, TRUE, meaning # NoMeaning)[k] # None
    BY <2>1, CapturedFacts
  <2>4. ClientsTyped'
    BY <2>2, <2>3, GotoType
  <2> QED BY <1>1, <2>1, <2>2, <2>4 DEF TypeOK, Create, ClientsTyped
<1>2. ASSUME NEW b \in Bucket, NEW v, NEW content \in BOOLEAN, NEW meaning \in BOOLEAN,
             v \in [status : Status, body : Body \cup {Empty}, meaning : Meaning],
             Update(c, b, v, content, meaning)
      PROVE  TypeOK'
  <2>1. vault' = [vault EXCEPT ![b] = v] /\ Goto(c, "queue", b, Captured(v, content, meaning))
    BY <1>2 DEF Update
  <2>2. /\ Captured(v, content, meaning) \in Entry
        /\ \E k \in Kind : Captured(v, content, meaning)[k] # None
    BY <1>2, CapturedFacts DEF Update
  <2>3. ClientsTyped'
    BY <2>1, <2>2, GotoType
  <2> QED BY <1>2, <2>1, <2>3 DEF TypeOK, Update, ClientsTyped
<1>3. ASSUME NEW b \in Bucket, Restore(c, b)
      PROVE  TypeOK'
  <2> DEFINE v == [vault[b] EXCEPT !.status = "live"]
  <2>1. v \in [status : Status, body : Body \cup {Empty}, meaning : Meaning]
    BY DEF Status, TypeOK
  <2>2. vault' = [vault EXCEPT ![b] = v] /\ Goto(c, "queue", b, Captured(v, TRUE, v.meaning # NoMeaning))
    BY <1>3 DEF Restore
  <2>3. /\ Captured(v, TRUE, v.meaning # NoMeaning) \in Entry
        /\ \E k \in Kind : Captured(v, TRUE, v.meaning # NoMeaning)[k] # None
    BY <2>1, CapturedFacts
  <2>4. ClientsTyped'
    BY <2>2, <2>3, GotoType
  <2> QED BY <1>3, <2>1, <2>2, <2>4 DEF TypeOK, Restore, ClientsTyped
<1>4. ASSUME NEW b \in Bucket, Archive(c, b) \/ Activate(c, b)
      PROVE  TypeOK'
  <2>1. CASE Archive(c, b)
    <3>1. vault' \in [Bucket -> [status : Status, body : Body \cup {Empty}, meaning : Meaning]]
      <4>1. [vault[b] EXCEPT !.status = "archived"] \in [status : Status, body : Body \cup {Empty}, meaning : Meaning]
        <5>1. vault[b] \in [status : Status, body : Body \cup {Empty}, meaning : Meaning]
          BY DEF TypeOK
        <5>2. "archived" \in Status
          BY DEF Status
        <5> QED BY <5>1, <5>2
      <4>2. vault' = [vault EXCEPT ![b] = [vault[b] EXCEPT !.status = "archived"]]
        BY <2>1 DEF Archive
      <4> QED BY <4>1, <4>2 DEF TypeOK
    <3> QED BY <2>1, <3>1 DEF TypeOK, Archive
  <2>2. CASE Activate(c, b)
    <3>1. vault' \in [Bucket -> [status : Status, body : Body \cup {Empty}, meaning : Meaning]]
      <4>1. [vault[b] EXCEPT !.status = "live"] \in [status : Status, body : Body \cup {Empty}, meaning : Meaning]
        BY DEF TypeOK, Status
      <4> QED BY <2>2, <4>1 DEF TypeOK, Activate
    <3> QED BY <2>2, <3>1 DEF TypeOK, Activate
  <2> QED BY <1>4, <2>1, <2>2
<1>5. ASSUME NEW b \in Bucket, Delete(c, b)
      PROVE  TypeOK'
  <2>1. vault' \in [Bucket -> [status : Status, body : Body \cup {Empty}, meaning : Meaning]]
    BY <1>5 DEF TypeOK, Delete, Status
  <2>2. ClientsTyped'
    BY <1>5, GotoType, NothingFacts DEF Delete
  <2> QED BY <1>5, <2>1, <2>2 DEF TypeOK, Delete, ClientsTyped
<1>6. ASSUME NEW b \in Bucket, Ensure(c, b) \/ Repair(c, b)
      PROVE  TypeOK'
  <2> DEFINE d(f) == <<f, vault[b].body>>
             todo(f) == [Nothing EXCEPT !["content"] = d(f)]
  <2>1. ASSUME NEW f \in {"body", "hist"}
        PROVE  todo(f) \in Entry /\ todo(f)["content"] # None
    <3>1. d(f) \in ContentDigest
      BY DEF TypeOK, ContentDigest
    <3>2. d(f) \in Digest /\ KindOf(d(f)) = "content" /\ d(f) # None
      BY <3>1, DigestFacts
    <3> QED BY <1>k, <3>2, NothingFacts, EntryUpdate
  <2>2. ClientsTyped'
    <3>1. CASE Ensure(c, b)
      BY <2>1, <3>1, GotoType DEF Ensure
    <3>2. CASE Repair(c, b)
      BY <2>1, <3>2, GotoType DEF Repair
    <3> QED BY <1>6, <3>1, <3>2
  <2> QED BY <1>6, <2>2 DEF TypeOK, Ensure, Repair, ClientsTyped
<1>7. CASE Queue(c)
  <2> DEFINE b == cl[c].b
             k == IF cl[c].todo["content"] # None THEN "content" ELSE "meaning"
             rest == [cl[c].todo EXCEPT ![k] = None]
  <2>1. b \in Bucket /\ k \in Kind /\ cl[c].todo[k] # None
    BY <1>7, <1>k DEF Queue, TypeOK, Kind
  <2>2. cl[c].todo[k] \in Digest /\ Enqueue(b, cl[c].todo[k])
    BY <1>7, <1>t, <2>1 DEF Queue
  <2>3. box' \in [Bucket -> Entry] /\ late' \in SUBSET (Bucket \X Kind)
    BY <2>1, <2>2, EnqueueType
  <2>4. rest \in Entry
    BY <1>t, <2>1, EntryUpdate
  <2>5. rest # Nothing => \E j \in Kind : rest[j] # None
    BY <2>4 DEF Entry, Nothing
  <2>6. ClientsTyped'
    <3>1. CASE rest = Nothing
      BY <1>7, <3>1, ReturnType DEF Queue
    <3>2. CASE rest # Nothing
      BY <1>7, <2>1, <2>4, <2>5, <3>2, GotoType DEF Queue
    <3> QED BY <3>1, <3>2
  <2> QED BY <1>7, <2>3, <2>6 DEF TypeOK, Queue, ClientsTyped
<1>8. CASE QueueFails(c) \/ DiscardTimeout(c) \/ DiscardIndexFails(c)
  <2>1. ClientsTyped' /\ cl[c].b \in Bucket
    BY <1>8, <1>b, ReturnType DEF QueueFails, DiscardTimeout, DiscardIndexFails
  <2> QED
    BY <1>8, <2>1, FaultsAssumption
    DEF TypeOK, QueueFails, DiscardTimeout, DiscardIndexFails, ClientsTyped
<1>9. CASE DiscardTurn(c)
  <2>1. ClientsTyped'
    BY <1>9, <1>b, GotoType, NothingFacts DEF DiscardTurn
  <2> QED BY <1>9, <2>1 DEF TypeOK, DiscardTurn, ClientsTyped
<1>10. CASE DiscardRead(c)
  <2>1. ClientsTyped'
    BY <1>10, <1>b, GotoType, ReturnType, NothingFacts DEF DiscardRead
  <2> QED BY <1>10, <2>1 DEF TypeOK, DiscardRead, ClientsTyped
<1>11. CASE DiscardItem(c)
  <2>1. ClientsTyped'
    BY <1>11, <1>b, GotoType, NothingFacts DEF DiscardItem
  <2>2. box' \in [Bucket -> Entry] /\ late' \in SUBSET (Bucket \X Kind)
    BY <1>11, <1>b, DiscardType DEF DiscardItem
  <2> QED BY <1>11, <2>1, <2>2 DEF TypeOK, DiscardItem, ClientsTyped
<1>12. CASE DiscardIndex(c)
  <2>1. ClientsTyped'
    BY <1>12, ReturnType DEF DiscardIndex
  <2> QED BY <1>12, <2>1, NothingFacts DEF TypeOK, DiscardIndex, ClientsTyped
<1>13. CASE EnsureRead(c)
  <2>1. cl[c].todo["content"] # None
    BY <1>13 DEF EnsureRead, TypeOK
  <2>2. ClientsTyped'
    BY <1>13, <1>b, <1>t, <2>1, GotoType DEF EnsureRead
  <2> QED BY <1>13, <2>2 DEF TypeOK, EnsureRead, ClientsTyped
<1>14. CASE EnsureAck(c) \/ EnsureQueue(c) \/ EnsurePending(c)
  <2>1. cl[c].b \in Bucket /\ cl[c].todo["content"] \in Digest
    BY <1>14, <1>b, <1>t, <1>k DEF EnsureAck, EnsureQueue, EnsurePending, TypeOK
  <2>2. box' \in [Bucket -> Entry] /\ late' \in SUBSET (Bucket \X Kind)
    BY <1>14, <2>1, EnqueueType, CompleteType DEF EnsureAck, EnsureQueue, EnsurePending, TypeOK
  <2>3. ClientsTyped'
    BY <1>14, ReturnType DEF EnsureAck, EnsureQueue, EnsurePending
  <2> QED BY <1>14, <2>2, <2>3 DEF TypeOK, EnsureAck, EnsureQueue, EnsurePending, ClientsTyped
<1>15. CASE EnsureQueueFails(c)
  <2>1. cl[c].todo["content"] # None
    BY <1>15 DEF EnsureQueueFails, TypeOK
  <2>2. ClientsTyped'
    BY <1>15, <1>b, <1>t, <2>1, GotoType DEF EnsureQueueFails
  <2> QED BY <1>15, <1>b, <2>2, FaultsAssumption DEF TypeOK, EnsureQueueFails, ClientsTyped
<1>16. CASE InlineStores(c)
  <2>1. cl[c].b \in Bucket /\ cl[c].todo["content"] # None
    BY <1>16, <1>b DEF InlineStores, TypeOK
  <2>2. ClientsTyped'
    BY <1>16, <1>t, <2>1, GotoType DEF InlineStores
  <2>3. index' \in [Bucket -> Entry]
    <3>1. [index[cl[c].b] EXCEPT !["content"] = cl[c].todo["content"]] \in Entry
      BY <1>t, <1>k, <2>1, EntryUpdate DEF TypeOK
    <3> QED BY <1>16, <2>1, <3>1 DEF InlineStores, TypeOK
  <2> QED BY <1>16, <2>2, <2>3 DEF TypeOK, InlineStores, ClientsTyped
<1>17. CASE InlineFails(c)
  <2>1. ClientsTyped'
    BY <1>17, ReturnType DEF InlineFails
  <2> QED BY <1>17, <2>1 DEF TypeOK, InlineFails, ClientsTyped
<1>19. CASE DiscardItemFails(c)
  <2>1. ClientsTyped' /\ cl[c].b \in Bucket
    BY <1>19, <1>b, GotoType, NothingFacts DEF DiscardItemFails
  <2> QED BY <1>19, <2>1, FaultsAssumption DEF TypeOK, DiscardItemFails, ClientsTyped
<1>18. CASE ClientBegins(c)
  <2> PICK b \in Bucket :
        \/ \E body \in Body, meaning \in Meaning : Create(c, b, body, meaning)
        \/ \E body \in Body, meaning \in Meaning, qc, qm \in BOOLEAN :
              Update(c, b, [status |-> "live", body |-> body, meaning |-> meaning], qc, qm)
        \/ Restore(c, b) \/ Archive(c, b) \/ Activate(c, b) \/ Delete(c, b)
        \/ Ensure(c, b) \/ Repair(c, b)
    BY <1>18 DEF ClientBegins
  <2>1. ASSUME NEW body \in Body, NEW meaning \in Meaning
        PROVE  [status |-> "live", body |-> body, meaning |-> meaning]
                  \in [status : Status, body : Body \cup {Empty}, meaning : Meaning]
    BY DEF Status
  <2> QED BY <1>1, <1>2, <1>3, <1>4, <1>5, <1>6, <2>1
<1> QED
  BY <1>7, <1>8, <1>9, <1>10, <1>11, <1>12, <1>13, <1>14, <1>15, <1>16, <1>17, <1>18, <1>19
  DEF ClientStep, ClientFault

\* A worker's pick, step or timeout.
LEMMA WorkerTypeStep ==
    ASSUME TypeOK, NEW w \in Worker,
           WorkerStep(w) \/ WorkerFault(w) \/ (\E b \in Bucket, k \in Kind : Pick(w, b, k))
    PROVE  TypeOK'
<1> USE DEF WorkerPc
<1>b. wk[w].pc # "idle" => wk[w].b \in Bucket /\ wk[w].want \in Digest
  BY DEF TypeOK
<1>k. wk[w].pc # "idle" => KindOf(wk[w].want) \in Kind
  BY <1>b, DigestFacts
<1>1. ASSUME NEW b \in Bucket, NEW k \in Kind, Pick(w, b, k)
      PROVE  TypeOK'
  <2>1. box[b][k] \in Digest
    BY <1>1 DEF Pick, TypeOK, Entry
  <2>2. WorkersTyped'
    BY <1>1, <2>1 DEF Pick, TypeOK, WorkersTyped
  <2> QED BY <1>1, <2>2 DEF TypeOK, Pick, WorkersTyped
<1>2. CASE Enter(w)
  <2>1. WorkersTyped'
    BY <1>2, <1>b, HoldType, IdleWorkerType DEF Enter
  <2>2. lease' \in [Bucket -> Worker \cup Client \cup {Nobody}]
    BY <1>2, <1>b DEF TypeOK, Enter
  <2> QED BY <1>2, <2>1, <2>2 DEF TypeOK, Enter, WorkersTyped
<1>3. CASE TurnTimeout(w)
  <2>1. box' \in [Bucket -> Entry] /\ late' \in SUBSET (Bucket \X Kind)
    BY <1>3, <1>b, PostponeType DEF TurnTimeout
  <2>2. WorkersTyped'
    BY <1>3, IdleWorkerType DEF TurnTimeout
  <2> QED BY <1>3, <2>1, <2>2, FaultsAssumption DEF TypeOK, TurnTimeout, WorkersTyped
<1>4. CASE Read(w)
  <2>1. WorkersTyped'
    BY <1>4, <1>b, RenderFacts, HoldType DEF Read
  <2> QED BY <1>4, <2>1 DEF TypeOK, Read, WorkersTyped
<1>5. CASE DropIndex(w)
  <2>1. WorkersTyped'
    BY <1>5, <1>b, HoldType DEF DropIndex
  <2> QED BY <1>5, <2>1, NothingFacts DEF TypeOK, DropIndex, WorkersTyped
<1>6. CASE DropItem(w)
  <2>1. box' \in [Bucket -> Entry] /\ late' \in SUBSET (Bucket \X Kind)
    BY <1>6, <1>b, DiscardType DEF DropItem
  <2>2. WorkersTyped' /\ lease' \in [Bucket -> Worker \cup Client \cup {Nobody}]
    BY <1>6, ReleaseType DEF DropItem
  <2> QED BY <1>6, <2>1, <2>2 DEF TypeOK, DropItem, WorkersTyped
<1>7. CASE Requeue(w)
  <2>1. box' \in [Bucket -> Entry] /\ late' \in SUBSET (Bucket \X Kind)
    BY <1>7, <1>b, EnqueueType DEF Requeue
  <2>2. WorkersTyped' /\ lease' \in [Bucket -> Worker \cup Client \cup {Nobody}]
    BY <1>7, ReleaseType DEF Requeue
  <2> QED BY <1>7, <2>1, <2>2 DEF TypeOK, Requeue, WorkersTyped
<1>8. CASE Clear(w)
  <2>1. WorkersTyped'
    BY <1>8, <1>b, HoldType DEF Clear
  <2>2. [index[wk[w].b] EXCEPT !["meaning"] = None] \in Entry
    BY <1>8, <1>b, EntryUpdate DEF Clear, TypeOK, Kind
  <2> QED BY <1>8, <1>b, <2>1, <2>2 DEF TypeOK, Clear, WorkersTyped
<1>9. CASE Store(w)
  <2>1. WorkersTyped'
    BY <1>9, <1>b, HoldType DEF Store
  <2>2. [index[wk[w].b] EXCEPT ![KindOf(wk[w].want)] = wk[w].want] \in Entry
    BY <1>9, <1>b, <1>k, EntryUpdate DEF Store, TypeOK
  <2> QED BY <1>9, <1>b, <2>1, <2>2 DEF TypeOK, Store, WorkersTyped
<1>10. CASE Fail(w)
  <2>1. box' \in [Bucket -> Entry] /\ late' \in SUBSET (Bucket \X Kind)
    BY <1>10, <1>b, PostponeType DEF Fail
  <2>2. WorkersTyped' /\ lease' \in [Bucket -> Worker \cup Client \cup {Nobody}]
    BY <1>10, ReleaseType DEF Fail
  <2> QED BY <1>10, <2>1, <2>2 DEF TypeOK, Fail, WorkersTyped
<1>11. CASE Verify(w)
  <2>1. WorkersTyped'
    BY <1>11, <1>b, RenderFacts, HoldType DEF Verify
  <2> QED BY <1>11, <2>1 DEF TypeOK, Verify, WorkersTyped
<1>12. CASE Ack(w)
  <2>1. box' \in [Bucket -> Entry] /\ late' \in SUBSET (Bucket \X Kind)
    BY <1>12, <1>b, CompleteType DEF Ack
  <2>2. WorkersTyped' /\ lease' \in [Bucket -> Worker \cup Client \cup {Nobody}]
    BY <1>12, ReleaseType DEF Ack
  <2> QED BY <1>12, <2>1, <2>2 DEF TypeOK, Ack, WorkersTyped
<1>13. CASE DropIndexFails(w)
  <2>1. WorkersTyped' /\ wk[w].b \in Bucket
    BY <1>13, <1>b, HoldType DEF DropIndexFails
  <2> QED BY <1>13, <2>1, FaultsAssumption DEF TypeOK, DropIndexFails, WorkersTyped
<1>14. CASE OutcomeLost(w)
  <2>1. /\ WorkersTyped' /\ wk[w].b \in Bucket
        /\ lease' \in [Bucket -> Worker \cup Client \cup {Nobody}]
    BY <1>14, <1>b, ReleaseType DEF OutcomeLost
  <2> QED BY <1>14, <2>1, FaultsAssumption DEF TypeOK, OutcomeLost, WorkersTyped
<1> QED
  BY <1>1, <1>2, <1>3, <1>4, <1>5, <1>6, <1>7, <1>8, <1>9, <1>10, <1>11, <1>12, <1>13, <1>14
  DEF WorkerStep, WorkerFault

\* Reconcile, time, operators and crashes.
LEMMA OtherTypeStep ==
    ASSUME TypeOK,
           \/ Reconcile \/ ReconcileGivesUp \/ RetryNow \/ Start \/ Crash
           \/ \E b \in Bucket, k \in Kind : BecomesDue(b, k)
    PROVE  TypeOK'
<1> USE DEF RecPc
<1>1. ASSUME NEW archives \in BOOLEAN, ListBuckets(archives)
      PROVE  TypeOK'
  <2>1. \A b \in Bucket : Content(b) \in ContentDigest
    BY DEF TypeOK, Content, ContentDigest
  <2>2. Known(archives) \subseteq Bucket
    BY DEF Known
  <2> QED BY <1>1, <2>1, <2>2 DEF TypeOK, ListBuckets, RecStep, RecUnchanged
<1>2. CASE Candidates \/ Confirm
  <2>1. rec' \in [pc : RecPc, seen : SUBSET (Bucket \X ContentDigest)]
    BY <1>2 DEF TypeOK, Candidates, Confirm, RecStep
  <2> QED BY <1>2, <2>1 DEF TypeOK, Candidates, Confirm, RecUnchanged
<1>3. CASE Reread
  <2>1. \A b \in Bucket : Content(b) \in ContentDigest
    BY DEF TypeOK, Content, ContentDigest
  <2>2. Known(TRUE) \subseteq Bucket
    BY DEF Known
  <2>3. rec' \in [pc : RecPc, seen : SUBSET (Bucket \X ContentDigest)]
    <3> DEFINE again == {e[1] : e \in rec.seen} \cap Known(TRUE)
    <3>1. rec' = [pc |-> "confirm", seen |-> {<<b, Content(b)>> : b \in again}]
      BY <1>3 DEF Reread, RecStep
    <3>2. again \subseteq Bucket
      BY <2>2
    <3> HIDE DEF again
    <3> QED BY <2>1, <3>1, <3>2
  <2> QED BY <1>3, <2>3 DEF TypeOK, Reread, RecUnchanged
<1>4. CASE QueueMissing
  <2> DEFINE new == {e \in rec.seen : box[e[1]]["content"] = None}
  <2>1. ASSUME NEW b \in Bucket, \E e \in new : e[1] = b
        PROVE  [box[b] EXCEPT !["content"] = (CHOOSE e \in new : e[1] = b)[2]] \in Entry
    <3>1. (CHOOSE e \in new : e[1] = b) \in rec.seen
      BY <2>1
    <3>2. (CHOOSE e \in new : e[1] = b)[2] \in ContentDigest
      BY <3>1 DEF TypeOK
    <3> QED BY <3>2, DigestFacts, EntryUpdate DEF TypeOK, Kind
  <2>2. box' \in [Bucket -> Entry]
    BY <1>4, <2>1 DEF TypeOK, QueueMissing
  <2> QED BY <1>4, <2>2 DEF TypeOK, QueueMissing, IdleRec, Started, RecUnchanged
<1>5. CASE ReconcileGivesUp
  BY <1>5, FaultsAssumption DEF TypeOK, ReconcileGivesUp, IdleRec, Started
<1>6. CASE RetryNow
  BY <1>6 DEF TypeOK, RetryNow
<1>7. CASE Start
  BY <1>7 DEF TypeOK, Start
<1>8. CASE Crash
  <2>1. WorkersTyped' /\ ClientsTyped'
    BY <1>8, NothingFacts DEF Crash, WorkersTyped, ClientsTyped, IdleWorker, IdleClient, WorkerPc, ClientPc
  <2> QED BY <1>8, <2>1, FaultsAssumption DEF TypeOK, Crash, WorkersTyped, ClientsTyped, IdleRec
<1>9. ASSUME NEW b \in Bucket, NEW k \in Kind, BecomesDue(b, k)
      PROVE  TypeOK'
  BY <1>9 DEF TypeOK, BecomesDue
<1> QED BY <1>1, <1>2, <1>3, <1>4, <1>5, <1>6, <1>7, <1>8, <1>9 DEF Reconcile

LEMMA TypeInit == Init => TypeOK
<1> SUFFICES ASSUME Init PROVE TypeOK
  OBVIOUS
<1>1. WorkersTyped /\ ClientsTyped
  BY NothingFacts DEF Init, WorkersTyped, ClientsTyped, IdleWorker, IdleClient, WorkerPc, ClientPc
<1> QED
  BY <1>1, NothingFacts, MeaningAssumption, FaultsAssumption
  DEF Init, TypeOK, WorkersTyped, ClientsTyped, IdleRec, RecPc, Status

LEMMA TypeStep == TypeOK /\ [Next]_vars => TypeOK'
<1> SUFFICES ASSUME TypeOK, [Next]_vars PROVE TypeOK'
  OBVIOUS
<1>1. CASE UNCHANGED vars
  BY <1>1 DEF vars, TypeOK
<1>2. CASE Next
  BY <1>2, ClientTypeStep, WorkerTypeStep, OtherTypeStep DEF Next
<1> QED BY <1>1, <1>2

\* In every behaviour of every instance - one loop or many, any faults - the
\* stores, leases and actors of the write-behind path keep their types; in
\* particular the body transactions of the outbox never write a meaning digest.
THEOREM TypeCorrect == Spec => []TypeOK
BY TypeInit, TypeStep, PTL DEF Spec

-----------------------------------------------------------------------------
(* The inductive invariant behind NoLostWork, for actors of one event loop *)

\* At most one actor is past its last await.
OneRuns ==
    /\ \A w \in Worker : WorkerYields(w) \/ WorkerMayRun(w)
    /\ \A c \in Client : ClientYields(c) \/ ClientMayRun(c)
    /\ RecYields \/ RecMayRun

\* What a worker knows about the shared stores at each step of its turn.
WorkerKnows(w) ==
    LET b == wk[w].b
        d == wk[w].want
    IN /\ wk[w].pc \in {"dropIndex", "dropItem"} => Gone(b)
       /\ wk[w].pc = "dropItem" => index[b] = Nothing \/ b \in missed
       /\ wk[w].pc = "requeue" /\ d = <<"body", Empty>> => vault[b].body = Empty
       /\ wk[w].pc = "clear" => d = <<"meaning", NoMeaning>>
       /\ wk[w].pc = "generate" => d # <<"meaning", NoMeaning>>
       /\ wk[w].pc = "verify" =>
             index[b][KindOf(d)] = IF d = <<"meaning", NoMeaning>> THEN None ELSE d
       /\ wk[w].pc = "ack" => IF KindOf(d) = "content" THEN ~StaleBody(b) ELSE ~StaleMeaning(b)

\* What a request handler knows about them.
ClientKnows(c) ==
    LET b == cl[c].b
        d == cl[c].todo["content"]
    IN /\ cl[c].pc \in {"discardItem", "discardIndex"} => Gone(b)
       /\ cl[c].pc = "queue" /\ d # None => d = Content(b)
       /\ cl[c].pc \in {"ensure", "ensureAck", "ensureQueue"} /\ b \notin missed =>
             d = <<"hist", vault[b].body>>
       /\ cl[c].pc = "ensureAck" /\ b \notin missed => index[b]["content"] = d
       /\ cl[c].pc = "inline" => b \in missed

\* A component whose vector is wrong now, or would be once the bucket returns.
Lost(b, k) ==
    IF k = "content" THEN ~Gone(b) /\ StaleBody(b)
                     ELSE StaleMeaning(b) /\ (Gone(b) => vault[b].meaning = NoMeaning)

\* Somebody is about to remove the vectors of b.
Dropping(b) == \/ \E c \in Client : cl[c].pc = "discardIndex" /\ cl[c].b = b
               \/ \E w \in Worker : wk[w].pc = "dropIndex" /\ wk[w].b = b

Covered(b, k) ==
    \/ box[b][k] # None
    \/ Owed(b, k)
    \/ InHand(b, k)
    \/ Dropping(b)
    \/ b \in missed

AbsentBlank == \A b \in Bucket : vault[b].status = "absent" => vault[b].meaning = NoMeaning
WorkKept == \A b \in Bucket, k \in Kind : Lost(b, k) => Covered(b, k)

IInv ==
    /\ TypeOK
    /\ OneRuns
    /\ \A w \in Worker : WorkerKnows(w)
    /\ \A c \in Client : ClientKnows(c)
    /\ AbsentBlank
    /\ WorkKept
-----------------------------------------------------------------------------
(* Frames: what the steps of one actor leave alone *)

WorkerActs(w) == WorkerStep(w) \/ WorkerFault(w) \/ \E b \in Bucket, k \in Kind : Pick(w, b, k)
ClientActs(c) == ClientBegins(c) \/ ClientStep(c) \/ ClientFault(c)
Elsewhere ==
    \/ Reconcile \/ ReconcileGivesUp \/ RetryNow \/ Start \/ Crash
    \/ \E b \in Bucket, k \in Kind : BecomesDue(b, k)

LEMMA WorkerFrame ==
    ASSUME TypeOK, NEW w \in Worker, WorkerActs(w)
    PROVE  /\ WorkerMayRun(w)
           /\ \A x \in Worker \ {w} : wk'[x] = wk[x]
           /\ vault' = vault /\ cl' = cl /\ rec' = rec /\ missed \subseteq missed'
<1>1. wk \in [Worker -> [pc : WorkerPc, b : Bucket \cup {Nobody}, want : Digest \cup {None}]]
  BY DEF TypeOK
<1>2. CASE WorkerStep(w)
  BY <1>1, <1>2
  DEF WorkerStep, Enter, Read, DropIndex, DropItem, Requeue, Clear, Store, Fail, Verify, Ack, Hold, Release
<1>3. CASE WorkerFault(w)
  BY <1>1, <1>3 DEF WorkerFault, TurnTimeout, DropIndexFails, OutcomeLost, Hold, Release
<1>4. ASSUME NEW b \in Bucket, NEW k \in Kind, Pick(w, b, k)
      PROVE  /\ WorkerMayRun(w)
             /\ \A x \in Worker \ {w} : wk'[x] = wk[x]
             /\ vault' = vault /\ cl' = cl /\ rec' = rec /\ missed \subseteq missed'
  BY <1>1, <1>4 DEF Pick
<1> QED BY <1>2, <1>3, <1>4 DEF WorkerActs

LEMMA ClientFrame ==
    ASSUME TypeOK, NEW c \in Client, ClientActs(c)
    PROVE  /\ ClientMayRun(c)
           /\ \A x \in Client \ {c} : cl'[x] = cl[x]
           /\ wk' = wk /\ rec' = rec /\ missed \subseteq missed'
<1>1. cl \in [Client -> [pc : ClientPc, b : Bucket \cup {Nobody}, todo : Entry]]
  BY DEF TypeOK
<1>2. CASE ClientStep(c)
  BY <1>1, <1>2
  DEF ClientStep, Queue, DiscardTurn, DiscardRead, DiscardItem, DiscardIndex, EnsureRead, EnsureAck,
      EnsureQueue, InlineStores, InlineFails, EnsurePending, Goto, Return
<1>3. CASE ClientFault(c)
  BY <1>1, <1>3
  DEF ClientFault, QueueFails, DiscardTimeout, DiscardItemFails, DiscardIndexFails, EnsureQueueFails,
      Goto, Return
<1>4. CASE ClientBegins(c)
  <2>1. /\ ClientMayRun(c) /\ wk' = wk /\ rec' = rec /\ missed' = missed
        /\ \/ cl' = cl
           \/ \E pc, b, todo : Goto(c, pc, b, todo)
    <3> USE DEF Begin
    <3>1. ASSUME NEW b \in Bucket, NEW body \in Body, NEW meaning \in Meaning, Create(c, b, body, meaning)
          PROVE  <2>1!:
      BY <3>1 DEF Create
    <3>2. ASSUME NEW b \in Bucket, NEW v, NEW qc \in BOOLEAN, NEW qm \in BOOLEAN, Update(c, b, v, qc, qm)
          PROVE  <2>1!:
      BY <3>2 DEF Update
    <3>3. ASSUME NEW b \in Bucket,
                 Restore(c, b) \/ Archive(c, b) \/ Activate(c, b) \/ Delete(c, b) \/ Ensure(c, b) \/ Repair(c, b)
          PROVE  <2>1!:
      BY <3>3 DEF Restore, Archive, Activate, Delete, Ensure, Repair
    <3> QED BY <1>4, <3>1, <3>2, <3>3 DEF ClientBegins
  <2> QED BY <1>1, <2>1 DEF Goto
<1> QED BY <1>2, <1>3, <1>4 DEF ClientActs

\* A suspended worker knows nothing about the stores that a step could spoil.
LEMMA SuspendedWorker ==
    ASSUME NEW w \in Worker, WorkerKnows(w), WorkerYields(w), wk'[w] = wk[w]
    PROVE  WorkerKnows(w)'
BY DEF WorkerKnows, WorkerYields

LEMMA SuspendedClient ==
    ASSUME NEW c \in Client, ClientKnows(c), ClientYields(c), cl'[c] = cl[c], missed \subseteq missed'
    PROVE  ClientKnows(c)'
BY DEF ClientKnows, ClientYields

\* A component that a step does not touch stays covered.
LEMMA Untouched ==
    ASSUME WorkKept, NEW b \in Bucket, NEW k \in Kind,
           vault'[b] = vault[b], index'[b][k] = index[b][k],
           box[b][k] # None => box'[b][k] # None,
           Owed(b, k) => Owed(b, k)', InHand(b, k) => InHand(b, k)',
           Dropping(b) => Dropping(b)', missed \subseteq missed'
    PROVE  Lost(b, k)' => Covered(b, k)'
BY DEF WorkKept, Lost, Covered, StaleBody, StaleMeaning, Gone, Kind

-----------------------------------------------------------------------------
(* A worker's step preserves the invariant *)

LEMMA WorkerIInv ==
    ASSUME SingleLoop, IInv, NEW w \in Worker, WorkerActs(w)
    PROVE  IInv'
<1> USE DEF WorkerPc
<1>p. PICK b, d, k : b = wk[w].b /\ d = wk[w].want /\ k = KindOf(d)
  OBVIOUS
<1>t. TypeOK /\ TypeOK'
  BY WorkerTypeStep DEF IInv, WorkerActs
<1>f. /\ WorkerMayRun(w)
      /\ \A x \in Worker \ {w} : wk'[x] = wk[x]
      /\ vault' = vault /\ cl' = cl /\ rec' = rec /\ missed \subseteq missed'
  BY <1>t, WorkerFrame
<1>a. /\ \A x \in Worker \ {w} : WorkerYields(x)
      /\ \A c \in Client : ClientYields(c)
      /\ RecYields
  BY <1>f DEF WorkerMayRun
<1>o. OneRuns'
  BY <1>f, <1>a DEF OneRuns, WorkerMayRun, ClientMayRun, RecMayRun, WorkerYields, ClientYields, RecYields
<1>s. /\ \A x \in Worker \ {w} : WorkerKnows(x)'
      /\ \A c \in Client : ClientKnows(c)'
      /\ AbsentBlank'
  BY <1>f, <1>a, SuspendedWorker, SuspendedClient DEF IInv, AbsentBlank
<1>i. wk[w].pc # "idle" => b \in Bucket /\ d \in Digest /\ k \in Kind
  BY <1>t, <1>p, DigestFacts DEF TypeOK
<1>w. WorkerKnows(w)
  BY DEF IInv
\* Whatever w neither touches nor has in hand stays covered.
<1>u. ASSUME NEW a \in Bucket, NEW j \in Kind,
             index'[a][j] = index[a][j], box[a][j] # None => box'[a][j] # None,
             ~(wk[w].pc \in {"verify", "requeue"} /\ b = a /\ k = j),
             ~(wk[w].pc = "dropIndex" /\ b = a)
      PROVE  Lost(a, j)' => Covered(a, j)'
  <2>1. Owed(a, j) => Owed(a, j)'
    BY <1>f DEF Owed
  <2>2. InHand(a, j) => InHand(a, j)'
    BY <1>f, <1>p, <1>u DEF InHand
  <2>3. Dropping(a) => Dropping(a)'
    BY <1>f, <1>p, <1>u DEF Dropping
  <2> QED BY <1>f, <1>u, <2>1, <2>2, <2>3, Untouched DEF IInv
\* Hence the whole of WorkKept, when a step touches no vector and no item,
\* one component of b at most, or all of b.
<1>v. ASSUME wk[w].pc \notin {"verify", "requeue", "dropIndex"}, index' = index, box' = box
      PROVE  WorkKept'
  <2>1. ASSUME NEW a \in Bucket, NEW j \in Kind PROVE Lost(a, j)' => Covered(a, j)'
    BY <1>u, <1>v
  <2> QED BY <2>1 DEF WorkKept
<1>x. ASSUME wk[w].pc # "dropIndex", Lost(b, k)' => Covered(b, k)',
             \A a \in Bucket, j \in Kind : a # b \/ j # k =>
                index'[a][j] = index[a][j] /\ box'[a][j] = box[a][j]
      PROVE  WorkKept'
  <2>1. ASSUME NEW a \in Bucket, NEW j \in Kind PROVE Lost(a, j)' => Covered(a, j)'
    <3>1. CASE a = b /\ j = k
      BY <1>x, <3>1
    <3>2. CASE a # b \/ j # k
      BY <1>u, <1>x, <3>2
    <3> QED BY <3>1, <3>2
  <2> QED BY <2>1 DEF WorkKept
<1>y. ASSUME \A j \in Kind : Lost(b, j)' => Covered(b, j)',
             \A a \in Bucket \ {b} : index'[a] = index[a] /\ box'[a] = box[a]
      PROVE  WorkKept'
  <2>1. ASSUME NEW a \in Bucket, NEW j \in Kind PROVE Lost(a, j)' => Covered(a, j)'
    <3>1. CASE a = b
      BY <1>y, <3>1
    <3>2. CASE a # b
      BY <1>u, <1>y, <3>2
    <3> QED BY <3>1, <3>2
  <2> QED BY <2>1 DEF WorkKept
<1>z. SUFFICES WorkerKnows(w)' /\ WorkKept'
  BY <1>t, <1>o, <1>s DEF IInv
<1>1. ASSUME NEW a \in Bucket, NEW j \in Kind, Pick(w, a, j)
      PROVE  WorkerKnows(w)' /\ WorkKept'
  <2>1. wk'[w].pc = "turn"
    BY <1>1, <1>t DEF Pick, TypeOK
  <2>2. WorkerKnows(w)'
    BY <2>1 DEF WorkerKnows
  <2> QED BY <1>1, <1>v, <2>2 DEF Pick
<1>2. CASE Enter(w)
  <2>1. wk'[w].pc \in {"idle", "read"}
    BY <1>2, <1>t DEF Enter, Hold, TypeOK, IdleWorker
  <2>2. WorkerKnows(w)'
    BY <2>1 DEF WorkerKnows
  <2> QED BY <1>2, <1>v, <2>2 DEF Enter
<1>3. CASE TurnTimeout(w)
  <2>1. wk'[w].pc = "idle"
    BY <1>3, <1>t DEF TurnTimeout, TypeOK, IdleWorker
  <2>2. WorkerKnows(w)'
    BY <2>1 DEF WorkerKnows
  <2> QED BY <1>3, <1>v, <2>2 DEF TurnTimeout, Postpone
<1>4. CASE Read(w)
  <2>1. /\ wk'[w].b = b
        /\ \/ wk'[w].pc = "dropIndex" /\ Gone(b)
           \/ wk'[w].pc = "ack" /\ wk'[w].want = d /\ KindOf(d) = "content" /\ vault[b].body = Empty
           \/ wk'[w].pc = "requeue" /\ wk'[w].want = Canonical(b, d)
           \/ wk'[w].pc = "clear" /\ wk'[w].want = <<"meaning", NoMeaning>>
           \/ wk'[w].pc = "generate" /\ wk'[w].want # <<"meaning", NoMeaning>>
    BY <1>4, <1>t, <1>p DEF Read, Hold, TypeOK
  <2>2. WorkerKnows(w)'
    BY <1>f, <2>1 DEF WorkerKnows, Canonical, StaleBody, Gone
  <2> QED BY <1>4, <1>v, <2>2 DEF Read
<1>5. CASE DropIndex(w)
  <2>1. /\ wk'[w].pc = "dropItem" /\ wk'[w].b = b /\ wk[w].pc = "dropIndex"
        /\ index' = [index EXCEPT ![b] = Nothing] /\ box' = box
    BY <1>5, <1>t, <1>p DEF DropIndex, Hold, TypeOK
  <2>2. Gone(b) /\ b \in Bucket
    BY <1>i, <1>w, <1>p, <2>1 DEF WorkerKnows
  <2>3. index'[b] = Nothing /\ \A a \in Bucket \ {b} : index'[a] = index[a]
    BY <1>t, <2>1, <2>2 DEF TypeOK
  <2>4. WorkerKnows(w)'
    BY <1>f, <2>1, <2>2, <2>3 DEF WorkerKnows, Gone
  <2>5. ASSUME NEW j \in Kind
        PROVE  ~Lost(b, j)'
    BY <1>f, <2>2, <2>3, NothingFacts DEF Lost, Gone, StaleMeaning, Kind
  <2> QED BY <1>y, <2>1, <2>3, <2>4, <2>5
<1>6. CASE DropItem(w)
  <2>1. wk'[w].pc = "idle" /\ wk[w].pc = "dropItem" /\ box' = [box EXCEPT ![b] = Nothing] /\ index' = index
    BY <1>6, <1>t, <1>p DEF DropItem, Discard, Release, IdleWorker, TypeOK
  <2>2. Gone(b) /\ b \in Bucket /\ (index[b] = Nothing \/ b \in missed)
    BY <1>i, <1>w, <1>p, <2>1 DEF WorkerKnows
  <2>3. \A a \in Bucket \ {b} : box'[a] = box[a]
    BY <1>t, <2>1 DEF TypeOK
  <2>4. WorkerKnows(w)'
    BY <2>1 DEF WorkerKnows
  <2>5. ASSUME NEW j \in Kind
        PROVE  Lost(b, j)' => Covered(b, j)'
    <3>1. CASE index[b] = Nothing
      BY <1>f, <2>1, <2>2, <3>1, NothingFacts DEF Lost, Gone, StaleMeaning, Kind
    <3>2. CASE b \in missed
      BY <1>f, <3>2 DEF Covered
    <3> QED BY <2>2, <3>1, <3>2
  <2> QED BY <1>y, <2>1, <2>3, <2>4, <2>5
<1>7. CASE Requeue(w)
  <2>1. /\ wk'[w].pc = "idle" /\ wk[w].pc = "requeue" /\ index' = index
        /\ box' = [box EXCEPT ![b][k] = IF d = <<"body", Empty>> THEN None ELSE d]
    BY <1>7, <1>t, <1>p DEF Requeue, Enqueue, Release, IdleWorker, TypeOK
  <2>2. b \in Bucket /\ d \in Digest /\ k \in Kind
    BY <1>i, <2>1
  <2>3. /\ box'[b][k] = IF d = <<"body", Empty>> THEN None ELSE d
        /\ \A a \in Bucket, j \in Kind : a # b \/ j # k => box'[a][j] = box[a][j]
    BY <1>t, <2>1, <2>2 DEF TypeOK, Entry
  <2>4. WorkerKnows(w)'
    BY <2>1 DEF WorkerKnows
  <2>5. Lost(b, k)' => Covered(b, k)'
    <3>1. CASE d = <<"body", Empty>>
      <4>1. k = "content" /\ vault[b].body = Empty
        BY <1>w, <1>p, <2>1, <3>1 DEF WorkerKnows, KindOf
      <4> QED BY <1>f, <4>1 DEF Lost, StaleBody
    <3>2. CASE d # <<"body", Empty>>
      BY <2>2, <2>3, <3>2, DigestFacts DEF Covered
    <3> QED BY <3>1, <3>2
  <2> QED BY <1>x, <2>1, <2>3, <2>4, <2>5
<1>8. CASE Clear(w) \/ Store(w)
  <2>1. /\ wk[w].pc \in {"clear", "generate"} /\ box' = box
        /\ wk'[w] = [pc |-> "verify", b |-> b, want |-> d]
        /\ b \in Bucket /\ d \in Digest /\ k \in Kind
    BY <1>8, <1>i, <1>t, <1>p DEF Clear, Store, Hold, TypeOK
  <2>2. index' = [index EXCEPT ![b][k] = IF d = <<"meaning", NoMeaning>> THEN None ELSE d]
    <3>1. CASE Clear(w)
      <4>1. d = <<"meaning", NoMeaning>> /\ k = "meaning"
        BY <1>w, <1>p, <3>1 DEF Clear, WorkerKnows, KindOf
      <4> QED BY <1>p, <3>1, <4>1 DEF Clear
    <3>2. CASE Store(w)
      <4>1. d # <<"meaning", NoMeaning>>
        BY <1>w, <1>p, <3>2 DEF Store, WorkerKnows
      <4> QED BY <1>p, <3>2, <4>1 DEF Store
    <3> QED BY <1>8, <3>1, <3>2
  <2>3. /\ index'[b][k] = IF d = <<"meaning", NoMeaning>> THEN None ELSE d
        /\ \A a \in Bucket, j \in Kind : a # b \/ j # k => index'[a][j] = index[a][j]
    BY <1>t, <2>1, <2>2 DEF TypeOK, Entry
  <2>4. WorkerKnows(w)'
    BY <1>p, <2>1, <2>3 DEF WorkerKnows
  <2>5. InHand(b, k)'
    BY <1>p, <2>1 DEF InHand
  <2>6. Lost(b, k)' => Covered(b, k)'
    BY <2>5 DEF Covered
  <2> QED BY <1>x, <2>1, <2>3, <2>4, <2>6
<1>9. CASE Fail(w)
  <2>1. wk'[w].pc = "idle" /\ wk[w].pc = "generate"
    BY <1>9, <1>t DEF Fail, Release, TypeOK, IdleWorker
  <2>2. WorkerKnows(w)'
    BY <2>1 DEF WorkerKnows
  <2> QED BY <1>9, <1>v, <2>2 DEF Fail, Postpone
<1>10. CASE Verify(w)
  <2> DEFINE next == IF Gone(b) THEN "dropIndex" ELSE IF d = Rerender(b, d) THEN "ack" ELSE "requeue"
             held == IF Gone(b) THEN d ELSE Rerender(b, d)
  <2>1. /\ wk[w].pc = "verify" /\ box' = box /\ index' = index
        /\ wk'[w] = [pc |-> next, b |-> b, want |-> held]
        /\ b \in Bucket /\ d \in Digest /\ k \in Kind
    BY <1>10, <1>i, <1>t, <1>p DEF Verify, Hold, TypeOK
  <2>2. KindOf(held) = k
    BY <1>t, <1>p, <2>1, RenderFacts
  <2>3. index[b][k] = IF d = <<"meaning", NoMeaning>> THEN None ELSE d
    BY <1>w, <1>p, <2>1 DEF WorkerKnows
  <2>4. next = "ack" => IF k = "content" THEN ~StaleBody(b) ELSE ~StaleMeaning(b)
    <3>1. SUFFICES ASSUME d = Rerender(b, d)
                   PROVE  IF k = "content" THEN ~StaleBody(b) ELSE ~StaleMeaning(b)
      OBVIOUS
    <3>2. CASE d[1] = "meaning"
      <4>1. k = "meaning" /\ d = <<"meaning", vault[b].meaning>>
        BY <1>p, <3>1, <3>2 DEF KindOf, Rerender
      <4> QED BY <2>3, <4>1 DEF StaleMeaning
    <3>3. CASE d[1] # "meaning"
      <4>1. k = "content" /\ d = <<d[1], vault[b].body>> /\ d[1] \in {"body", "hist"}
        BY <1>p, <2>1, <3>1, <3>3 DEF KindOf, Rerender, Digest, ContentDigest, MeaningDigest
      <4> QED BY <2>3, <4>1 DEF StaleBody
    <3> QED BY <3>2, <3>3
  <2>5. WorkerKnows(w)'
    <3>1. next = "requeue" /\ held = <<"body", Empty>> => vault[b].body = Empty
      BY DEF Rerender
    <3> HIDE DEF held
    <3> QED BY <1>f, <1>p, <2>1, <2>2, <2>4, <3>1 DEF WorkerKnows, StaleBody, StaleMeaning, Gone
  <2>6. Lost(b, k)' => Covered(b, k)'
    <3>1. CASE next = "dropIndex"
      BY <2>1, <3>1 DEF Covered, Dropping
    <3>2. CASE next = "requeue"
      BY <2>1, <2>2, <3>2 DEF Covered, InHand
    <3>3. CASE next = "ack"
      BY <1>f, <2>1, <2>4, <3>3 DEF Lost, StaleBody, StaleMeaning
    <3> QED BY <3>1, <3>2, <3>3
  <2> QED BY <1>x, <2>1, <2>5, <2>6
<1>11. CASE Ack(w)
  <2>1. /\ wk[w].pc = "ack" /\ wk'[w].pc = "idle" /\ index' = index /\ Complete(b, d)
        /\ b \in Bucket /\ d \in Digest /\ k \in Kind
    BY <1>11, <1>i, <1>t, <1>p DEF Ack, Release, IdleWorker, TypeOK
  <2>2. \A a \in Bucket, j \in Kind : a # b \/ j # k => box'[a][j] = box[a][j]
    BY <1>t, <1>p, <2>1 DEF TypeOK, Entry, Complete
  <2>3. WorkerKnows(w)'
    BY <2>1 DEF WorkerKnows
  <2>4. ~Lost(b, k)'
    BY <1>f, <1>w, <1>p, <2>1 DEF WorkerKnows, Lost, StaleBody, StaleMeaning, Gone
  <2> QED BY <1>x, <2>1, <2>2, <2>3, <2>4
<1>12. CASE DropIndexFails(w) \/ OutcomeLost(w)
  <2>1. /\ wk[w].pc # "idle" /\ b \in missed' /\ index' = index /\ box' = box
        /\ \/ wk'[w].pc = "idle"
           \/ wk[w].pc = "dropIndex" /\ wk'[w].pc = "dropItem" /\ wk'[w].b = b
    BY <1>12, <1>p, <1>t DEF DropIndexFails, OutcomeLost, Hold, Release, IdleWorker, TypeOK
  <2>2. WorkerKnows(w)'
    BY <1>f, <1>w, <1>p, <2>1 DEF WorkerKnows, Gone
  <2> QED BY <1>y, <2>1, <2>2 DEF Covered
<1> QED
  BY <1>1, <1>2, <1>3, <1>4, <1>5, <1>6, <1>7, <1>8, <1>9, <1>10, <1>11, <1>12
  DEF WorkerActs, WorkerStep, WorkerFault
-----------------------------------------------------------------------------
(* A request handler's step preserves the invariant *)

LEMMA ClientIInv ==
    ASSUME SingleLoop, IInv, NEW c \in Client, ClientActs(c)
    PROVE  IInv'
<1> USE DEF ClientPc
<1>p. PICK b, d : b = cl[c].b /\ d = cl[c].todo["content"]
  OBVIOUS
<1>t. TypeOK /\ TypeOK'
  BY ClientTypeStep DEF IInv, ClientActs
<1>f. /\ ClientMayRun(c)
      /\ \A x \in Client \ {c} : cl'[x] = cl[x]
      /\ wk' = wk /\ rec' = rec /\ missed \subseteq missed'
  BY <1>t, ClientFrame
<1>a. /\ \A x \in Client \ {c} : ClientYields(x)
      /\ \A w \in Worker : WorkerYields(w)
      /\ RecYields
  BY <1>f DEF ClientMayRun
<1>o. OneRuns'
  BY <1>f, <1>a DEF OneRuns, WorkerMayRun, ClientMayRun, RecMayRun, WorkerYields, ClientYields, RecYields
<1>s. /\ \A x \in Client \ {c} : ClientKnows(x)'
      /\ \A w \in Worker : WorkerKnows(w)'
  BY <1>f, <1>a, SuspendedWorker, SuspendedClient DEF IInv
<1>z. SUFFICES ClientKnows(c)' /\ AbsentBlank' /\ WorkKept'
  BY <1>t, <1>o, <1>s DEF IInv
<1>i. /\ cl[c].pc # "idle" => b \in Bucket
      /\ \A k \in Kind : cl[c].todo[k] # None => cl[c].todo[k] \in Digest /\ KindOf(cl[c].todo[k]) = k
      /\ "content" \in Kind /\ "meaning" \in Kind
  BY <1>t, <1>p DEF TypeOK, Entry, Kind
<1>c. ClientKnows(c) /\ AbsentBlank /\ WorkKept
  BY DEF IInv
<1>h. \A a, j : ~InHand(a, j)
  BY <1>a DEF InHand, WorkerYields
\* Whatever c neither touches nor owes stays covered.
<1>u. ASSUME NEW a \in Bucket, NEW j \in Kind,
             vault'[a] = vault[a], index'[a][j] = index[a][j],
             box[a][j] # None => box'[a][j] # None,
             ~(cl[c].pc = "queue" /\ b = a /\ cl[c].todo[j] # None),
             ~(cl[c].pc = "discardIndex" /\ b = a)
      PROVE  Lost(a, j)' => Covered(a, j)'
  <2>1. Owed(a, j) => Owed(a, j)'
    BY <1>f, <1>p, <1>u DEF Owed
  <2>2. Dropping(a) => Dropping(a)'
    BY <1>f, <1>p, <1>u DEF Dropping
  <2> QED BY <1>f, <1>h, <1>c, <1>u, <2>1, <2>2, Untouched
\* A step that touches no item, vector or file.
<1>v. ASSUME cl[c].pc \notin {"queue", "discardIndex"}, UNCHANGED <<vault, index, box>>
      PROVE  AbsentBlank' /\ WorkKept'
  <2>1. ASSUME NEW a \in Bucket, NEW j \in Kind PROVE Lost(a, j)' => Covered(a, j)'
    BY <1>u, <1>v
  <2> QED BY <1>c, <1>v, <2>1 DEF WorkKept, AbsentBlank
\* A step that touches items and vectors of b only.
<1>x. ASSUME vault' = vault, \A j \in Kind : Lost(b, j)' => Covered(b, j)',
             \A a \in Bucket \ {b} : index'[a] = index[a] /\ box'[a] = box[a]
      PROVE  AbsentBlank' /\ WorkKept'
  <2>1. ASSUME NEW a \in Bucket, NEW j \in Kind PROVE Lost(a, j)' => Covered(a, j)'
    <3>1. CASE a = b
      BY <1>x, <3>1
    <3>2. CASE a # b
      BY <1>u, <1>x, <3>2
    <3> QED BY <3>1, <3>2
  <2> QED BY <1>c, <1>x, <2>1 DEF WorkKept, AbsentBlank
\* A commit: what was covered before was so by an item or by a fault on record.
<1>m. ASSUME NEW a \in Bucket, NEW v, vault' = [vault EXCEPT ![a] = v], UNCHANGED <<index, box, missed>>,
             cl[c].pc = "idle", \A j \in Kind : Lost(a, j)' => Lost(a, j) \/ Owed(a, j)'
      PROVE  WorkKept'
  <2>1. ASSUME NEW e \in Bucket, NEW j \in Kind PROVE Lost(e, j)' => Covered(e, j)'
    <3>1. CASE e = a
      <4>1. Lost(a, j) => box[a][j] # None \/ a \in missed
        BY <1>a, <1>c, <1>h, <1>m DEF WorkKept, Covered, Owed, Dropping, ClientYields, WorkerYields
      <4> QED BY <1>m, <3>1, <4>1 DEF Covered
    <3>2. CASE e # a
      <4>1. vault'[e] = vault[e]
        BY <1>t, <1>m, <3>2 DEF TypeOK
      <4> QED BY <1>u, <1>m, <4>1
    <3> QED BY <3>1, <3>2
  <2> QED BY <2>1 DEF WorkKept
\* What a commit with captured digests owes.
<1>q. ASSUME NEW a \in Bucket, NEW v \in [status : Status, body : Body \cup {Empty}, meaning : Meaning],
             NEW p \in BOOLEAN, NEW q \in BOOLEAN, p \/ q,
             vault' = [vault EXCEPT ![a] = v], Goto(c, "queue", a, Captured(v, p, q))
      PROVE  /\ ClientKnows(c)' /\ vault'[a] = v
             /\ p => Owed(a, "content")'
             /\ q => Owed(a, "meaning")'
  <2>1. vault'[a] = v
    BY <1>t, <1>q DEF TypeOK
  <2>2. cl'[c] = [pc |-> "queue", b |-> a, todo |-> Captured(v, p, q)]
    BY <1>t, <1>q DEF Goto, TypeOK
  <2>3. <<"body", v.body>> # None /\ <<"meaning", v.meaning>> # None
    BY <1>q, NoneAssumption
  <2>4. ClientKnows(c)'
    BY <1>q, <2>1, <2>2, CapturedFacts DEF ClientKnows, Content
  <2>5. /\ p => cl'[c].todo["content"] # None
        /\ q => cl'[c].todo["meaning"] # None
    <3>1. /\ p => Captured(v, p, q)["content"] # None
          /\ q => Captured(v, p, q)["meaning"] # None
      BY <1>q, <2>3, CapturedFacts
    <3> QED BY <2>2, <3>1
  <2> QED BY <2>1, <2>2, <2>4, <2>5 DEF Owed
<1>1. ASSUME NEW a \in Bucket, NEW body \in Body, NEW meaning \in Meaning, Create(c, a, body, meaning)
      PROVE  ClientKnows(c)' /\ AbsentBlank' /\ WorkKept'
  <2> DEFINE v == [status |-> "live", body |-> body, meaning |-> meaning]
  <2>1. v \in [status : Status, body : Body \cup {Empty}, meaning : Meaning]
    BY DEF Status
  <2>2. /\ vault' = [vault EXCEPT ![a] = v] /\ vault[a].status = "absent" /\ cl[c].pc = "idle"
        /\ Goto(c, "queue", a, Captured(v, TRUE, meaning # NoMeaning)) /\ UNCHANGED <<index, box, missed>>
    BY <1>1 DEF Create, Begin
  <2>3. /\ ClientKnows(c)' /\ vault'[a] = v
        /\ Owed(a, "content")'
        /\ meaning # NoMeaning => Owed(a, "meaning")'
    BY <1>q, <2>1, <2>2
  <2>4. AbsentBlank'
    BY <1>t, <1>c, <2>2, <2>3 DEF AbsentBlank, TypeOK
  <2>5. ASSUME NEW j \in Kind, Lost(a, j)'
        PROVE  Lost(a, j) \/ Owed(a, j)'
    <3>1. CASE j = "meaning" /\ meaning = NoMeaning
      BY <1>c, <2>2, <2>3, <2>5, <3>1 DEF Lost, StaleMeaning, AbsentBlank, Gone
    <3> QED BY <2>3, <3>1 DEF Kind
  <2> QED BY <1>m, <2>2, <2>3, <2>4, <2>5
<1>2. ASSUME NEW a \in Bucket, NEW v, NEW content \in BOOLEAN, NEW meaning \in BOOLEAN,
             v \in [status : Status, body : Body \cup {Empty}, meaning : Meaning],
             Update(c, a, v, content, meaning)
      PROVE  ClientKnows(c)' /\ AbsentBlank' /\ WorkKept'
  <2>1. /\ vault' = [vault EXCEPT ![a] = v] /\ vault[a].status = "live" /\ v.status = "live"
        /\ cl[c].pc = "idle" /\ (content \/ meaning)
        /\ ~content => v.body = vault[a].body
        /\ ~meaning => v.meaning = vault[a].meaning
        /\ Goto(c, "queue", a, Captured(v, content, meaning)) /\ UNCHANGED <<index, box, missed>>
    BY <1>2 DEF Update, Begin
  <2>2. /\ ClientKnows(c)' /\ vault'[a] = v
        /\ content => Owed(a, "content")'
        /\ meaning => Owed(a, "meaning")'
    BY <1>2, <1>q, <2>1
  <2>3. AbsentBlank'
    BY <1>t, <1>c, <2>1, <2>2 DEF AbsentBlank, TypeOK
  <2>4. ASSUME NEW j \in Kind, Lost(a, j)'
        PROVE  Lost(a, j) \/ Owed(a, j)'
    BY <2>1, <2>2, <2>4 DEF Lost, StaleBody, StaleMeaning, Gone, Kind
  <2>5. \A j \in Kind : Lost(a, j)' => Lost(a, j) \/ Owed(a, j)'
    BY <2>4
  <2>6. WorkKept'
    BY <1>m, <2>1, <2>5
  <2> QED BY <2>2, <2>3, <2>6
<1>3. ASSUME NEW a \in Bucket, Restore(c, a)
      PROVE  ClientKnows(c)' /\ AbsentBlank' /\ WorkKept'
  <2> DEFINE v == [vault[a] EXCEPT !.status = "live"]
  <2>1. /\ v \in [status : Status, body : Body \cup {Empty}, meaning : Meaning]
        /\ v.status = "live" /\ v.meaning = vault[a].meaning
    <3>1. vault[a] \in [status : Status, body : Body \cup {Empty}, meaning : Meaning]
      BY <1>t DEF TypeOK
    <3> QED BY <3>1 DEF Status
  <2>2. /\ vault' = [vault EXCEPT ![a] = v] /\ cl[c].pc = "idle"
        /\ Goto(c, "queue", a, Captured(v, TRUE, v.meaning # NoMeaning)) /\ UNCHANGED <<index, box, missed>>
    BY <1>3 DEF Restore, Begin
  <2> HIDE DEF v
  <2>3. /\ ClientKnows(c)' /\ vault'[a] = v
        /\ Owed(a, "content")'
        /\ v.meaning # NoMeaning => Owed(a, "meaning")'
    BY <1>q, <2>1, <2>2
  <2>4. AbsentBlank'
    BY <1>t, <1>c, <2>1, <2>2, <2>3 DEF AbsentBlank, TypeOK
  <2>5. ASSUME NEW j \in Kind, Lost(a, j)'
        PROVE  Lost(a, j) \/ Owed(a, j)'
    <3>1. CASE j = "meaning" /\ v.meaning = NoMeaning
      BY <2>1, <2>2, <2>3, <2>5, <3>1 DEF Lost, StaleMeaning, Gone
    <3> QED BY <2>3, <3>1 DEF Kind
  <2> QED BY <1>m, <2>2, <2>3, <2>4, <2>5
<1>4. ASSUME NEW a \in Bucket, Archive(c, a) \/ Activate(c, a) \/ Delete(c, a)
      PROVE  ClientKnows(c)' /\ AbsentBlank' /\ WorkKept'
  <2>1. PICK s \in {"live", "archived", "deleted"} :
          /\ vault' = [vault EXCEPT ![a].status = s]
          /\ vault[a].status \in {"live", "archived"} \/ s = "deleted"
          /\ vault[a].status # "absent"
    BY <1>4 DEF Archive, Activate, Delete
  <2>2. /\ cl[c].pc = "idle" /\ UNCHANGED <<index, box, missed>>
        /\ cl'[c].pc \in {"idle", "discardTurn"}
    BY <1>4, <1>t DEF Archive, Activate, Delete, Begin, Goto, TypeOK
  <2>3. ClientKnows(c)'
    BY <2>2 DEF ClientKnows
  <2>4. /\ vault'[a].status = s /\ vault'[a].body = vault[a].body /\ vault'[a].meaning = vault[a].meaning
        /\ \A e \in Bucket \ {a} : vault'[e] = vault[e]
    BY <1>t, <2>1 DEF TypeOK
  <2>5. AbsentBlank'
    BY <1>c, <2>1, <2>4 DEF AbsentBlank
  <2>6. ASSUME NEW j \in Kind, Lost(a, j)'
        PROVE  Lost(a, j)
    BY <2>1, <2>2, <2>4, <2>6, <1>t DEF Lost, StaleBody, StaleMeaning, Gone, TypeOK, Status
  <2>7. vault' = [vault EXCEPT ![a] = vault'[a]]
    BY <1>t, <2>1 DEF TypeOK
  <2> QED BY <1>m, <2>2, <2>3, <2>5, <2>6, <2>7
<1>5. ASSUME NEW a \in Bucket, Ensure(c, a) \/ Repair(c, a)
      PROVE  ClientKnows(c)' /\ AbsentBlank' /\ WorkKept'
  <2>1. /\ cl[c].pc = "idle" /\ UNCHANGED <<vault, index, box>>
        /\ \/ cl'[c] = [pc |-> "ensure", b |-> a, todo |-> [Nothing EXCEPT !["content"] = <<"hist", vault[a].body>>]]
           \/ cl'[c].pc = "repair"
    BY <1>5, <1>t DEF Ensure, Repair, Begin, Goto, TypeOK
  <2>2. ClientKnows(c)'
    BY <1>i, <2>1 DEF ClientKnows, Nothing
  <2> QED BY <1>v, <2>1, <2>2
<1>6. CASE Queue(c)
  <2>1. PICK k \in Kind : k = IF d # None THEN "content" ELSE "meaning"
    BY <1>i
  <2>2. PICK rest : rest = [cl[c].todo EXCEPT ![k] = None]
    OBVIOUS
  <2>3. PICK g : g = cl[c].todo[k]
    OBVIOUS
  <2>4. cl[c].pc = "queue" /\ b \in Bucket /\ g # None
    BY <1>6, <1>i, <1>p, <1>t, <2>1, <2>3 DEF Queue, TypeOK, Kind
  <2>5. g \in Digest /\ KindOf(g) = k
    BY <1>i, <2>3, <2>4
  <2>6. /\ Enqueue(b, g) /\ UNCHANGED <<vault, index>>
        /\ IF rest = Nothing THEN Return(c) ELSE Goto(c, "queue", b, rest)
    BY <1>6, <1>p, <2>1, <2>2, <2>3 DEF Queue
  <2>7. rest \in Entry /\ rest[k] = None /\ rest["content"] = None
        /\ \A j \in Kind \ {k} : rest[j] = cl[c].todo[j]
    <3>1. cl[c].todo \in Entry
      BY <1>t DEF TypeOK
    <3>2. rest \in Entry /\ rest[k] = None /\ \A j \in Kind \ {k} : rest[j] = cl[c].todo[j]
      BY <2>2, <3>1, EntryUpdate
    <3>3. k # "content" => cl[c].todo["content"] = None
      BY <1>p, <2>1
    <3> QED BY <3>2, <3>3 DEF Kind
  <2>8. cl'[c] = IF rest = Nothing THEN IdleClient ELSE [pc |-> "queue", b |-> b, todo |-> rest]
    BY <1>t, <2>6 DEF Return, Goto, TypeOK
  <2>9. ClientKnows(c)'
    BY <2>7, <2>8 DEF ClientKnows, IdleClient
  <2>10. /\ box'[b][k] = IF g = <<"body", Empty>> THEN None ELSE g
         /\ \A j \in Kind \ {k} : box'[b][j] = box[b][j]
         /\ \A a \in Bucket \ {b} : box'[a] = box[a]
    BY <1>t, <2>4, <2>5, <2>6 DEF Enqueue, TypeOK, Entry
  <2>11. Lost(b, k)' => Covered(b, k)'
    <3>1. CASE g = <<"body", Empty>>
      <4>1. k = "content" /\ d = g /\ d = Content(b)
        <5>1. k = "content"
          BY <2>5, <3>1 DEF KindOf
        <5>2. d = g /\ d # None
          BY <1>p, <2>3, <2>4, <5>1
        <5> QED BY <1>c, <1>p, <2>4, <5>1, <5>2 DEF ClientKnows
      <4> QED BY <2>6, <3>1, <4>1 DEF Lost, StaleBody, Content
    <3>2. CASE g # <<"body", Empty>>
      BY <2>4, <2>10, <3>2 DEF Covered
    <3> QED BY <3>1, <3>2
  <2>12. ASSUME NEW j \in Kind, j # k
         PROVE  Lost(b, j)' => Covered(b, j)'
    <3>1. CASE cl[c].todo[j] = None
      BY <1>u, <2>4, <2>6, <2>10, <2>12, <3>1
    <3>2. CASE cl[c].todo[j] # None
      <4>1. rest[j] # None /\ rest # Nothing
        BY <2>7, <2>12, <3>2, NothingFacts
      <4> QED BY <2>8, <4>1 DEF Covered, Owed
    <3> QED BY <3>1, <3>2
  <2>13. \A j \in Kind : Lost(b, j)' => Covered(b, j)'
    BY <2>11, <2>12
  <2> QED BY <1>x, <2>6, <2>9, <2>10, <2>13
<1>7. CASE QueueFails(c) \/ DiscardIndexFails(c)
  <2>1. b \in missed' /\ UNCHANGED <<vault, index, box>> /\ cl'[c].pc = "idle"
    BY <1>7, <1>p, <1>t DEF QueueFails, DiscardIndexFails, Return, IdleClient, TypeOK
  <2>2. ClientKnows(c)'
    BY <2>1 DEF ClientKnows
  <2> QED BY <1>x, <2>1, <2>2 DEF Covered
<1>8. CASE DiscardTurn(c) \/ DiscardTimeout(c) \/ DiscardRead(c)
  <2>1. /\ cl[c].pc \in {"discardTurn", "discardRead"} /\ UNCHANGED <<vault, index, box>>
        /\ cl'[c].pc \in {"idle", "discardRead"} \/ (cl'[c].pc = "discardItem" /\ cl'[c].b = b /\ Gone(b))
    BY <1>8, <1>p, <1>t DEF DiscardTurn, DiscardTimeout, DiscardRead, Return, Goto, IdleClient, TypeOK
  <2>2. ClientKnows(c)'
    BY <2>1 DEF ClientKnows, Gone
  <2> QED BY <1>v, <2>1, <2>2
<1>9. CASE DiscardItem(c)
  <2>1. /\ cl[c].pc = "discardItem" /\ b \in Bucket /\ UNCHANGED <<vault, index>>
        /\ box' = [box EXCEPT ![b] = Nothing]
        /\ cl'[c].pc = "discardIndex" /\ cl'[c].b = b
    BY <1>9, <1>i, <1>p, <1>t DEF DiscardItem, Discard, Goto, TypeOK
  <2>2. ClientKnows(c)'
    BY <1>c, <1>p, <2>1 DEF ClientKnows, Gone
  <2>3. Dropping(b)'
    BY <2>1 DEF Dropping
  <2> QED BY <1>x, <1>t, <2>1, <2>2, <2>3 DEF Covered, TypeOK
<1>18. CASE DiscardItemFails(c)
  <2>1. /\ cl[c].pc = "discardItem" /\ b \in missed' /\ UNCHANGED <<vault, index, box>>
        /\ cl'[c].pc = "discardIndex" /\ cl'[c].b = b
    BY <1>18, <1>p, <1>t DEF DiscardItemFails, Goto, TypeOK
  <2>2. ClientKnows(c)'
    BY <1>c, <1>p, <2>1 DEF ClientKnows, Gone
  <2> QED BY <1>x, <2>1, <2>2 DEF Covered
<1>10. CASE DiscardIndex(c)
  <2>1. /\ cl[c].pc = "discardIndex" /\ b \in Bucket /\ UNCHANGED <<vault, box>>
        /\ index' = [index EXCEPT ![b] = Nothing]
        /\ cl'[c].pc = "idle"
    BY <1>10, <1>i, <1>p, <1>t DEF DiscardIndex, Return, IdleClient, TypeOK
  <2>2. ClientKnows(c)' /\ Gone(b)
    BY <1>c, <1>p, <2>1 DEF ClientKnows
  <2>3. index'[b] = Nothing /\ \A a \in Bucket \ {b} : index'[a] = index[a]
    BY <1>t, <2>1 DEF TypeOK
  <2>4. \A j \in Kind : ~Lost(b, j)'
    BY <2>1, <2>2, <2>3, NothingFacts DEF Lost, Gone, StaleMeaning, Kind
  <2> QED BY <1>x, <2>1, <2>2, <2>3, <2>4
<1>11. CASE EnsureRead(c)
  <2>1. /\ cl[c].pc = "ensure" /\ UNCHANGED <<vault, index, box, missed>>
        /\ cl'[c].b = b /\ cl'[c].todo = cl[c].todo
        /\ cl'[c].pc = IF index[b]["content"] = d THEN "ensureAck" ELSE "ensureQueue"
    BY <1>11, <1>p, <1>t DEF EnsureRead, Goto, TypeOK
  <2>2. ClientKnows(c)'
    BY <1>c, <1>p, <2>1 DEF ClientKnows
  <2> QED BY <1>v, <2>1, <2>2
<1>12. CASE EnsureAck(c) \/ EnsureQueue(c)
  <2>1. /\ cl[c].pc \in {"ensureAck", "ensureQueue"} /\ b \in Bucket /\ d # None /\ cl'[c].pc = "idle"
        /\ UNCHANGED <<vault, index, missed>>
    BY <1>12, <1>i, <1>p, <1>t DEF EnsureAck, EnsureQueue, Return, IdleClient, TypeOK
  <2>2. d \in Digest /\ KindOf(d) = "content"
    BY <1>i, <1>p, <2>1
  <2>3. ClientKnows(c)'
    BY <2>1 DEF ClientKnows
  <2>4. /\ \A a \in Bucket, j \in Kind : a # b \/ j # "content" => box'[a][j] = box[a][j]
        /\ EnsureQueue(c) => box'[b]["content"] = IF d = <<"body", Empty>> THEN None ELSE d
    BY <1>12, <1>i, <1>p, <1>t, <2>1, <2>2 DEF EnsureAck, EnsureQueue, Complete, Enqueue, TypeOK, Entry
  <2>5. Lost(b, "content")' => Covered(b, "content")'
    <3>1. CASE b \in missed
      BY <1>f, <3>1 DEF Covered
    <3>2. CASE b \notin missed
      <4>1. d = <<"hist", vault[b].body>>
        BY <1>c, <1>p, <2>1, <3>2 DEF ClientKnows
      <4>2. CASE EnsureAck(c)
        BY <1>c, <1>p, <2>1, <3>2, <4>1, <4>2 DEF ClientKnows, EnsureAck, Lost, StaleBody
      <4>3. CASE EnsureQueue(c)
        BY <2>1, <2>4, <4>1, <4>3 DEF Covered
      <4> QED BY <1>12, <4>2, <4>3
    <3> QED BY <3>1, <3>2
  <2>6. ASSUME NEW a \in Bucket, NEW j \in Kind PROVE Lost(a, j)' => Covered(a, j)'
    <3>1. CASE a = b /\ j = "content"
      BY <2>5, <3>1
    <3>2. CASE a # b \/ j # "content"
      BY <1>u, <2>1, <2>4, <3>2
    <3> QED BY <3>1, <3>2
  <2> QED BY <1>c, <2>1, <2>3, <2>6 DEF WorkKept, AbsentBlank
<1>13. CASE EnsureQueueFails(c)
  <2>1. b \in missed' /\ UNCHANGED <<vault, index, box>> /\ cl'[c].pc = "inline" /\ cl'[c].b = b
    BY <1>13, <1>p, <1>t DEF EnsureQueueFails, Goto, TypeOK
  <2>2. ClientKnows(c)'
    BY <2>1 DEF ClientKnows
  <2> QED BY <1>x, <2>1, <2>2 DEF Covered
<1>14. CASE InlineStores(c)
  <2>1. /\ cl[c].pc = "inline" /\ b \in Bucket /\ UNCHANGED <<vault, box, missed>>
        /\ index' = [index EXCEPT ![b]["content"] = d]
        /\ cl'[c].pc = "ensureAck" /\ cl'[c].b = b
    BY <1>14, <1>i, <1>p, <1>t DEF InlineStores, Goto, TypeOK
  <2>2. b \in missed'
    BY <1>c, <1>p, <2>1 DEF ClientKnows
  <2>3. ClientKnows(c)'
    BY <2>1, <2>2 DEF ClientKnows
  <2>4. \A a \in Bucket \ {b} : index'[a] = index[a]
    BY <1>t, <2>1 DEF TypeOK
  <2> QED BY <1>x, <2>1, <2>2, <2>3, <2>4 DEF Covered
<1>15. CASE InlineFails(c)
  <2>1. cl[c].pc = "inline" /\ UNCHANGED <<vault, index, box>> /\ cl'[c].pc = "idle"
    BY <1>15, <1>t DEF InlineFails, Return, IdleClient, TypeOK
  <2>2. ClientKnows(c)'
    BY <2>1 DEF ClientKnows
  <2> QED BY <1>v, <2>1, <2>2
<1>16. CASE EnsurePending(c)
  <2>1. cl[c].pc = "repair" /\ b \in Bucket /\ d # None /\ UNCHANGED <<vault, index>> /\ cl'[c].pc = "idle"
    BY <1>16, <1>i, <1>p, <1>t DEF EnsurePending, Return, IdleClient, TypeOK
  <2>2. ClientKnows(c)'
    BY <2>1 DEF ClientKnows
  <2>3. KindOf(d) = "content"
    BY <1>i, <1>p, <2>1
  <2>4. \A a \in Bucket, j \in Kind : box[a][j] # None => box'[a][j] # None
    <3>1. box' = box \/ (d # <<"body", Empty>> /\ box' = [box EXCEPT ![b]["content"] = d])
      BY <1>16, <1>p, <2>3 DEF EnsurePending, Enqueue
    <3>2. SUFFICES ASSUME d # <<"body", Empty>>, box' = [box EXCEPT ![b]["content"] = d]
                   PROVE  \A a \in Bucket, j \in Kind : box[a][j] # None => box'[a][j] # None
      BY <3>1
    <3>3. \A a \in Bucket : a # b => box'[a] = box[a]
      BY <1>t, <3>2 DEF TypeOK
    <3>4. box'[b] = [box[b] EXCEPT !["content"] = d] /\ box[b] \in [Kind -> Digest \cup {None}]
      BY <1>t, <2>1, <3>2 DEF TypeOK, Entry
    <3> QED BY <2>1, <3>3, <3>4
  <2>5. ASSUME NEW a \in Bucket, NEW j \in Kind PROVE Lost(a, j)' => Covered(a, j)'
    BY <1>u, <2>1, <2>4
  <2> QED BY <1>c, <2>1, <2>2, <2>5 DEF WorkKept, AbsentBlank
<1>17. CASE ClientBegins(c)
  <2> PICK a \in Bucket :
        \/ \E body \in Body, meaning \in Meaning : Create(c, a, body, meaning)
        \/ \E body \in Body, meaning \in Meaning, qc, qm \in BOOLEAN :
              Update(c, a, [status |-> "live", body |-> body, meaning |-> meaning], qc, qm)
        \/ Restore(c, a) \/ Archive(c, a) \/ Activate(c, a) \/ Delete(c, a)
        \/ Ensure(c, a) \/ Repair(c, a)
    BY <1>17 DEF ClientBegins
  <2>1. ASSUME NEW body \in Body, NEW meaning \in Meaning
        PROVE  [status |-> "live", body |-> body, meaning |-> meaning]
                  \in [status : Status, body : Body \cup {Empty}, meaning : Meaning]
    BY DEF Status
  <2> QED BY <1>1, <1>2, <1>3, <1>4, <1>5, <2>1
<1> QED
  BY <1>6, <1>7, <1>8, <1>9, <1>10, <1>11, <1>12, <1>13, <1>14, <1>15, <1>16, <1>17, <1>18
  DEF ClientActs, ClientStep, ClientFault

-----------------------------------------------------------------------------
(* Everything else preserves the invariant *)

\* Nothing but a worker or a handler takes an item out of the outbox.
LEMMA ElsewhereBox ==
    ASSUME TypeOK, Elsewhere
    PROVE  \A b \in Bucket, k \in Kind : box[b][k] # None => box'[b][k] # None
<1> SUFFICES ASSUME NEW b \in Bucket, NEW k \in Kind, box[b][k] # None
             PROVE  box'[b][k] # None
  OBVIOUS
<1>1. CASE QueueMissing
  <2> DEFINE new == {e \in rec.seen : box[e[1]]["content"] = None}
  <2>1. box'[b] = IF \E e \in new : e[1] = b
                  THEN [box[b] EXCEPT !["content"] = (CHOOSE e \in new : e[1] = b)[2]] ELSE box[b]
    BY <1>1 DEF QueueMissing
  <2>2. k = "content" => ~\E e \in new : e[1] = b
    OBVIOUS
  <2> HIDE DEF new
  <2> QED BY <2>1, <2>2 DEF TypeOK, Entry
<1>2. CASE ~QueueMissing
  BY <1>2 DEF Elsewhere, Reconcile, ReconcileGivesUp, ListBuckets, Candidates, Reread, Confirm,
              BecomesDue, RetryNow, Start, Crash
<1> QED BY <1>1, <1>2

LEMMA ElsewhereIInv ==
    ASSUME SingleLoop, IInv, Elsewhere
    PROVE  IInv'
<1>t. TypeOK /\ TypeOK'
  BY OtherTypeStep DEF IInv, Elsewhere
<1>1. CASE Crash
  <2>1. /\ UNCHANGED <<vault, box, index>>
        /\ \A w \in Worker : wk'[w] = IdleWorker
        /\ \A c \in Client : cl'[c] = IdleClient
        /\ rec' = IdleRec
        /\ missed' = missed \cup {b \in Bucket : Sweeping(b) \/ \E k \in Kind : Owed(b, k) \/ InHand(b, k)}
    BY <1>1 DEF Crash
  <2>2. OneRuns' /\ (\A w \in Worker : WorkerKnows(w)') /\ (\A c \in Client : ClientKnows(c)')
    BY <2>1 DEF OneRuns, WorkerYields, ClientYields, RecYields, WorkerKnows, ClientKnows,
                IdleWorker, IdleClient, IdleRec
  <2>3. ASSUME NEW b \in Bucket, NEW k \in Kind PROVE Lost(b, k)' => Covered(b, k)'
    <3>1. Lost(b, k)' => Lost(b, k)
      BY <2>1 DEF Lost, StaleBody, StaleMeaning, Gone
    <3>2. Dropping(b) => Sweeping(b)
      BY DEF Dropping, Sweeping
    <3> QED BY <2>1, <3>1, <3>2 DEF IInv, WorkKept, Covered
  <2> QED BY <1>t, <2>1, <2>2, <2>3 DEF IInv, WorkKept, AbsentBlank
<1>2. ASSUME UNCHANGED <<vault, index, wk, cl, missed>>, OneRuns',
             \A b \in Bucket, k \in Kind : box[b][k] # None => box'[b][k] # None
      PROVE  IInv'
  <2>1. (\A w \in Worker : WorkerKnows(w)') /\ (\A c \in Client : ClientKnows(c)') /\ AbsentBlank'
    BY <1>2 DEF IInv, WorkerKnows, ClientKnows, AbsentBlank, StaleBody, StaleMeaning, Gone, Content
  <2>2. ASSUME NEW b \in Bucket, NEW k \in Kind PROVE Lost(b, k)' => Covered(b, k)'
    <3>1. /\ Owed(b, k) => Owed(b, k)'
          /\ InHand(b, k) => InHand(b, k)'
          /\ Dropping(b) => Dropping(b)'
      BY <1>2 DEF Owed, InHand, Dropping
    <3>2. /\ vault'[b] = vault[b] /\ index'[b][k] = index[b][k] /\ missed \subseteq missed'
          /\ box[b][k] # None => box'[b][k] # None
      BY <1>2
    <3>3. WorkKept
      BY DEF IInv
    <3> QED BY <3>1, <3>2, <3>3, Untouched
  <2> QED BY <1>t, <1>2, <2>1, <2>2 DEF IInv, WorkKept
<1>3. CASE (\E b \in Bucket, k \in Kind : BecomesDue(b, k)) \/ RetryNow \/ Start
  <2>1. UNCHANGED <<vault, index, box, wk, cl, rec, missed>>
    BY <1>3 DEF BecomesDue, RetryNow, Start
  <2>2. OneRuns'
    BY <2>1 DEF IInv, OneRuns, WorkerMayRun, ClientMayRun, RecMayRun, WorkerYields, ClientYields, RecYields
  <2> QED BY <1>2, <2>1, <2>2
<1>4. CASE Reconcile \/ ReconcileGivesUp
  <2>1. RecMayRun /\ UNCHANGED <<vault, index, wk, cl, missed>>
    BY <1>4 DEF Reconcile, ReconcileGivesUp, ListBuckets, Candidates, Reread, Confirm, QueueMissing, RecUnchanged
  <2>2. OneRuns'
    BY <2>1 DEF OneRuns, RecMayRun, WorkerYields, ClientYields
  <2>3. \A b \in Bucket, k \in Kind : box[b][k] # None => box'[b][k] # None
    BY <1>t, ElsewhereBox
  <2> QED BY <1>2, <2>1, <2>2, <2>3
<1> QED BY <1>1, <1>3, <1>4 DEF Elsewhere

-----------------------------------------------------------------------------
(* The theorem *)

LEMMA IInvInit == Init => IInv
<1> SUFFICES ASSUME Init PROVE IInv
  OBVIOUS
<1>1. /\ \A w \in Worker : wk[w].pc = "idle"
      /\ \A c \in Client : cl[c].pc = "idle"
      /\ rec.pc = "idle"
      /\ \A b \in Bucket : vault[b].status = "absent" /\ vault[b].meaning = NoMeaning /\ index[b] = Nothing
  BY DEF Init, IdleWorker, IdleClient, IdleRec
<1>2. OneRuns /\ (\A w \in Worker : WorkerKnows(w)) /\ (\A c \in Client : ClientKnows(c)) /\ AbsentBlank
  BY <1>1 DEF OneRuns, WorkerYields, ClientYields, RecYields, WorkerKnows, ClientKnows, AbsentBlank
<1>3. WorkKept
  BY <1>1, NothingFacts DEF WorkKept, Lost, StaleMeaning, Gone, Kind
<1> QED BY <1>2, <1>3, TypeInit DEF IInv

LEMMA IInvStep == SingleLoop /\ IInv /\ [Next]_vars => IInv'
<1> SUFFICES ASSUME SingleLoop, IInv, [Next]_vars PROVE IInv'
  OBVIOUS
<1>1. CASE UNCHANGED vars
  <2>1. TypeOK'
    BY <1>1, TypeStep DEF IInv
  <2>2. UNCHANGED <<vault, index, box, wk, cl, rec, missed>>
    BY <1>1 DEF vars
  <2>3. OneRuns'
    BY <2>2 DEF IInv, OneRuns, WorkerMayRun, ClientMayRun, RecMayRun, WorkerYields, ClientYields, RecYields
  <2>4. \A w \in Worker : WorkerKnows(w)'
    BY <2>2 DEF IInv, WorkerKnows, StaleBody, StaleMeaning, Gone
  <2>5. \A c \in Client : ClientKnows(c)'
    BY <2>2 DEF IInv, ClientKnows, Gone, Content
  <2>6. AbsentBlank'
    BY <2>2 DEF IInv, AbsentBlank
  <2>7. WorkKept'
    BY <2>2 DEF IInv, WorkKept, Lost, Covered, StaleBody, StaleMeaning, Gone, Owed, InHand, Dropping
  <2> QED BY <2>1, <2>3, <2>4, <2>5, <2>6, <2>7 DEF IInv
<1>2. CASE Next
  <2>1. \/ \E c \in Client : ClientActs(c)
        \/ \E w \in Worker : WorkerActs(w)
        \/ Elsewhere
    BY <1>2 DEF Next, ClientActs, WorkerActs, Elsewhere
  <2> QED BY <2>1, ClientIInv, WorkerIInv, ElsewhereIInv
<1> QED BY <1>1, <1>2

LEMMA IInvImplies == IInv => NoLostWork
<1> SUFFICES ASSUME IInv, NEW b \in Bucket, NEW k \in Kind, Stale(b, k)
             PROVE  box[b][k] # None \/ Owed(b, k) \/ InHand(b, k) \/ b \in missed
  BY DEF NoLostWork
<1>1. ~Gone(b) /\ Lost(b, k)
  BY DEF Stale, Lost
<1>2. ~Dropping(b)
  BY <1>1 DEF Dropping, IInv, WorkerKnows, ClientKnows
<1> QED BY <1>1, <1>2 DEF IInv, WorkKept, Covered

\* When all handlers, workers and the reconciler are coroutines of one event
\* loop, no derived work is lost: for any number of buckets, texts, handlers
\* and workers, and any number of crashes, every stale vector of a live or
\* archived bucket is owed by the outbox or by a running actor, unless a
\* failed or interrupted registration is on record.
THEOREM OneLoopLosesNoWork == SingleLoop => (Spec => []NoLostWork)
<1> SUFFICES ASSUME SingleLoop PROVE Spec => []NoLostWork
  OBVIOUS
<1>1. IInv /\ [Next]_vars => IInv'
  BY IInvStep
<1> QED BY <1>1, IInvInit, IInvImplies, PTL DEF Spec

-----------------------------------------------------------------------------
(* No orphans.  IInv says what the actors know of the vectors; what they   *)
(* know of the deletion comes on top: whoever takes an item out of the     *)
(* outbox without removing the vector does so for a bucket that is there.  *)

Settles(w) == wk[w].pc \in {"clear", "ack", "requeue"} => ~Gone(wk[w].b)
Serves(c) ==
    cl[c].pc \in {"queue", "ensure", "ensureAck", "ensureQueue"} =>
        ~Gone(cl[c].b) \/ cl[c].b \in missed

Noticed(b) ==
    Gone(b) /\ index[b] # Nothing => box[b] # Nothing \/ Sweeping(b) \/ b \in missed

Orphans ==
    /\ \A w \in Worker : Settles(w)
    /\ \A c \in Client : Serves(c)
    /\ \A b \in Bucket : Noticed(b)

LEMMA NonEmpty == \A e \in Entry : e # Nothing <=> \E k \in Kind : e[k] # None
BY DEF Entry, Nothing

\* A bucket that a step does not touch.
LEMMA StaysNoticed ==
    ASSUME NEW b \in Bucket, Noticed(b), vault'[b] = vault[b], index'[b] = index[b],
           box[b] # Nothing => box'[b] # Nothing, Sweeping(b) => Sweeping(b)',
           missed \subseteq missed'
    PROVE  Noticed(b)'
BY DEF Noticed, Gone

LEMMA WorkerOrphans ==
    ASSUME SingleLoop, IInv, Orphans, NEW w \in Worker, WorkerActs(w)
    PROVE  Orphans'
<1>p. PICK b, d : b = wk[w].b /\ d = wk[w].want
  OBVIOUS
<1>t. TypeOK
  BY DEF IInv
<1>f. /\ WorkerMayRun(w)
      /\ \A x \in Worker \ {w} : wk'[x] = wk[x]
      /\ vault' = vault /\ cl' = cl /\ missed \subseteq missed'
  BY <1>t, WorkerFrame
<1>o. (\A x \in Worker \ {w} : Settles(x)') /\ \A c \in Client : Serves(c)'
  BY <1>f DEF Orphans, Settles, Serves, Gone
<1>i. wk[w].pc # "idle" => b \in Bucket /\ d \in Digest
  BY <1>t, <1>p DEF TypeOK
<1>w. WorkerKnows(w) /\ Settles(w)
  BY DEF IInv, Orphans
\* Buckets that w neither touches nor sweeps.
<1>u. ASSUME NEW a \in Bucket, index'[a] = index[a], box[a] # Nothing => box'[a] # Nothing,
             ~(wk[w].pc \in {"verify", "requeue", "dropIndex"} /\ b = a)
      PROVE  Noticed(a)'
  <2>1. Sweeping(a) => Sweeping(a)'
    BY <1>f, <1>p, <1>u DEF Sweeping
  <2>2. Noticed(a)
    BY DEF Orphans
  <2> QED BY <1>f, <1>u, <2>1, <2>2, StaysNoticed
<1>v. ASSUME wk[w].pc \notin {"verify", "requeue", "dropIndex"}, index' = index, box' = box
      PROVE  \A a \in Bucket : Noticed(a)'
  BY <1>u, <1>v
<1>y. ASSUME Noticed(b)', \A a \in Bucket \ {b} : index'[a] = index[a] /\ box'[a] = box[a]
      PROVE  \A a \in Bucket : Noticed(a)'
  <2>1. ASSUME NEW a \in Bucket PROVE Noticed(a)'
    <3>1. CASE a = b
      BY <1>y, <3>1
    <3>2. CASE a # b
      BY <1>u, <1>y, <3>2
    <3> QED BY <3>1, <3>2
  <2> QED BY <2>1
<1>z. SUFFICES Settles(w)' /\ \A a \in Bucket : Noticed(a)'
  BY <1>o DEF Orphans
<1>1. ASSUME NEW a \in Bucket, NEW j \in Kind, Pick(w, a, j)
      PROVE  Settles(w)' /\ \A x \in Bucket : Noticed(x)'
  <2>1. wk'[w].pc = "turn"
    BY <1>1, <1>t DEF Pick, TypeOK
  <2>2. wk[w].pc = "idle" /\ index' = index /\ box' = box
    BY <1>1 DEF Pick
  <2> QED BY <1>v, <2>1, <2>2 DEF Settles
<1>2. CASE Enter(w) \/ TurnTimeout(w) \/ Fail(w)
  <2>1. wk'[w].pc \in {"idle", "read"}
    BY <1>2, <1>t DEF Enter, TurnTimeout, Fail, Hold, Release, IdleWorker, TypeOK
  <2>2. wk[w].pc \in {"turn", "generate"} /\ index' = index /\ box' = box
    BY <1>2 DEF Enter, TurnTimeout, Fail, Postpone
  <2> QED BY <1>v, <2>1, <2>2 DEF Settles
<1>3. CASE Read(w)
  <2>1. wk[w].pc = "read" /\ index' = index /\ box' = box
    BY <1>3 DEF Read
  <2>2. wk'[w].b = b /\ (Gone(b) => wk'[w].pc = "dropIndex")
    BY <1>3, <1>p, <1>t DEF Read, Hold, TypeOK
  <2>3. Settles(w)'
    BY <1>f, <2>2 DEF Settles, Gone
  <2> QED BY <1>v, <2>1, <2>3
<1>4. CASE DropIndex(w)
  <2>1. wk[w].pc = "dropIndex" /\ index' = [index EXCEPT ![b] = Nothing] /\ box' = box
    BY <1>4, <1>p DEF DropIndex
  <2>2. wk'[w].pc = "dropItem"
    BY <1>4, <1>t DEF DropIndex, Hold, TypeOK
  <2>3. index'[b] = Nothing /\ \A a \in Bucket \ {b} : index'[a] = index[a]
    BY <1>i, <1>t, <2>1 DEF TypeOK
  <2> QED BY <1>y, <2>1, <2>2, <2>3 DEF Settles, Noticed
<1>5. CASE DropIndexFails(w) \/ OutcomeLost(w)
  <2>1. b \in missed' /\ index' = index /\ box' = box
    BY <1>5, <1>p DEF DropIndexFails, OutcomeLost
  <2>2. wk'[w].pc \in {"dropItem", "idle"}
    BY <1>5, <1>t DEF DropIndexFails, OutcomeLost, Hold, Release, IdleWorker, TypeOK
  <2> QED BY <1>y, <2>1, <2>2 DEF Settles, Noticed
<1>6. CASE DropItem(w)
  <2>1. wk[w].pc = "dropItem" /\ index' = index /\ box' = [box EXCEPT ![b] = Nothing]
    BY <1>6, <1>p DEF DropItem, Discard
  <2>2. wk'[w].pc = "idle"
    BY <1>6, <1>t DEF DropItem, Release, IdleWorker, TypeOK
  <2>3. index[b] = Nothing \/ b \in missed
    BY <1>p, <1>w, <2>1 DEF WorkerKnows
  <2>4. \A a \in Bucket \ {b} : box'[a] = box[a]
    BY <1>t, <2>1 DEF TypeOK
  <2>5. Noticed(b)'
    BY <1>f, <2>1, <2>3 DEF Noticed
  <2> QED BY <1>y, <2>1, <2>2, <2>4, <2>5 DEF Settles
<1>7. CASE Requeue(w) \/ Ack(w)
  <2>1. wk[w].pc \in {"requeue", "ack"} /\ index' = index
    BY <1>7 DEF Requeue, Ack
  <2>2. wk'[w].pc = "idle"
    BY <1>7, <1>t DEF Requeue, Ack, Release, IdleWorker, TypeOK
  <2>3. ~Gone(b)'
    BY <1>f, <1>p, <1>w, <2>1 DEF Settles, Gone
  <2>4. \A a \in Bucket \ {b} : box'[a] = box[a]
    BY <1>7, <1>p, <1>t DEF Requeue, Ack, Enqueue, Complete, TypeOK
  <2> QED BY <1>y, <2>1, <2>2, <2>3, <2>4 DEF Settles, Noticed
<1>8. CASE Clear(w) \/ Store(w)
  <2>1. wk[w].pc \in {"clear", "generate"} /\ box' = box
    BY <1>8 DEF Clear, Store
  <2>2. wk'[w].pc = "verify" /\ wk'[w].b = b
    BY <1>8, <1>p, <1>t DEF Clear, Store, Hold, TypeOK
  <2>3. \A a \in Bucket \ {b} : index'[a] = index[a]
    BY <1>8, <1>p, <1>t DEF Clear, Store, TypeOK
  <2>4. Sweeping(b)'
    BY <2>2 DEF Sweeping
  <2> QED BY <1>y, <2>1, <2>2, <2>3, <2>4 DEF Settles, Noticed
<1>9. CASE Verify(w)
  <2>1. index' = index /\ box' = box
    BY <1>9 DEF Verify
  <2>2. wk'[w].b = b /\ (Gone(b) => wk'[w].pc = "dropIndex")
    BY <1>9, <1>p, <1>t DEF Verify, Hold, TypeOK
  <2>3. Gone(b) => Sweeping(b)'
    BY <2>2 DEF Sweeping
  <2>4. Gone(b)' = Gone(b)
    BY <1>f DEF Gone
  <2>5. Settles(w)' /\ Noticed(b)'
    BY <2>2, <2>3, <2>4 DEF Settles, Noticed
  <2> QED BY <1>y, <2>1, <2>5
<1> QED
  BY <1>1, <1>2, <1>3, <1>4, <1>5, <1>6, <1>7, <1>8, <1>9 DEF WorkerActs, WorkerStep, WorkerFault

LEMMA ClientOrphans ==
    ASSUME SingleLoop, IInv, Orphans, NEW c \in Client, ClientActs(c)
    PROVE  Orphans'
<1>p. PICK own : own = cl[c].b
  OBVIOUS
<1> DEFINE discards == {"discardTurn", "discardRead", "discardItem", "discardIndex"}
<1>t. TypeOK
  BY DEF IInv
<1>f. /\ ClientMayRun(c)
      /\ \A x \in Client \ {c} : cl'[x] = cl[x]
      /\ wk' = wk /\ missed \subseteq missed'
  BY <1>t, ClientFrame
<1>a. /\ \A w \in Worker : WorkerYields(w)
      /\ \A x \in Client \ {c} : ClientYields(x)
  BY <1>f DEF ClientMayRun
<1>o. (\A w \in Worker : Settles(w)') /\ \A x \in Client \ {c} : Serves(x)'
  BY <1>f, <1>a DEF Settles, Serves, WorkerYields, ClientYields
<1>w. ClientKnows(c) /\ Serves(c)
  BY DEF IInv, Orphans
\* Buckets that c neither touches nor sweeps.
<1>u. ASSUME NEW a \in Bucket, vault'[a] = vault[a], index'[a] = index[a],
             box[a] # Nothing => box'[a] # Nothing, ~(cl[c].pc \in discards /\ cl[c].b = a)
      PROVE  Noticed(a)'
  <2>1. Sweeping(a) => Sweeping(a)'
    BY <1>f, <1>u DEF Sweeping
  <2>2. Noticed(a)
    BY DEF Orphans
  <2> QED BY <1>f, <1>u, <2>1, <2>2, StaysNoticed
<1>y. ASSUME NEW b, Noticed(b)', cl[c].pc \in discards => cl[c].b = b,
             \A a \in Bucket \ {b} : vault'[a] = vault[a] /\ index'[a] = index[a] /\ box'[a] = box[a]
      PROVE  \A a \in Bucket : Noticed(a)'
  <2>1. ASSUME NEW a \in Bucket PROVE Noticed(a)'
    <3>1. CASE a = b
      BY <1>y, <3>1
    <3>2. CASE a # b
      BY <1>u, <1>y, <3>2
    <3> QED BY <3>1, <3>2
  <2> QED BY <2>1
<1>z. SUFFICES Serves(c)' /\ \A a \in Bucket : Noticed(a)'
  BY <1>o DEF Orphans
\* What begins at b leaves b in the vault, or sweeps it.
<1>b. ASSUME NEW b \in Bucket, NEW pc, NEW todo, NEW v, cl[c].pc = "idle",
             UNCHANGED <<index, box>>, vault' = vault \/ vault' = [vault EXCEPT ![b] = v],
             cl' = cl \/ Goto(c, pc, b, todo), ~Gone(b)' \/ (Goto(c, pc, b, todo) /\ pc = "discardTurn")
      PROVE  Serves(c)' /\ \A a \in Bucket : Noticed(a)'
  <2>1. \A a \in Bucket \ {b} : vault'[a] = vault[a]
    BY <1>b, <1>t DEF TypeOK
  <2>2. Goto(c, pc, b, todo) => cl'[c].pc = pc /\ cl'[c].b = b
    BY <1>t DEF Goto, TypeOK
  <2>3. Serves(c)'
    BY <1>b, <2>2 DEF Serves
  <2>4. ~Gone(b)' \/ Sweeping(b)'
    BY <1>b, <2>2 DEF Sweeping
  <2> QED BY <1>b, <1>y, <2>1, <2>3, <2>4 DEF Noticed
<1>1. CASE ClientBegins(c)
  <2> USE DEF Begin
  <2>1. ASSUME NEW b \in Bucket, NEW body \in Body, NEW meaning \in Meaning, Create(c, b, body, meaning)
        PROVE  Serves(c)' /\ \A a \in Bucket : Noticed(a)'
    <3> DEFINE v == [status |-> "live", body |-> body, meaning |-> meaning]
               todo == Captured(v, TRUE, meaning # NoMeaning)
    <3>1. /\ cl[c].pc = "idle" /\ UNCHANGED <<index, box>>
          /\ vault' = [vault EXCEPT ![b] = v] /\ Goto(c, "queue", b, todo)
      BY <2>1 DEF Create
    <3>2. ~Gone(b)'
      BY <1>t, <3>1 DEF Gone, TypeOK
    <3> HIDE DEF v, todo
    <3> QED BY <1>b, <3>1, <3>2
  <2>2. ASSUME NEW b \in Bucket, NEW v, NEW qc \in BOOLEAN, NEW qm \in BOOLEAN, Update(c, b, v, qc, qm)
        PROVE  Serves(c)' /\ \A a \in Bucket : Noticed(a)'
    <3>1. /\ cl[c].pc = "idle" /\ UNCHANGED <<index, box>> /\ v.status = "live"
          /\ vault' = [vault EXCEPT ![b] = v] /\ Goto(c, "queue", b, Captured(v, qc, qm))
      BY <2>2 DEF Update
    <3>2. ~Gone(b)'
      BY <1>t, <3>1 DEF Gone, TypeOK
    <3> QED BY <1>b, <3>1, <3>2
  <2>3. ASSUME NEW b \in Bucket, Restore(c, b)
        PROVE  Serves(c)' /\ \A a \in Bucket : Noticed(a)'
    <3> DEFINE v == [vault[b] EXCEPT !.status = "live"]
               todo == Captured(v, TRUE, v.meaning # NoMeaning)
    <3>1. /\ cl[c].pc = "idle" /\ UNCHANGED <<index, box>>
          /\ vault' = [vault EXCEPT ![b] = v] /\ Goto(c, "queue", b, todo)
      BY <2>3 DEF Restore
    <3>2. ~Gone(b)'
      BY <1>t, <3>1 DEF Gone, TypeOK
    <3> HIDE DEF v, todo
    <3> QED BY <1>b, <3>1, <3>2
  <2>4. ASSUME NEW b \in Bucket, Archive(c, b) \/ Activate(c, b)
        PROVE  Serves(c)' /\ \A a \in Bucket : Noticed(a)'
    <3>1. PICK status \in {"live", "archived"} : vault' = [vault EXCEPT ![b].status = status]
      BY <2>4 DEF Archive, Activate
    <3> DEFINE v == [vault[b] EXCEPT !.status = status]
    <3>2. cl[c].pc = "idle" /\ UNCHANGED <<index, box, cl>>
      BY <2>4 DEF Archive, Activate
    <3>3. vault' = [vault EXCEPT ![b] = v]
      BY <3>1
    <3>4. ~Gone(b)'
      BY <1>t, <3>1 DEF Gone, TypeOK
    <3> HIDE DEF v
    <3> QED BY <1>b, <3>2, <3>3, <3>4
  <2>5. ASSUME NEW b \in Bucket, Delete(c, b)
        PROVE  Serves(c)' /\ \A a \in Bucket : Noticed(a)'
    <3> DEFINE v == [vault[b] EXCEPT !.status = "deleted"]
    <3>1. /\ cl[c].pc = "idle" /\ UNCHANGED <<index, box>>
          /\ vault' = [vault EXCEPT ![b] = v] /\ Goto(c, "discardTurn", b, Nothing)
      BY <2>5 DEF Delete
    <3> HIDE DEF v
    <3> QED BY <1>b, <3>1
  <2>6. ASSUME NEW b \in Bucket, Ensure(c, b) \/ Repair(c, b)
        PROVE  Serves(c)' /\ \A a \in Bucket : Noticed(a)'
    <3>1. PICK pc, todo : Goto(c, pc, b, todo)
      BY <2>6 DEF Ensure, Repair
    <3>2. cl[c].pc = "idle" /\ UNCHANGED <<index, box, vault>> /\ ~Gone(b)'
      BY <2>6 DEF Ensure, Repair, Gone
    <3> QED BY <1>b, <3>1, <3>2
  <2> QED BY <1>1, <2>1, <2>2, <2>3, <2>4, <2>5, <2>6 DEF ClientBegins
<1>c. ClientStep(c) \/ ClientFault(c) => own \in Bucket /\ vault' = vault
  BY <1>p, <1>t
  DEF TypeOK, ClientStep, ClientFault, Queue, DiscardTurn, DiscardRead, DiscardItem, DiscardIndex,
      EnsureRead, EnsureAck, EnsureQueue, InlineStores, InlineFails, EnsurePending,
      QueueFails, DiscardTimeout, DiscardItemFails, DiscardIndexFails, EnsureQueueFails
<1>2. CASE Queue(c)
  <2>1. cl[c].pc = "queue" /\ index' = index /\ vault' = vault /\ own \in Bucket
    BY <1>p, <1>2, <1>c DEF Queue, ClientStep
  <2>2. \A a \in Bucket \ {own} : box'[a] = box[a]
    BY <1>p, <1>2, <1>t DEF Queue, Enqueue, TypeOK
  <2>3. ~Gone(own)' \/ own \in missed'
    BY <1>p, <1>f, <1>w, <2>1 DEF Serves, Gone
  <2>4. cl'[c].pc = "idle" \/ cl'[c].b = own
    BY <1>p, <1>2, <1>t DEF Queue, Goto, Return, IdleClient, TypeOK
  <2>5. Serves(c)'
    BY <1>p, <2>3, <2>4 DEF Serves
  <2> QED BY <1>p, <1>y, <2>1, <2>2, <2>3, <2>5 DEF Noticed
<1>3. CASE DiscardTurn(c) \/ DiscardItem(c)
  <2>1. cl[c].pc \in discards /\ index' = index /\ vault' = vault /\ own \in Bucket
    BY <1>p, <1>3, <1>c DEF DiscardTurn, DiscardItem, ClientStep
  <2>2. \A a \in Bucket \ {own} : box'[a] = box[a]
    BY <1>p, <1>3, <1>t DEF DiscardTurn, DiscardItem, Discard, TypeOK
  <2>3. cl'[c].pc \in {"discardRead", "discardIndex"} /\ cl'[c].b = own
    BY <1>p, <1>3, <1>t DEF DiscardTurn, DiscardItem, Goto, TypeOK
  <2>4. Sweeping(own)'
    BY <1>p, <2>3 DEF Sweeping
  <2> QED BY <1>p, <1>y, <2>1, <2>2, <2>3, <2>4 DEF Noticed, Serves
<1>4. CASE DiscardRead(c)
  <2>1. cl[c].pc \in discards /\ index' = index /\ box' = box /\ vault' = vault /\ own \in Bucket
    BY <1>p, <1>4, <1>c DEF DiscardRead, ClientStep
  <2>2. cl'[c].pc = "idle" \/ (cl'[c].pc = "discardItem" /\ cl'[c].b = own)
    BY <1>p, <1>4, <1>t DEF DiscardRead, Goto, Return, IdleClient, TypeOK
  <2>3. Gone(own) => cl'[c].pc = "discardItem" /\ cl'[c].b = own
    BY <1>p, <1>4, <1>t DEF DiscardRead, Goto, TypeOK
  <2>4. Gone(own)' => Sweeping(own)'
    BY <1>p, <2>1, <2>3 DEF Sweeping, Gone
  <2> QED BY <1>p, <1>y, <2>1, <2>2, <2>4 DEF Noticed, Serves
<1>5. CASE DiscardIndex(c)
  <2>1. box' = box /\ vault' = vault /\ own \in Bucket
    BY <1>p, <1>5, <1>c DEF DiscardIndex, ClientStep
  <2>2. cl'[c].pc = "idle"
    BY <1>p, <1>5, <1>t DEF DiscardIndex, Return, IdleClient, TypeOK
  <2>3. index'[own] = Nothing /\ \A a \in Bucket \ {own} : index'[a] = index[a]
    BY <1>p, <1>5, <1>t, <2>1 DEF DiscardIndex, TypeOK
  <2> QED BY <1>p, <1>y, <2>1, <2>2, <2>3 DEF Noticed, Serves
\* A fault is on record.
<1>6. CASE ClientFault(c)
  <2>1. own \in missed' /\ UNCHANGED <<vault, index, box>>
    BY <1>p, <1>6 DEF ClientFault, QueueFails, DiscardTimeout, DiscardItemFails, DiscardIndexFails, EnsureQueueFails
  <2>2. cl'[c].pc \in {"idle", "discardIndex", "inline"}
    BY <1>p, <1>6, <1>t DEF ClientFault, QueueFails, DiscardTimeout, DiscardItemFails, DiscardIndexFails,
                      EnsureQueueFails, Goto, Return, IdleClient, TypeOK
  <2> QED BY <1>p, <1>y, <2>1, <2>2 DEF Noticed, Serves
<1>7. CASE EnsureRead(c) \/ EnsureAck(c) \/ EnsureQueue(c) \/ InlineStores(c)
  <2>1. /\ cl[c].pc \in {"ensure", "ensureAck", "ensureQueue", "inline"}
        /\ vault' = vault /\ own \in Bucket
    BY <1>p, <1>7, <1>c DEF EnsureRead, EnsureAck, EnsureQueue, InlineStores, ClientStep
  <2>2. \A a \in Bucket \ {own} : index'[a] = index[a] /\ box'[a] = box[a]
    BY <1>p, <1>7, <1>t DEF EnsureRead, EnsureAck, EnsureQueue, InlineStores, Enqueue, Complete, TypeOK
  <2>3. ~Gone(own)' \/ own \in missed'
    BY <1>p, <1>f, <1>w, <2>1 DEF Serves, ClientKnows, Gone
  <2>4. cl'[c].pc = "idle" \/ cl'[c].b = own
    BY <1>p, <1>7, <1>t DEF EnsureRead, EnsureAck, EnsureQueue, InlineStores, Goto, Return, IdleClient, TypeOK
  <2>5. Serves(c)'
    BY <1>p, <2>3, <2>4 DEF Serves
  <2> QED BY <1>p, <1>y, <2>1, <2>2, <2>3, <2>5 DEF Noticed
<1>8. CASE InlineFails(c) \/ EnsurePending(c)
  <2>1. cl[c].pc \in {"inline", "repair"} /\ index' = index /\ vault' = vault /\ own \in Bucket
    BY <1>p, <1>8, <1>c DEF InlineFails, EnsurePending, ClientStep
  <2>2. cl'[c].pc = "idle"
    BY <1>p, <1>8, <1>t DEF InlineFails, EnsurePending, Return, IdleClient, TypeOK
  <2>3. ASSUME NEW a \in Bucket, box[a] # Nothing PROVE box'[a] # Nothing
    <3> DEFINE d == cl[c].todo["content"]
    <3>1. CASE box' = box
      BY <2>3, <3>1
    <3>2. CASE box' # box
      <4>1. /\ d # None /\ KindOf(d) = "content" /\ d # <<"body", Empty>>
            /\ box' = [box EXCEPT ![own][KindOf(d)] = d]
        <5>1. cl[c].todo["content"] # None /\ cl[c].todo \in Entry
          BY <1>p, <1>8, <1>t, <3>2 DEF InlineFails, EnsurePending, TypeOK
        <5>2. KindOf(d) = "content"
          BY <5>1 DEF Entry, Kind
        <5>3. /\ d # <<"body", Empty>>
              /\ box' = [box EXCEPT ![own][KindOf(d)] = IF d = <<"body", Empty>> THEN None ELSE d]
          BY <1>p, <1>8, <3>2 DEF InlineFails, EnsurePending, Enqueue
        <5> QED BY <5>1, <5>2, <5>3
      <4> HIDE DEF d
      <4>2. CASE a = own
        <5>1. box'[a]["content"] = d
          BY <1>p, <1>t, <4>1, <4>2 DEF TypeOK, Entry, Kind
        <5> QED BY <4>1, <5>1 DEF Nothing, Kind
      <4>3. CASE a # own
        BY <1>p, <1>t, <2>3, <4>1, <4>3 DEF TypeOK
      <4> QED BY <4>2, <4>3
    <3> QED BY <3>1, <3>2
  <2> QED BY <1>p, <1>u, <2>1, <2>2, <2>3 DEF Serves
<1> QED
  BY <1>1, <1>2, <1>3, <1>4, <1>5, <1>6, <1>7, <1>8 DEF ClientActs, ClientStep

LEMMA ElsewhereOrphans ==
    ASSUME IInv, Orphans, Elsewhere
    PROVE  Orphans'
<1>t. TypeOK /\ TypeOK'
  BY OtherTypeStep DEF IInv, Elsewhere
<1>1. CASE Crash
  <2>1. /\ UNCHANGED <<vault, box, index>>
        /\ \A w \in Worker : wk'[w] = IdleWorker
        /\ \A c \in Client : cl'[c] = IdleClient
        /\ \A b \in Bucket : b \in missed \/ Sweeping(b) => b \in missed'
    BY <1>1 DEF Crash
  <2>2. (\A w \in Worker : Settles(w)') /\ \A c \in Client : Serves(c)'
    BY <2>1 DEF Settles, Serves, IdleWorker, IdleClient
  <2>3. \A b \in Bucket : Noticed(b)'
    BY <2>1 DEF Orphans, Noticed, Gone
  <2> QED BY <2>2, <2>3 DEF Orphans
<1>2. CASE ~Crash
  <2>1. UNCHANGED <<vault, index, wk, cl, missed>>
    BY <1>2 DEF Elsewhere, Reconcile, ReconcileGivesUp, ListBuckets, Candidates, Reread, Confirm,
                QueueMissing, RecUnchanged, BecomesDue, RetryNow, Start
  <2>2. (\A w \in Worker : Settles(w)') /\ \A c \in Client : Serves(c)'
    BY <2>1 DEF Orphans, Settles, Serves, Gone
  <2>3. ASSUME NEW b \in Bucket PROVE Noticed(b)'
    <3>1. box[b] # Nothing => box'[b] # Nothing
      <4>1. box[b] \in Entry /\ box'[b] \in Entry
        BY <1>t DEF TypeOK
      <4>2. \A k \in Kind : box[b][k] # None => box'[b][k] # None
        BY <1>t, ElsewhereBox
      <4> QED BY <4>1, <4>2, NonEmpty
    <3>2. Sweeping(b) => Sweeping(b)'
      BY <2>1 DEF Sweeping
    <3>3. Noticed(b)
      BY DEF Orphans
    <3> QED BY <2>1, <3>1, <3>2, <3>3, StaysNoticed
  <2> QED BY <2>2, <2>3 DEF Orphans
<1> QED BY <1>1, <1>2

LEMMA OrphansInit == Init => Orphans
<1> SUFFICES ASSUME Init PROVE Orphans
  OBVIOUS
<1>1. /\ \A w \in Worker : wk[w].pc = "idle"
      /\ \A c \in Client : cl[c].pc = "idle"
      /\ \A b \in Bucket : index[b] = Nothing
  BY DEF Init, IdleWorker, IdleClient
<1> QED BY <1>1 DEF Orphans, Settles, Serves, Noticed

LEMMA OrphansStep == SingleLoop /\ IInv /\ Orphans /\ [Next]_vars => Orphans'
<1> SUFFICES ASSUME SingleLoop, IInv, Orphans, [Next]_vars PROVE Orphans'
  OBVIOUS
<1>1. CASE UNCHANGED vars
  BY <1>1 DEF vars, Orphans, Settles, Serves, Noticed, Gone, Sweeping
<1>2. CASE Next
  <2>1. \/ \E c \in Client : ClientActs(c)
        \/ \E w \in Worker : WorkerActs(w)
        \/ Elsewhere
    BY <1>2 DEF Next, ClientActs, WorkerActs, Elsewhere
  <2> QED BY <2>1, ClientOrphans, WorkerOrphans, ElsewhereOrphans
<1> QED BY <1>1, <1>2

\* In one event loop the vector of a deleted bucket never survives unnoticed,
\* however late the provider answers: an outbox item or a running sweep will
\* remove it, unless a failed or interrupted removal is on record.
THEOREM OneLoopLeavesNoOrphan == SingleLoop => (Spec => []NoOrphanVector)
<1> SUFFICES ASSUME SingleLoop PROVE Spec => []NoOrphanVector
  OBVIOUS
<1>1. Init => IInv /\ Orphans
  BY IInvInit, OrphansInit
<1>2. (IInv /\ Orphans) /\ [Next]_vars => (IInv /\ Orphans)'
  BY IInvStep, OrphansStep
<1>3. IInv /\ Orphans => NoOrphanVector
  BY DEF Orphans, Noticed, NoOrphanVector
<1> QED BY <1>1, <1>2, <1>3, PTL DEF Spec
=============================================================================

------------------------- MODULE OutboxWorkersProofs -------------------------
(***************************************************************************)
(* EmbeddingOutbox without a common loop: any number of workers, in any    *)
(* number of processes, and the reconciler interleave freely with the      *)
(* request handlers.  What orders them is the lease of the derived index   *)
(* and the comparison of digests alone.                                    *)
(***************************************************************************)
EXTENDS EmbeddingOutboxProofs

-----------------------------------------------------------------------------
(* What is asked of the handlers.  No memory is written while the digests  *)
(* of its last commit are still to be registered or its last deletion is   *)
(* still to be swept; handlers on different memories do not matter.  The   *)
(* operations that need a common loop are left out.                        *)

HandlersApart ==
    \A c, d \in Client :
        c # d /\ cl[c].pc # "idle" /\ cl[d].pc # "idle" => cl[c].b # cl[d].b

SharedOps == Ops \cap {"restore", "ensure"} = {} /\ Empty \notin Body

-----------------------------------------------------------------------------
(* The inductive invariant.  A worker that holds the lease of a bucket has *)
(* the component it works on pending until it lets go: whatever the vault  *)
(* and the handlers do meanwhile, the outbox still owes that component.    *)
(* So all that has to be known is when an acknowledgement takes it out.    *)

Absent(b) == vault[b].status = "absent"
Deleted(b) == vault[b].status = "deleted"
Holds(w) == wk[w].pc \notin {"idle", "turn"}

\* The digests that a commit of what the bucket holds now would register.
Current(b, k) == IF k = "content" THEN <<"body", vault[b].body>> ELSE <<"meaning", vault[b].meaning>>

\* The vector v was made from digest d.
MadeFrom(v, d) == v = IF d = <<"meaning", NoMeaning>> THEN None ELSE d

\* A deletion of b waits for the lease.
Waiting(b) == \E c \in Client : cl[c].pc = "discardTurn" /\ cl[c].b = b

\* A worker about to acknowledge takes nothing out that is still wanted: if
\* the text has changed since its second read, the new one is either pending
\* already, in place of its digest, or still to be registered; if the bucket
\* has been deleted since, the sweep waits for this worker.
AckSafe(w) ==
    LET b == wk[w].b
        d == wk[w].want
    IN wk[w].pc = "ack" =>
         /\ ~Gone(b) /\ box[b][KindOf(d)] = d /\ d # Rerender(b, d) => Owed(b, KindOf(d)) \/ b \in missed
         /\ Gone(b) => Waiting(b) \/ b \in missed

WorkerHas(w) ==
    LET b == wk[w].b
        d == wk[w].want
    IN /\ wk[w].pc # "idle" => ~Absent(b)
       /\ Holds(w) => lease[b] = w /\ box[b][KindOf(d)] # None
       /\ wk[w].pc = "requeue" => d # <<"body", Empty>>
       /\ wk[w].pc = "clear" => d = <<"meaning", NoMeaning>>
       /\ wk[w].pc = "generate" => d # <<"meaning", NoMeaning>>
       /\ wk[w].pc \in {"dropIndex", "dropItem"} => Deleted(b)
       /\ wk[w].pc = "dropItem" => index[b] = Nothing \/ b \in missed
       /\ wk[w].pc \in {"verify", "ack"} => MadeFrom(index[b][KindOf(d)], d)

Discarding == {"discardTurn", "discardRead", "discardItem", "discardIndex"}

ClientHas(c) ==
    LET b == cl[c].b
    IN /\ cl[c].pc \in {"idle", "queue", "repair"} \cup Discarding
       /\ cl[c].pc \in {"queue", "repair"} => ~Gone(b)
       /\ cl[c].pc = "queue" => \A k \in Kind : cl[c].todo[k] \in {None, Current(b, k)}
       /\ cl[c].pc = "repair" => cl[c].todo["content"] = Current(b, "content")
       /\ cl[c].pc \in Discarding => Deleted(b)
       /\ cl[c].pc \in Discarding \ {"discardTurn"} => lease[b] = c

\* A bucket that was never created has left no trace; any other has a body.
Traceless(b) ==
    /\ Absent(b) => box[b] = Nothing /\ index[b] = Nothing
    /\ ~Absent(b) => vault[b].body # Empty

Kept(b, k) == Stale(b, k) => box[b][k] # None \/ Owed(b, k) \/ b \in missed

SeenIsThere == \A e \in rec.seen : ~Absent(e[1])

SInv ==
    /\ TypeOK
    /\ \A w \in Worker : WorkerHas(w) /\ AckSafe(w)
    /\ \A c \in Client : ClientHas(c)
    /\ \A b \in Bucket : Traceless(b) /\ Noticed(b) /\ \A k \in Kind : Kept(b, k)
    /\ SeenIsThere

-----------------------------------------------------------------------------
(* Frames *)

LEMMA WorkerStays ==
    ASSUME NEW w \in Worker, WorkerHas(w), wk'[w] = wk[w], missed \subseteq missed',
           NEW b, NEW k, wk[w].pc # "idle" => b = wk[w].b /\ k = KindOf(wk[w].want),
           ~Absent(b) => ~Absent(b)', Deleted(b) => Deleted(b)',
           Holds(w) => /\ lease'[b] = lease[b] /\ index'[b] = index[b]
                       /\ box[b][k] # None => box'[b][k] # None
    PROVE  WorkerHas(w)'
  BY DEF WorkerHas, Holds, Absent, Deleted, MadeFrom

LEMMA AckStays ==
    ASSUME NEW w \in Worker, AckSafe(w), wk'[w] = wk[w], missed \subseteq missed',
           NEW b, NEW k, wk[w].pc # "idle" => b = wk[w].b /\ k = KindOf(wk[w].want),
           vault'[b] = vault[b], wk[w].pc = "ack" => box'[b][k] = box[b][k],
           Owed(b, k) => Owed(b, k)' \/ b \in missed',
           wk[w].pc = "ack" /\ Waiting(b) => Waiting(b)' \/ b \in missed'
    PROVE  AckSafe(w)'
  BY DEF AckSafe, Gone, Rerender

LEMMA AckBecomes ==
    ASSUME NEW w \in Worker, NEW b, NEW d, NEW k,
           wk'[w].b = b, wk'[w].want = d, k = KindOf(d),
           ~Gone(b)' /\ box'[b][k] = d /\ d # Rerender(b, d)' => Owed(b, k)' \/ b \in missed',
           Gone(b)' => Waiting(b)' \/ b \in missed'
    PROVE  AckSafe(w)'
  BY DEF AckSafe

LEMMA AckSays ==
    ASSUME NEW w \in Worker, AckSafe(w), NEW b, NEW d, NEW k,
           wk[w].pc = "ack", wk[w].b = b, wk[w].want = d, k = KindOf(d)
    PROVE  /\ ~Gone(b) /\ box[b][k] = d /\ d # Rerender(b, d) => Owed(b, k) \/ b \in missed
           /\ Gone(b) => Waiting(b) \/ b \in missed
  BY DEF AckSafe

LEMMA ClientStays ==
    ASSUME NEW c \in Client, ClientHas(c), cl'[c] = cl[c],
           NEW b, cl[c].pc # "idle" => b = cl[c].b,
           Gone(b)' = Gone(b), Deleted(b) => Deleted(b)',
           vault'[b].body = vault[b].body, vault'[b].meaning = vault[b].meaning,
           cl[c].pc \in Discarding \ {"discardTurn"} => lease'[b] = lease[b]
    PROVE  ClientHas(c)'
  <1>1. CASE cl[c].pc = "idle"
    BY <1>1 DEF ClientHas, Discarding
  <1>2. CASE cl[c].pc # "idle"
    BY <1>2 DEF ClientHas, Discarding, Deleted, Current
  <1> QED
    BY <1>1, <1>2

LEMMA KeptStays ==
    ASSUME NEW b \in Bucket, NEW k \in Kind, Kept(b, k), vault'[b] = vault[b],
           index'[b][k] = index[b][k], box[b][k] # None => box'[b][k] # None,
           Owed(b, k) => Owed(b, k)', missed \subseteq missed'
    PROVE  Kept(b, k)'
  BY DEF Kept, Stale, StaleBody, StaleMeaning, Gone, Kind

LEMMA TracelessStays ==
    ASSUME NEW b \in Bucket, Traceless(b), vault'[b] = vault[b],
           Absent(b) => box'[b] = box[b] /\ index'[b] = index[b]
    PROVE  Traceless(b)'
  BY DEF Traceless, Absent

-----------------------------------------------------------------------------
(* A worker touches nothing but the bucket whose lease it holds. *)

LEMMA WorkerTouches ==
    ASSUME SInv, NEW w \in Worker, WorkerActs(w), NEW a \in Bucket
    PROVE  /\ ~(Holds(w) /\ wk[w].b = a) => box'[a] = box[a] /\ index'[a] = index[a]
           /\ lease[a] \notin {w, Nobody} => lease'[a] = lease[a]
  <1>t. TypeOK /\ WorkerHas(w)
    BY DEF SInv
  <1>1. ASSUME NEW b \in Bucket, NEW k \in Kind, Pick(w, b, k)
        PROVE  UNCHANGED <<box, index, lease>>
    BY <1>1 DEF Pick
  <1>2. CASE Enter(w)
    BY <1>2, <1>t DEF Enter, TypeOK
  <1>3. CASE TurnTimeout(w)
    BY <1>3 DEF TurnTimeout, Postpone
  <1>4. CASE Read(w) \/ Verify(w) \/ DropIndexFails(w)
    BY <1>4 DEF Read, Verify, DropIndexFails
  <1>5. CASE DropIndex(w) \/ Clear(w) \/ Store(w)
    BY <1>5, <1>t DEF DropIndex, Clear, Store, Holds, TypeOK
  <1>6. CASE DropItem(w) \/ Requeue(w) \/ Ack(w) \/ Fail(w) \/ OutcomeLost(w)
    <2>1. index' = index /\ Holds(w) /\ Release(w)
      BY <1>6 DEF DropItem, Requeue, Ack, Fail, OutcomeLost, Holds
    <2>2. wk[w].b # a => box'[a] = box[a]
      BY <1>6, <1>t DEF DropItem, Requeue, Ack, Fail, OutcomeLost, Discard, Enqueue, Complete, Postpone, TypeOK
    <2>3. lease[a] # w => lease'[a] = lease[a]
      <3>1. lease[wk[w].b] = w
        BY <1>t, <2>1 DEF WorkerHas
      <3> QED
        BY <2>1, <3>1, <1>t DEF Release, TypeOK
    <2> QED
      BY <2>1, <2>2, <2>3
  <1> QED
    BY <1>1, <1>2, <1>3, <1>4, <1>5, <1>6 DEF WorkerActs, WorkerStep, WorkerFault

LEMMA WorkerSparesOthers ==
    ASSUME SInv, NEW w \in Worker, WorkerActs(w)
    PROVE  /\ \A x \in Worker \ {w} : WorkerHas(x)' /\ AckSafe(x)'
           /\ \A c \in Client : ClientHas(c)'
           /\ SeenIsThere'
  <1>t. TypeOK
    BY DEF SInv
  <1>f. /\ \A x \in Worker \ {w} : wk'[x] = wk[x]
        /\ vault' = vault /\ cl' = cl /\ rec' = rec /\ missed \subseteq missed'
    BY <1>t, WorkerFrame
  <1>n. w # Nobody /\ w \notin Client
    BY NobodyAssumption, ActorsAssumption
  <1>1. ASSUME NEW x \in Worker \ {w} PROVE WorkerHas(x)' /\ AckSafe(x)'
    <2>p. PICK b, k : b = wk[x].b /\ k = KindOf(wk[x].want)
      OBVIOUS
    <2>h. WorkerHas(x) /\ AckSafe(x) /\ WorkerHas(w)
      BY DEF SInv
    <2>1. ASSUME Holds(x) PROVE lease'[b] = lease[b] /\ index'[b] = index[b] /\ box'[b] = box[b]
      <3>1. b \in Bucket /\ lease[b] = x /\ x # Nobody
        BY <2>1, <2>p, <2>h, <1>t, NobodyAssumption DEF WorkerHas, Holds, TypeOK
      <3>2. ~(Holds(w) /\ wk[w].b = b)
        BY <2>h, <3>1 DEF WorkerHas
      <3> QED
        BY <3>1, <3>2, WorkerTouches
    <2>2. WorkerHas(x)'
      BY <1>f, <2>p, <2>h, <2>1, WorkerStays DEF Absent, Deleted
    <2>3. wk[x].pc = "ack" => Holds(x)
      BY DEF Holds
    <2>4. /\ Owed(b, k) => Owed(b, k)'
          /\ Waiting(b) => Waiting(b)'
      BY <1>f DEF Owed, Waiting
    <2>5. AckSafe(x)'
      BY <1>f, <2>p, <2>h, <2>1, <2>3, <2>4, AckStays
    <2> QED
      BY <2>2, <2>5
  <1>2. ASSUME NEW c \in Client PROVE ClientHas(c)'
    <2>p. PICK b : b = cl[c].b
      OBVIOUS
    <2>h. ClientHas(c)
      BY DEF SInv
    <2>1. ASSUME cl[c].pc \in Discarding \ {"discardTurn"} PROVE lease'[b] = lease[b]
      <3>1. b \in Bucket /\ lease[b] = c
        BY <2>1, <2>p, <2>h, <1>t DEF ClientHas, Discarding, TypeOK
      <3>2. c \notin {w, Nobody}
        BY <1>n, NobodyAssumption
      <3> QED
        BY <3>1, <3>2, WorkerTouches
    <2>2. Gone(b)' = Gone(b) /\ (Deleted(b) => Deleted(b)')
      BY <1>f DEF Gone, Deleted
    <2> QED
      BY <1>f, <2>p, <2>h, <2>1, <2>2, ClientStays
  <1>3. SeenIsThere'
    BY <1>f DEF SInv, SeenIsThere, Absent
  <1> QED
    BY <1>1, <1>2, <1>3

-----------------------------------------------------------------------------
(* A worker's own step *)

LEMMA WorkerOwn ==
    ASSUME SInv, NEW w \in Worker, WorkerActs(w)
    PROVE  WorkerHas(w)' /\ AckSafe(w)'
  <1> USE DEF WorkerPc
  <1>p. PICK b, d, k : b = wk[w].b /\ d = wk[w].want /\ k = KindOf(d)
    OBVIOUS
  <1>t. TypeOK
    BY DEF SInv
  <1>f. vault' = vault /\ cl' = cl /\ missed \subseteq missed'
    BY <1>t, WorkerFrame
  <1>i. wk[w].pc # "idle" => b \in Bucket /\ d \in Digest /\ k \in Kind
    BY <1>t, <1>p, DigestFacts DEF TypeOK
  <1>w. WorkerHas(w) /\ AckSafe(w)
    BY DEF SInv
  <1>h. Holds(w) => lease[b] = w /\ box[b][k] # None /\ ~Absent(b) /\ vault[b].body # Empty
    <2> SUFFICES ASSUME Holds(w) PROVE lease[b] = w /\ box[b][k] # None /\ ~Absent(b) /\ vault[b].body # Empty
      OBVIOUS
    <2>1. lease[b] = w /\ box[b][k] # None /\ ~Absent(b)
      BY <1>p, <1>w DEF WorkerHas, Holds
    <2> QED
      BY <1>i, <2>1 DEF SInv, Traceless, Holds
  \* Every step but the first leaves the worker idle or with the same bucket.
  <1>e. ASSUME wk'[w].pc = "idle" PROVE WorkerHas(w)' /\ AckSafe(w)'
    BY <1>e DEF WorkerHas, AckSafe, Holds
  <1>g. ASSUME Holds(w), box' = box, lease' = lease, wk'[w].b = b, KindOf(wk'[w].want) = k,
               wk'[w].pc = "requeue" => wk'[w].want # <<"body", Empty>>,
               wk'[w].pc = "clear" => wk'[w].want = <<"meaning", NoMeaning>>,
               wk'[w].pc = "generate" => wk'[w].want # <<"meaning", NoMeaning>>,
               wk'[w].pc \in {"dropIndex", "dropItem"} => Deleted(b),
               wk'[w].pc = "dropItem" => index'[b] = Nothing \/ b \in missed',
               wk'[w].pc \in {"verify", "ack"} => MadeFrom(index'[b][k], wk'[w].want),
               wk'[w].pc = "ack" => ~Gone(b) /\ wk'[w].want = Rerender(b, wk'[w].want)
        PROVE  WorkerHas(w)' /\ AckSafe(w)'
    <2>1. WorkerHas(w)'
      BY <1>f, <1>h, <1>g DEF WorkerHas, Holds, Absent, Deleted, MadeFrom
    <2>2. AckSafe(w)'
      BY <1>f, <1>g DEF AckSafe, Gone, Rerender
    <2> QED
      BY <2>1, <2>2
  <1>1. ASSUME NEW a \in Bucket, NEW j \in Kind, Pick(w, a, j)
        PROVE  WorkerHas(w)' /\ AckSafe(w)'
    <2>1. wk'[w].pc = "turn" /\ wk'[w].b = a
      BY <1>1, <1>t DEF Pick, TypeOK
    <2>2. box[a] # Nothing
      BY <1>1, NothingFacts DEF Pick
    <2>3. ~Absent(a)
      BY <2>2 DEF SInv, Traceless
    <2> QED
      BY <1>f, <2>1, <2>3 DEF WorkerHas, AckSafe, Holds, Absent
  <1>2. CASE Enter(w)
    <2>1. wk[w].pc = "turn"
      BY <1>2 DEF Enter
    <2>2. CASE wk'[w].pc = "idle"
      BY <1>e, <2>2
    <2>3. CASE wk'[w].pc # "idle"
      <3>1. /\ wk'[w].pc = "read" /\ wk'[w].b = b /\ wk'[w].want = d
            /\ lease'[b] = w /\ box[b][k] = d /\ box' = box
        BY <1>2, <1>p, <1>i, <1>t, <2>1, <2>3 DEF Enter, Hold, IdleWorker, TypeOK
      <3>2. box[b][k] # None /\ ~Absent(b)
        BY <1>i, <1>p, <1>w, <2>1, <3>1, DigestFacts DEF WorkerHas
      <3> QED
        BY <1>f, <1>p, <3>1, <3>2 DEF WorkerHas, AckSafe, Holds, Absent
    <2> QED
      BY <2>2, <2>3
  <1>3. CASE Read(w)
    <2>1. Holds(w) /\ wk[w].pc = "read" /\ UNCHANGED <<box, lease, index>>
      BY <1>3 DEF Read, Holds
    <2>2. /\ wk'[w].b = b
          /\ \/ wk'[w].pc = "dropIndex" /\ Gone(b) /\ wk'[w].want = d
             \/ wk'[w].pc = "requeue" /\ ~Gone(b) /\ wk'[w].want = Canonical(b, d)
             \/ wk'[w].pc = "clear" /\ wk'[w].want = <<"meaning", NoMeaning>> /\ wk'[w].want = d
             \/ wk'[w].pc = "generate" /\ wk'[w].want # <<"meaning", NoMeaning>> /\ wk'[w].want = d
      BY <1>3, <1>t, <1>p, <1>h, <2>1 DEF Read, Hold, TypeOK
    <2>3. KindOf(Canonical(b, d)) = k /\ Canonical(b, d) # <<"body", Empty>>
      BY <1>h, <1>i, <1>p, <1>t, <2>1, RenderFacts DEF Canonical, Holds
    <2>4. Gone(b) => Deleted(b)
      BY <1>h, <2>1 DEF Gone, Deleted, Absent
    <2> QED
      BY <1>g, <1>p, <2>1, <2>2, <2>3, <2>4
  <1>4. CASE DropIndex(w) \/ DropIndexFails(w)
    <2>1. /\ Holds(w) /\ wk[w].pc = "dropIndex" /\ UNCHANGED <<box, lease>>
          /\ wk'[w].pc = "dropItem" /\ wk'[w].b = b /\ wk'[w].want = d
      BY <1>4, <1>t, <1>p DEF DropIndex, DropIndexFails, Hold, Holds, TypeOK
    <2>2. index'[b] = Nothing \/ b \in missed'
      BY <1>4, <1>t, <1>p, <1>i, <2>1 DEF DropIndex, DropIndexFails, TypeOK
    <2>3. Deleted(b)
      BY <1>p, <1>w, <2>1 DEF WorkerHas
    <2> QED
      BY <1>g, <1>p, <2>1, <2>2, <2>3
  <1>5. CASE Clear(w) \/ Store(w)
    <2>1. /\ Holds(w) /\ wk[w].pc \in {"clear", "generate"} /\ UNCHANGED <<box, lease>>
          /\ wk'[w].pc = "verify" /\ wk'[w].b = b /\ wk'[w].want = d
      BY <1>5, <1>t, <1>p DEF Clear, Store, Hold, Holds, TypeOK
    <2>2. MadeFrom(index'[b][k], d)
      <3>1. CASE Clear(w)
        <4>1. d = <<"meaning", NoMeaning>> /\ k = "meaning"
          BY <1>p, <1>w, <3>1 DEF Clear, WorkerHas, KindOf
        <4> QED
          BY <1>p, <1>i, <1>t, <2>1, <3>1, <4>1 DEF Clear, MadeFrom, TypeOK, Entry
      <3>2. CASE Store(w)
        <4>1. d # <<"meaning", NoMeaning>>
          BY <1>p, <1>w, <3>2 DEF Store, WorkerHas
        <4> QED
          BY <1>p, <1>i, <1>t, <2>1, <3>2, <4>1 DEF Store, MadeFrom, TypeOK, Entry
      <3> QED
        BY <1>5, <3>1, <3>2
    <2> QED
      BY <1>g, <1>p, <2>1, <2>2
  <1>6. CASE Verify(w)
    <2>1. /\ Holds(w) /\ wk[w].pc = "verify" /\ UNCHANGED <<box, lease, index>>
          /\ wk'[w].b = b
          /\ \/ wk'[w].pc = "dropIndex" /\ Gone(b) /\ wk'[w].want = d
             \/ wk'[w].pc = "ack" /\ ~Gone(b) /\ d = Rerender(b, d) /\ wk'[w].want = d
             \/ wk'[w].pc = "requeue" /\ ~Gone(b) /\ wk'[w].want = Rerender(b, d)
      BY <1>6, <1>t, <1>p DEF Verify, Hold, Holds, TypeOK
    <2>2. KindOf(Rerender(b, d)) = k /\ Rerender(b, d) # <<"body", Empty>>
      BY <1>h, <1>i, <1>p, <1>t, <2>1, RenderFacts DEF Rerender
    <2>3. Gone(b) => Deleted(b)
      BY <1>h, <2>1 DEF Gone, Deleted, Absent
    <2>4. MadeFrom(index[b][k], d)
      BY <1>p, <1>w, <2>1 DEF WorkerHas
    <2> QED
      BY <1>g, <1>p, <2>1, <2>2, <2>3, <2>4
  <1>7. CASE TurnTimeout(w) \/ DropItem(w) \/ Requeue(w) \/ Ack(w) \/ Fail(w) \/ OutcomeLost(w)
    <2>1. wk'[w].pc = "idle"
      BY <1>7, <1>t
      DEF TurnTimeout, DropItem, Requeue, Ack, Fail, OutcomeLost, Release, IdleWorker, TypeOK
    <2> QED
      BY <1>e, <2>1
  <1> QED
    BY <1>1, <1>2, <1>3, <1>4, <1>5, <1>6, <1>7 DEF WorkerActs, WorkerStep, WorkerFault

\* What a worker does to the bucket whose lease it holds.
LEMMA WorkerKeepsBuckets ==
    ASSUME SInv, NEW w \in Worker, WorkerActs(w), NEW a \in Bucket
    PROVE  Traceless(a)' /\ Noticed(a)' /\ \A j \in Kind : Kept(a, j)'
  <1>p. PICK b, d, k : b = wk[w].b /\ d = wk[w].want /\ k = KindOf(d)
    OBVIOUS
  <1>t. TypeOK /\ TypeOK'
    BY WorkerTypeStep DEF SInv, WorkerActs
  <1>f. /\ \A x \in Worker \ {w} : wk'[x] = wk[x]
        /\ vault' = vault /\ cl' = cl /\ missed \subseteq missed'
    BY <1>t, WorkerFrame
  <1>i. wk[w].pc # "idle" => b \in Bucket /\ d \in Digest /\ k \in Kind
    BY <1>t, <1>p, DigestFacts DEF TypeOK
  <1>w. WorkerHas(w) /\ AckSafe(w) /\ Traceless(a) /\ Noticed(a) /\ \A j \in Kind : Kept(a, j)
    BY DEF SInv
  <1>o. \A j \in Kind : (Owed(a, j) => Owed(a, j)') /\ (Waiting(a) => Waiting(a)')
    BY <1>f DEF Owed, Waiting
  <1>n. \A e \in Entry : \A j \in Kind : e[j] # None => e # Nothing
    BY NothingFacts
  <1>1. CASE ~(Holds(w) /\ b = a)
    <2>1. box'[a] = box[a] /\ index'[a] = index[a]
      BY <1>1, <1>p, WorkerTouches
    <2>2. Traceless(a)'
      BY <1>f, <1>w, <2>1, TracelessStays
    <2>3. \A j \in Kind : Kept(a, j)'
      BY <1>f, <1>o, <1>w, <2>1, KeptStays
    <2>4. Sweeping(a) => Sweeping(a)'
      BY <1>1, <1>f, <1>p DEF Sweeping, Holds
    <2>5. Noticed(a)'
      BY <1>f, <1>w, <2>1, <2>4, StaysNoticed
    <2> QED
      BY <2>2, <2>3, <2>5
  <1>2. CASE Holds(w) /\ b = a
    <2>h. lease[a] = w /\ box[a][k] # None /\ ~Absent(a) /\ a \in Bucket /\ d \in Digest /\ k \in Kind
      BY <1>2, <1>i, <1>p, <1>w DEF WorkerHas, Holds
    <2>0. Traceless(a)'
      BY <1>f, <1>w, <2>h, TracelessStays
    \* One component of a stays pending, and the other is left alone.
    <2>u. ASSUME box'[a][k] # None,
                 \A j \in Kind \ {k} : index'[a][j] = index[a][j] /\ box'[a][j] = box[a][j]
          PROVE  Noticed(a)' /\ \A j \in Kind : Kept(a, j)'
      <3>1. Noticed(a)'
        BY <1>n, <1>t, <2>h, <2>u DEF Noticed, TypeOK
      <3>2. ASSUME NEW j \in Kind PROVE Kept(a, j)'
        <4>1. CASE j = k
          BY <2>u, <4>1 DEF Kept
        <4>2. CASE j # k
          BY <1>f, <1>o, <1>w, <2>u, <4>2, KeptStays
        <4> QED
          BY <4>1, <4>2
      <3> QED
        BY <3>1, <3>2
    \* The bucket is deleted.
    <2>v. ASSUME Deleted(a) PROVE \A j \in Kind : Kept(a, j)'
      BY <1>f, <2>v DEF Kept, Stale, Gone, Deleted
    <2>1. CASE Read(w) \/ Verify(w) \/ Fail(w) \/ OutcomeLost(w) \/ DropIndexFails(w)
      <3>1. box' = box /\ index' = index
        BY <2>1 DEF Read, Verify, Fail, OutcomeLost, DropIndexFails, Postpone
      <3> QED
        BY <2>0, <2>h, <2>u, <3>1
    <2>2. CASE Clear(w) \/ Store(w)
      <3>1. box' = box /\ \A j \in Kind \ {k} : index'[a][j] = index[a][j]
        <4>1. CASE Clear(w)
          <5>1. k = "meaning"
            BY <1>p, <1>w, <4>1 DEF Clear, WorkerHas, KindOf
          <5> QED
            BY <1>2, <1>p, <1>t, <2>h, <4>1, <5>1 DEF Clear, TypeOK, Entry
        <4>2. CASE Store(w)
          BY <1>2, <1>p, <1>t, <2>h, <4>2 DEF Store, TypeOK, Entry
        <4> QED
          BY <2>2, <4>1, <4>2
      <3> QED
        BY <2>0, <2>h, <2>u, <3>1
    <2>3. CASE DropIndex(w)
      <3>1. Deleted(a) /\ box' = box
        BY <1>2, <1>p, <1>w, <2>3 DEF DropIndex, WorkerHas
      <3>2. Noticed(a)'
        BY <1>n, <1>t, <2>h, <3>1 DEF Noticed, TypeOK
      <3> QED
        BY <2>0, <2>v, <3>1, <3>2
    <2>4. CASE DropItem(w)
      <3>1. Deleted(a) /\ index' = index /\ (index[a] = Nothing \/ a \in missed)
        BY <1>2, <1>p, <1>w, <2>4 DEF DropItem, WorkerHas
      <3>2. Noticed(a)'
        BY <1>f, <3>1 DEF Noticed
      <3> QED
        BY <2>0, <2>v, <3>1, <3>2
    <2>5. CASE Requeue(w)
      <3>1. /\ index' = index /\ d # <<"body", Empty>>
            /\ box' = [box EXCEPT ![a][k] = d]
        BY <1>2, <1>p, <1>w, <2>5 DEF Requeue, Enqueue, WorkerHas
      <3>2. box'[a][k] = d /\ \A j \in Kind \ {k} : box'[a][j] = box[a][j]
        BY <1>t, <2>h, <3>1 DEF TypeOK, Entry
      <3> QED
        BY <2>0, <2>h, <2>u, <3>1, <3>2, DigestFacts
    <2>6. CASE Ack(w)
      <3>1. wk[w].pc = "ack" /\ index' = index /\ Complete(a, d)
        BY <1>2, <1>p, <2>6 DEF Ack
      <3>2. \A j \in Kind \ {k} : box'[a][j] = box[a][j]
        BY <1>p, <1>t, <2>h, <3>1 DEF Complete, TypeOK, Entry
      <3>3. box'[a][k] # None \/ box[a][k] = d
        BY <1>p, <2>h, <3>1 DEF Complete
      <3>4. /\ ~Gone(a) /\ box[a][k] = d /\ d # Rerender(a, d) => Owed(a, k) \/ a \in missed
            /\ Gone(a) => Waiting(a) \/ a \in missed
            /\ MadeFrom(index[a][k], d)
        BY <1>2, <1>p, <1>w, <3>1 DEF AckSafe, WorkerHas
      <3>5. Noticed(a)'
        <4>1. Waiting(a)' => Sweeping(a)'
          BY DEF Waiting, Sweeping
        <4>2. Gone(a)' = Gone(a)
          BY <1>f DEF Gone
        <4>3. CASE Gone(a)
          BY <1>f, <1>o, <2>h, <3>4, <4>1, <4>3 DEF Noticed
        <4>4. CASE ~Gone(a)
          BY <4>2, <4>4 DEF Noticed
        <4> QED
          BY <4>3, <4>4
      <3>6. ASSUME NEW j \in Kind PROVE Kept(a, j)'
        <4>1. CASE j # k
          BY <1>f, <1>o, <1>w, <3>1, <3>2, <4>1, KeptStays
        <4>2. CASE j = k /\ box'[a][k] # None
          BY <4>2 DEF Kept
        <4>3. CASE j = k /\ box[a][k] = d /\ (Owed(a, k) \/ a \in missed)
          BY <1>f, <1>o, <4>3 DEF Kept
        <4>4. CASE j = k /\ box[a][k] = d /\ (Gone(a) \/ d = Rerender(a, d))
          <5>1. ~Stale(a, k)
            BY <1>p, <1>t, <2>h, <3>4, <4>4
            DEF Stale, StaleBody, StaleMeaning, MadeFrom, Rerender, Digest, ContentDigest,
                MeaningDigest, KindOf
          <5> QED
            BY <1>f, <3>1, <4>4, <5>1 DEF Kept, Stale, StaleBody, StaleMeaning, Gone
        <4> QED
          BY <3>3, <3>4, <4>1, <4>2, <4>3, <4>4
      <3> QED
        BY <2>0, <3>5, <3>6
    <2> QED
      <3>1. \A x \in Bucket, j \in Kind : ~Pick(w, x, j)
        BY <1>2 DEF Pick, Holds
      <3>2. ~Enter(w) /\ ~TurnTimeout(w)
        BY <1>2 DEF Enter, TurnTimeout, Holds
      <3> QED
        BY <2>1, <2>2, <2>3, <2>4, <2>5, <2>6, <3>1, <3>2 DEF WorkerActs, WorkerStep, WorkerFault
  <1> QED
    BY <1>1, <1>2

-----------------------------------------------------------------------------
(* A handler commits.  To the outbox, the index and the leases nothing     *)
(* happens yet; what a commit leaves to be done is in the hands of the     *)
(* handler.                                                                *)

\* create, update: whatever has changed is going to be registered.
Registers(c, b) ==
    /\ ~Gone(b)' /\ vault'[b].body # Empty /\ ~Deleted(b)
    /\ cl'[c].pc = "queue" /\ cl'[c].b = b
    /\ \A k \in Kind : cl'[c].todo[k] \in {None, Current(b, k)'}
    /\ \A k \in Kind : cl'[c].todo[k] = None =>
          \/ Absent(b) /\ k = "meaning" /\ vault'[b].meaning = NoMeaning
          \/ ~Gone(b) /\ Current(b, k)' = Current(b, k)

\* archive, activate
Moves(c, b) ==
    /\ ~Gone(b) /\ ~Gone(b)'
    /\ vault'[b].body = vault[b].body /\ vault'[b].meaning = vault[b].meaning
    /\ cl' = cl

\* delete
Removes(c, b) ==
    /\ ~Absent(b) /\ Deleted(b)'
    /\ vault'[b].body = vault[b].body /\ vault'[b].meaning = vault[b].meaning
    /\ cl'[c].pc = "discardTurn" /\ cl'[c].b = b

\* merge_or_create
Repairs(c, b) ==
    /\ ~Gone(b) /\ vault' = vault
    /\ cl'[c].pc = "repair" /\ cl'[c].b = b
    /\ cl'[c].todo["content"] = Current(b, "content")

LEMMA CommitKinds ==
    ASSUME SInv, SharedOps, NEW c \in Client, ClientBegins(c)
    PROVE  /\ cl[c].pc = "idle" /\ UNCHANGED <<box, index, lease, wk, rec, missed>>
           /\ \A d \in Client \ {c} : cl'[d] = cl[d]
           /\ \E b \in Bucket :
                 /\ \A a \in Bucket \ {b} : vault'[a] = vault[a]
                 /\ Registers(c, b) \/ Moves(c, b) \/ Removes(c, b) \/ Repairs(c, b)
  <1>t. TypeOK
    BY DEF SInv
  <1>f. \A d \in Client \ {c} : cl'[d] = cl[d]
    BY <1>t, ClientFrame DEF ClientActs
  <1> USE DEF Begin
  <1>1. ASSUME NEW b \in Bucket, NEW body \in Body, NEW meaning \in Meaning, Create(c, b, body, meaning)
        PROVE  /\ cl[c].pc = "idle" /\ UNCHANGED <<box, index, lease, wk, rec, missed>>
               /\ \A a \in Bucket \ {b} : vault'[a] = vault[a]
               /\ Registers(c, b)
    <2> DEFINE v == [status |-> "live", body |-> body, meaning |-> meaning]
    <2>1. v \in [status : Status, body : Body \cup {Empty}, meaning : Meaning] /\ (meaning # NoMeaning) \in BOOLEAN
      BY DEF Status
    <2>2. /\ vault' = [vault EXCEPT ![b] = v] /\ Goto(c, "queue", b, Captured(v, TRUE, meaning # NoMeaning))
          /\ vault[b].status = "absent" /\ cl[c].pc = "idle"
          /\ UNCHANGED <<box, index, lease, wk, rec, missed>>
      BY <1>1 DEF Create
    <2>3. vault'[b] = v /\ \A a \in Bucket \ {b} : vault'[a] = vault[a]
      BY <1>t, <2>2 DEF TypeOK
    <2>4. cl'[c].pc = "queue" /\ cl'[c].b = b /\ cl'[c].todo = Captured(v, TRUE, meaning # NoMeaning)
      BY <1>t, <2>2 DEF Goto, TypeOK
    <2>5. /\ Captured(v, TRUE, meaning # NoMeaning)["content"] = <<"body", body>>
          /\ meaning # NoMeaning => Captured(v, TRUE, meaning # NoMeaning)["meaning"] = <<"meaning", meaning>>
          /\ meaning = NoMeaning => Captured(v, TRUE, meaning # NoMeaning)["meaning"] = None
      BY DEF Captured, Kind
    <2>6. <<"body", body>> # None /\ <<"meaning", meaning>> # None
      BY NoneAssumption
    <2>7. vault'[b].status = "live" /\ vault'[b].body = body /\ vault'[b].meaning = meaning /\ body # Empty
      BY <2>3 DEF SharedOps
    <2> HIDE DEF v
    <2>8. /\ ~Gone(b)' /\ ~Deleted(b) /\ Absent(b)
          /\ Current(b, "content")' = <<"body", body>> /\ Current(b, "meaning")' = <<"meaning", meaning>>
      BY <2>2, <2>7 DEF Gone, Deleted, Absent, Current
    <2>9. /\ cl'[c].todo["content"] = <<"body", body>>
          /\ meaning # NoMeaning => cl'[c].todo["meaning"] = <<"meaning", meaning>>
          /\ meaning = NoMeaning => cl'[c].todo["meaning"] = None
      BY <2>4, <2>5, Zenon
    <2>10. ASSUME NEW k \in Kind
           PROVE  /\ cl'[c].todo[k] \in {None, Current(b, k)'}
                  /\ cl'[c].todo[k] = None => Absent(b) /\ k = "meaning" /\ vault'[b].meaning = NoMeaning
      <3>1. CASE k = "content"
        BY <2>6, <2>8, <2>9, <3>1
      <3>2. CASE k = "meaning"
        BY <2>6, <2>7, <2>8, <2>9, <3>2
      <3> QED
        BY <3>1, <3>2 DEF Kind
    <2>11. Registers(c, b)
      BY <2>4, <2>7, <2>8, <2>10 DEF Registers
    <2> QED
      BY <2>2, <2>3, <2>11
  <1>2. ASSUME NEW b \in Bucket, NEW body \in Body, NEW meaning \in Meaning, NEW qc \in BOOLEAN, NEW qm \in BOOLEAN,
               Update(c, b, [status |-> "live", body |-> body, meaning |-> meaning], qc, qm)
        PROVE  /\ cl[c].pc = "idle" /\ UNCHANGED <<box, index, lease, wk, rec, missed>>
               /\ \A a \in Bucket \ {b} : vault'[a] = vault[a]
               /\ Registers(c, b)
    <2> DEFINE v == [status |-> "live", body |-> body, meaning |-> meaning]
    <2>1. v \in [status : Status, body : Body \cup {Empty}, meaning : Meaning]
      BY DEF Status
    <2>2. /\ vault' = [vault EXCEPT ![b] = v] /\ Goto(c, "queue", b, Captured(v, qc, qm))
          /\ vault[b].status = "live" /\ cl[c].pc = "idle"
          /\ ~qc => body = vault[b].body
          /\ ~qm => meaning = vault[b].meaning
          /\ UNCHANGED <<box, index, lease, wk, rec, missed>>
      BY <1>2 DEF Update
    <2>3. vault'[b] = v /\ \A a \in Bucket \ {b} : vault'[a] = vault[a]
      BY <1>t, <2>2 DEF TypeOK
    <2>4. cl'[c].pc = "queue" /\ cl'[c].b = b /\ cl'[c].todo = Captured(v, qc, qm)
      BY <1>t, <2>2 DEF Goto, TypeOK
    <2>5. /\ Captured(v, qc, qm)["content"] = IF qc THEN <<"body", body>> ELSE None
          /\ Captured(v, qc, qm)["meaning"] = IF qm THEN <<"meaning", meaning>> ELSE None
      BY DEF Captured, Kind
    <2>6. <<"body", body>> # None /\ <<"meaning", meaning>> # None
      BY NoneAssumption
    <2>7. vault'[b].status = "live" /\ vault'[b].body = body /\ vault'[b].meaning = meaning /\ body # Empty
      BY <2>3 DEF SharedOps
    <2> HIDE DEF v
    <2>8. /\ ~Gone(b) /\ ~Gone(b)' /\ ~Deleted(b)
          /\ Current(b, "content")' = <<"body", body>> /\ Current(b, "meaning")' = <<"meaning", meaning>>
          /\ ~qc => Current(b, "content")' = Current(b, "content")
          /\ ~qm => Current(b, "meaning")' = Current(b, "meaning")
      BY <2>2, <2>7 DEF Gone, Deleted, Current
    <2>9. /\ cl'[c].todo["content"] = IF qc THEN <<"body", body>> ELSE None
          /\ cl'[c].todo["meaning"] = IF qm THEN <<"meaning", meaning>> ELSE None
      BY <2>4, <2>5
    <2>10. ASSUME NEW k \in Kind
           PROVE  /\ cl'[c].todo[k] \in {None, Current(b, k)'}
                  /\ cl'[c].todo[k] = None => Current(b, k)' = Current(b, k)
      BY <2>6, <2>8, <2>9 DEF Kind
    <2> QED
      BY <2>2, <2>3, <2>4, <2>7, <2>8, <2>10 DEF Registers
  <1>3. ASSUME NEW b \in Bucket, Archive(c, b) \/ Activate(c, b)
        PROVE  /\ cl[c].pc = "idle" /\ UNCHANGED <<box, index, lease, wk, rec, missed>>
               /\ \A a \in Bucket \ {b} : vault'[a] = vault[a]
               /\ Moves(c, b)
    BY <1>3, <1>t DEF Archive, Activate, Moves, Gone, TypeOK
  <1>4. ASSUME NEW b \in Bucket, Delete(c, b)
        PROVE  /\ cl[c].pc = "idle" /\ UNCHANGED <<box, index, lease, wk, rec, missed>>
               /\ \A a \in Bucket \ {b} : vault'[a] = vault[a]
               /\ Removes(c, b)
    BY <1>4, <1>t DEF Delete, Removes, Absent, Deleted, Goto, TypeOK
  <1>5. ASSUME NEW b \in Bucket, Repair(c, b)
        PROVE  /\ cl[c].pc = "idle" /\ UNCHANGED <<box, index, lease, wk, rec, missed>>
               /\ \A a \in Bucket \ {b} : vault'[a] = vault[a]
               /\ Repairs(c, b)
    <2>1. [Nothing EXCEPT !["content"] = <<"body", vault[b].body>>]["content"] = <<"body", vault[b].body>>
      BY DEF Nothing, Kind
    <2> QED
      BY <1>5, <1>t, <2>1 DEF Repair, Repairs, Goto, Current, TypeOK
  <1>6. ASSUME NEW b \in Bucket PROVE ~Restore(c, b) /\ ~Ensure(c, b)
    BY DEF SharedOps, Restore, Ensure
  <1> QED
    BY <1>f, <1>1, <1>2, <1>3, <1>4, <1>5, <1>6 DEF ClientBegins

LEMMA CommitKeeps ==
    ASSUME SInv, SharedOps, HandlersApart', NEW c \in Client, ClientBegins(c)
    PROVE  /\ \A w \in Worker : WorkerHas(w)' /\ AckSafe(w)'
           /\ \A d \in Client : ClientHas(d)'
           /\ \A a \in Bucket : Traceless(a)' /\ Noticed(a)' /\ \A k \in Kind : Kept(a, k)'
           /\ SeenIsThere'
  <1>t. TypeOK
    BY DEF SInv
  <1>f. /\ cl[c].pc = "idle" /\ UNCHANGED <<box, index, lease, wk, rec, missed>>
        /\ \A d \in Client \ {c} : cl'[d] = cl[d]
    BY CommitKinds
  <1>b. PICK b \in Bucket :
           /\ \A a \in Bucket \ {b} : vault'[a] = vault[a]
           /\ Registers(c, b) \/ Moves(c, b) \/ Removes(c, b) \/ Repairs(c, b)
    BY CommitKinds
  \* What stays true of every bucket.
  <1>v. ASSUME NEW a \in Bucket
        PROVE  (~Absent(a) => ~Absent(a)') /\ (Deleted(a) => Deleted(a)')
    BY <1>b DEF Registers, Moves, Removes, Repairs, Absent, Deleted, Gone
  <1>o. ASSUME NEW a
        PROVE  /\ \A k \in Kind : Owed(a, k) => Owed(a, k)'
               /\ Waiting(a) => Waiting(a)'
               /\ Sweeping(a) => Sweeping(a)'
    BY <1>f DEF Owed, Waiting, Sweeping
  <1>1. ASSUME NEW w \in Worker PROVE WorkerHas(w)' /\ AckSafe(w)'
    <2>p. PICK a, d, k : a = wk[w].b /\ d = wk[w].want /\ k = KindOf(d)
      OBVIOUS
    <2>h. WorkerHas(w) /\ AckSafe(w)
      BY DEF SInv
    <2>i. wk[w].pc # "idle" => a \in Bucket /\ d \in Digest /\ k \in Kind
      BY <1>t, <2>p, DigestFacts DEF TypeOK
    <2>1. CASE wk[w].pc = "idle"
      BY <1>f, <2>1 DEF WorkerHas, AckSafe, Holds
    <2>2. CASE wk[w].pc # "idle"
      <3>1. WorkerHas(w)'
        BY <1>f, <1>v, <2>2, <2>h, <2>i, <2>p, WorkerStays
      <3> SUFFICES AckSafe(w)'
        BY <3>1
      <3>2. CASE wk[w].pc # "ack"
        BY <1>f, <3>2 DEF AckSafe
      <3>3. CASE vault'[a] = vault[a]
        <4>1. /\ Owed(a, k) => Owed(a, k)'
              /\ Waiting(a) => Waiting(a)'
          BY <1>o, <2>2, <2>i
        <4> QED
          BY <1>f, <2>2, <2>h, <2>p, <3>3, <4>1, AckStays
      <3>4. CASE wk[w].pc = "ack" /\ vault'[a] # vault[a]
        <4>w. wk'[w].b = a /\ wk'[w].want = d
          BY <1>f, <2>p
        <4>k. /\ ~Gone(a) /\ box[a][k] = d /\ d # Rerender(a, d) => Owed(a, k) \/ a \in missed
              /\ Gone(a) => Waiting(a) \/ a \in missed
          BY <2>h, <2>p, <3>4, AckSays
        <4>o. Owed(a, k) => Owed(a, k)'
          BY <1>o, <2>2, <2>i
        <4>1. a = b /\ ~Absent(a)
          BY <1>b, <2>h, <2>i, <2>p, <3>4 DEF WorkerHas
        <4>2. CASE Registers(c, b)
          <5>1. cl'[c].pc = "queue" /\ cl'[c].b = a /\ ~Gone(a)' /\ ~Gone(a)
            BY <4>1, <4>2 DEF Registers, Gone, Absent, Deleted
          <5>2. CASE cl'[c].todo[k] # None
            <6>1. Owed(a, k)'
              BY <5>1, <5>2 DEF Owed
            <6> QED
              BY <2>p, <4>w, <5>1, <6>1, AckBecomes
          <5>3. CASE cl'[c].todo[k] = None
            <6>1. Current(a, k)' = Current(a, k)
              BY <2>i, <3>4, <4>1, <4>2, <5>3 DEF Registers
            <6>2. Rerender(a, d)' = Rerender(a, d)
              BY <2>i, <2>p, <3>4, <6>1 DEF Rerender, Current, Digest, ContentDigest, MeaningDigest, KindOf
            <6> QED
              BY <1>f, <2>p, <4>k, <4>o, <4>w, <5>1, <6>2, AckBecomes
          <5> QED
            BY <5>2, <5>3
        <4>3. CASE Moves(c, b)
          <5>1. ~Gone(a) /\ ~Gone(a)' /\ Rerender(a, d)' = Rerender(a, d)
            BY <4>1, <4>3 DEF Moves, Rerender
          <5> QED
            BY <1>f, <2>p, <4>k, <4>o, <4>w, <5>1, AckBecomes
        <4>4. CASE Removes(c, b)
          <5>1. Gone(a)' /\ Waiting(a)'
            BY <4>1, <4>4 DEF Removes, Gone, Deleted, Waiting
          <5> QED
            BY <2>p, <4>w, <5>1, AckBecomes
        <4>5. CASE Repairs(c, b)
          BY <3>4, <4>5 DEF Repairs
        <4> QED
          BY <1>b, <4>2, <4>3, <4>4, <4>5
      <3> QED
        BY <3>2, <3>3, <3>4
    <2> QED
      BY <2>1, <2>2
  <1>2. ASSUME NEW d \in Client PROVE ClientHas(d)'
    <2>h. ClientHas(d)
      BY DEF SInv
    <2>1. CASE d # c
      <3>p. PICK a : a = cl[d].b
        OBVIOUS
      <3>1. CASE cl[d].pc = "idle"
        BY <1>f, <2>1, <3>1 DEF ClientHas, Discarding
      <3>2. CASE cl[d].pc # "idle"
        <4>1. a \in Bucket
          BY <1>t, <3>p, <3>2 DEF TypeOK
        <4>2. cl'[c].pc # "idle" => cl'[c].b # a
          BY <1>f, <2>1, <3>p, <3>2 DEF HandlersApart
        <4>3. vault'[a] = vault[a] \/ (a = b /\ Moves(c, b))
          BY <1>b, <4>1, <4>2 DEF Registers, Removes, Repairs
        <4>4. /\ vault'[a].body = vault[a].body /\ vault'[a].meaning = vault[a].meaning
              /\ Gone(a)' = Gone(a)
          BY <4>3 DEF Moves, Gone
        <4> QED
          BY <1>f, <1>v, <2>1, <2>h, <3>p, <3>2, <4>1, <4>4, ClientStays
      <3> QED
        BY <3>1, <3>2
    <2>2. CASE d = c
      <3>1. CASE Registers(c, b)
        BY <2>2, <3>1 DEF Registers, ClientHas, Discarding
      <3>2. CASE Moves(c, b)
        BY <1>f, <2>2, <3>2 DEF Moves, ClientHas, Discarding
      <3>3. CASE Removes(c, b)
        BY <2>2, <3>3 DEF Removes, ClientHas, Discarding
      <3>4. CASE Repairs(c, b)
        BY <2>2, <3>4 DEF Repairs, ClientHas, Discarding, Gone, Current
      <3> QED
        BY <1>b, <3>1, <3>2, <3>3, <3>4
    <2> QED
      BY <2>1, <2>2
  <1>3. ASSUME NEW a \in Bucket PROVE Traceless(a)' /\ Noticed(a)' /\ \A k \in Kind : Kept(a, k)'
    <2>h. Traceless(a) /\ Noticed(a) /\ \A k \in Kind : Kept(a, k)
      BY DEF SInv
    <2>1. CASE vault'[a] = vault[a]
      <3>1. Traceless(a)'
        BY <1>f, <2>1, <2>h, TracelessStays
      <3>2. Noticed(a)'
        BY <1>f, <1>o, <2>1, <2>h, StaysNoticed
      <3>3. \A k \in Kind : Kept(a, k)'
        BY <1>f, <1>o, <2>1, <2>h, KeptStays
      <3> QED
        BY <3>1, <3>2, <3>3
    <2>2. CASE a = b /\ Registers(c, b)
      <3>1. Traceless(a)' /\ Noticed(a)'
        BY <2>2 DEF Registers, Traceless, Noticed, Gone, Absent
      <3>2. ASSUME NEW k \in Kind PROVE Kept(a, k)'
        <4>1. CASE cl'[c].todo[k] # None
          <5>1. Owed(a, k)'
            BY <2>2, <4>1 DEF Registers, Owed
          <5> QED
            BY <5>1 DEF Kept
        <4>2. CASE cl'[c].todo[k] = None /\ Absent(a) /\ k = "meaning" /\ vault'[a].meaning = NoMeaning
          <5>1. index'[a]["meaning"] = None
            BY <1>f, <2>h, <4>2, NothingFacts DEF Traceless
          <5> QED
            BY <4>2, <5>1 DEF Kept, Stale, StaleMeaning
        <4>3. CASE cl'[c].todo[k] = None /\ ~Gone(a) /\ Current(a, k)' = Current(a, k)
          <5>1. Stale(a, k)' => Stale(a, k)
            BY <1>f, <4>3 DEF Stale, StaleBody, StaleMeaning, Current, Kind
          <5> QED
            BY <1>f, <1>o, <2>h, <5>1 DEF Kept
        <4> QED
          BY <2>2, <4>1, <4>2, <4>3 DEF Registers
      <3> QED
        BY <3>1, <3>2
    <2>3. CASE a = b /\ Moves(c, b)
      <3>1. Traceless(a)' /\ Noticed(a)'
        BY <2>3, <2>h DEF Moves, Traceless, Noticed, Gone, Absent
      <3>2. ASSUME NEW k \in Kind PROVE Kept(a, k)'
        <4>1. Stale(a, k)' => Stale(a, k)
          BY <1>f, <2>3 DEF Moves, Stale, StaleBody, StaleMeaning
        <4> QED
          BY <1>f, <1>o, <2>h, <4>1 DEF Kept
      <3> QED
        BY <3>1, <3>2
    <2>4. CASE a = b /\ Removes(c, b)
      <3>1. Gone(a)' /\ ~Absent(a)' /\ vault'[a].body = vault[a].body /\ ~Absent(a)
        BY <2>4 DEF Removes, Gone, Deleted, Absent
      <3>2. Sweeping(a)'
        BY <2>4 DEF Removes, Sweeping
      <3> QED
        BY <2>h, <3>1, <3>2 DEF Traceless, Noticed, Kept, Stale
    <2>5. CASE a = b /\ Repairs(c, b)
      BY <2>1, <2>5 DEF Repairs
    <2> QED
      BY <1>b, <2>1, <2>2, <2>3, <2>4, <2>5
  <1>4. SeenIsThere'
    BY <1>f, <1>t, <1>v DEF SInv, SeenIsThere, TypeOK
  <1> QED
    BY <1>1, <1>2, <1>3, <1>4
-----------------------------------------------------------------------------
(* A handler goes on: it registers what it has committed, or sweeps a       *)
(* deleted bucket.                                                         *)

LEMMA HandlerSteps ==
    ASSUME SInv, NEW c \in Client, ClientStep(c) \/ ClientFault(c)
    PROVE  /\ cl[c].b \in Bucket
           /\ \/ Queue(c) \/ QueueFails(c) \/ EnsurePending(c)
              \/ DiscardTurn(c) \/ DiscardTimeout(c) \/ DiscardRead(c)
              \/ DiscardItem(c) \/ DiscardItemFails(c) \/ DiscardIndex(c) \/ DiscardIndexFails(c)
  <1>1. cl[c].pc \in {"idle", "queue", "repair"} \cup Discarding
    BY DEF SInv, ClientHas
  <1>2. /\ ~EnsureRead(c) /\ ~EnsureAck(c) /\ ~EnsureQueue(c) /\ ~InlineStores(c) /\ ~InlineFails(c)
        /\ ~EnsureQueueFails(c)
    BY <1>1 DEF Discarding, EnsureRead, EnsureAck, EnsureQueue, InlineStores, InlineFails, EnsureQueueFails
  <1>3. \/ Queue(c) \/ QueueFails(c) \/ EnsurePending(c)
        \/ DiscardTurn(c) \/ DiscardTimeout(c) \/ DiscardRead(c)
        \/ DiscardItem(c) \/ DiscardItemFails(c) \/ DiscardIndex(c) \/ DiscardIndexFails(c)
    BY <1>2 DEF ClientStep, ClientFault
  <1>4. cl[c].pc # "idle"
    BY <1>3 DEF Queue, QueueFails, EnsurePending, DiscardTurn, DiscardTimeout, DiscardRead, DiscardItem,
                DiscardItemFails, DiscardIndex, DiscardIndexFails
  <1> QED
    BY <1>3, <1>4 DEF SInv, TypeOK

LEMMA CurrentFacts ==
    ASSUME SInv, NEW b \in Bucket, ~Gone(b), NEW k \in Kind
    PROVE  /\ Current(b, k) \in Digest /\ KindOf(Current(b, k)) = k
           /\ Current(b, k) # None /\ Current(b, k) # <<"body", Empty>>
  <1>1. vault[b].body # Empty /\ vault[b].body \in Body \cup {Empty} /\ vault[b].meaning \in Meaning
    BY DEF SInv, TypeOK, Traceless, Absent, Gone
  <1>2. Current(b, k) \in Digest /\ KindOf(Current(b, k)) = k /\ Current(b, k) # <<"body", Empty>>
    BY <1>1 DEF Current, Kind, KindOf, Digest, ContentDigest, MeaningDigest
  <1> QED
    BY <1>2, DigestFacts

\* A handler registers the digest of component j of bucket b, and keeps the
\* other one for later.
Puts(c, b, j) ==
    /\ cl[c].todo[j] # None
    /\ box' = [box EXCEPT ![b][j] = Current(b, j)]
    /\ \/ cl'[c].pc = "idle" /\ \A i \in Kind \ {j} : cl[c].todo[i] = None
       \/ /\ cl'[c].pc = "queue" /\ cl'[c].b = b /\ cl'[c].todo[j] = None
          /\ \A i \in Kind \ {j} : cl'[c].todo[i] = cl[c].todo[i]

LEMMA QueueFacts ==
    ASSUME SInv, NEW c \in Client, Queue(c), NEW b \in Bucket, b = cl[c].b
    PROVE  /\ ~Gone(b) /\ cl[c].pc = "queue" /\ UNCHANGED <<vault, index, lease, wk, rec, missed>>
           /\ \E j \in Kind : Puts(c, b, j)
  <1> DEFINE j == IF cl[c].todo["content"] # None THEN "content" ELSE "meaning"
             rest == [cl[c].todo EXCEPT ![j] = None]
  <1>t. TypeOK /\ ClientHas(c)
    BY DEF SInv
  <1>1. /\ cl[c].pc = "queue" /\ Enqueue(b, cl[c].todo[j])
        /\ IF rest = Nothing THEN Return(c) ELSE Goto(c, "queue", b, rest)
        /\ UNCHANGED <<vault, index, lease, wk, rec, missed>>
    BY DEF Queue
  <1>2. ~Gone(b) /\ \A k \in Kind : cl[c].todo[k] \in {None, Current(b, k)}
    BY <1>t, <1>1 DEF ClientHas
  <1>3. cl[c].todo \in Entry /\ \E k \in Kind : cl[c].todo[k] # None
    BY <1>t, <1>1 DEF TypeOK
  <1>4. j \in Kind /\ cl[c].todo[j] # None
    BY <1>3 DEF Kind
  <1>5. rest[j] = None /\ \A i \in Kind \ {j} : rest[i] = cl[c].todo[i]
    BY <1>3, <1>4 DEF Entry
  <1> HIDE DEF j, rest
  <1>6. cl[c].todo[j] = Current(b, j)
    BY <1>2, <1>4
  <1>7. box' = [box EXCEPT ![b][j] = Current(b, j)]
    BY <1>1, <1>2, <1>4, <1>6, CurrentFacts DEF Enqueue
  <1>8. CASE rest = Nothing
    <2>1. cl'[c].pc = "idle"
      BY <1>1, <1>8, <1>t DEF Return, IdleClient, TypeOK
    <2>2. \A i \in Kind \ {j} : cl[c].todo[i] = None
      BY <1>5, <1>8, NothingFacts
    <2> QED
      BY <1>1, <1>2, <1>4, <1>7, <2>1, <2>2 DEF Puts
  <1>9. CASE rest # Nothing
    <2>1. cl'[c].pc = "queue" /\ cl'[c].b = b /\ cl'[c].todo = rest
      BY <1>1, <1>9, <1>t DEF Goto, TypeOK
    <2> QED
      BY <1>1, <1>2, <1>4, <1>5, <1>7, <2>1 DEF Puts
  <1> QED
    BY <1>8, <1>9

\* A repair leaves a pending content digest alone.
LEMMA RepairFacts ==
    ASSUME SInv, NEW c \in Client, EnsurePending(c), NEW b \in Bucket, b = cl[c].b
    PROVE  /\ ~Gone(b) /\ cl[c].pc = "repair" /\ cl'[c].pc = "idle"
           /\ UNCHANGED <<vault, index, lease, wk, rec, missed>>
           /\ \/ box' = box
              \/ /\ box[b]["content"] = None
                 /\ box' = [box EXCEPT ![b]["content"] = Current(b, "content")]
  <1>t. TypeOK /\ ClientHas(c)
    BY DEF SInv
  <1>1. cl[c].pc = "repair" /\ Return(c) /\ UNCHANGED <<vault, index, lease, wk, rec, missed>>
    BY DEF EnsurePending
  <1>2. ~Gone(b) /\ cl[c].todo["content"] = Current(b, "content") /\ cl'[c].pc = "idle"
    BY <1>t, <1>1 DEF ClientHas, Return, IdleClient, TypeOK
  <1>3. "content" \in Kind
    BY DEF Kind
  <1>4. KindOf(Current(b, "content")) = "content" /\ Current(b, "content") # <<"body", Empty>>
    BY <1>2, <1>3, CurrentFacts
  <1>5. \/ box' = box
        \/ box[b]["content"] = None /\ Enqueue(b, Current(b, "content"))
    BY <1>2 DEF EnsurePending
  <1> QED
    BY <1>1, <1>2, <1>4, <1>5 DEF Enqueue
\* The sweep of a deleted bucket goes on, or ends.
LEMMA DiscardFacts ==
    ASSUME SInv, NEW c \in Client, NEW b \in Bucket, b = cl[c].b,
           DiscardTurn(c) \/ DiscardTimeout(c) \/ DiscardRead(c) \/ DiscardItem(c)
           \/ DiscardItemFails(c) \/ DiscardIndex(c) \/ DiscardIndexFails(c)
    PROVE  /\ Deleted(b) /\ cl[c].pc \in Discarding /\ UNCHANGED <<vault, wk, rec>>
           /\ missed \subseteq missed'
           /\ \A a \in Bucket \ {b} : box'[a] = box[a] /\ index'[a] = index[a] /\ lease'[a] = lease[a]
           /\ \/ cl'[c].pc \in Discarding \ {"discardTurn"} /\ cl'[c].b = b /\ lease'[b] = c
              \/ cl'[c].pc = "idle" /\ (index'[b] = Nothing \/ b \in missed')
           /\ lease[b] \notin {c, Nobody} =>
                 UNCHANGED <<box, index, lease>> /\ b \in missed'
  <1>t. TypeOK /\ ClientHas(c)
    BY DEF SInv
  <1> USE DEF Discarding
  <1>1. CASE DiscardTurn(c)
    BY <1>1, <1>t DEF DiscardTurn, ClientHas, Goto, TypeOK
  <1>2. CASE DiscardTimeout(c)
    BY <1>2, <1>t DEF DiscardTimeout, ClientHas, Return, IdleClient, TypeOK
  <1>3. CASE DiscardRead(c)
    <2>1. Deleted(b) /\ lease[b] = c /\ cl[c].pc = "discardRead"
      BY <1>3, <1>t DEF DiscardRead, ClientHas
    <2>2. Gone(b)
      BY <2>1 DEF Gone, Deleted
    <2> QED
      BY <1>3, <1>t, <2>1, <2>2 DEF DiscardRead, Goto, TypeOK
  <1>4. CASE DiscardItem(c) \/ DiscardItemFails(c)
    BY <1>4, <1>t DEF DiscardItem, DiscardItemFails, Discard, ClientHas, Goto, TypeOK
  <1>5. CASE DiscardIndex(c) \/ DiscardIndexFails(c)
    BY <1>5, <1>t DEF DiscardIndex, DiscardIndexFails, ClientHas, Return, IdleClient, TypeOK
  <1> QED
    BY <1>1, <1>2, <1>3, <1>4, <1>5

LEMMA QueueFailsFacts ==
    ASSUME SInv, NEW c \in Client, QueueFails(c), NEW b \in Bucket, b = cl[c].b
    PROVE  /\ ~Gone(b) /\ cl[c].pc = "queue" /\ cl'[c].pc = "idle"
           /\ UNCHANGED <<vault, box, index, lease, wk, rec>>
           /\ missed \subseteq missed' /\ b \in missed'
  <1>t. TypeOK /\ ClientHas(c)
    BY DEF SInv
  <1> QED
    BY <1>t DEF QueueFails, ClientHas, Return, IdleClient, TypeOK

\* A handler touches nothing but its own bucket, and of that nothing that the
\* lease of another actor protects; only a sweep takes items out of the outbox.
LEMMA HandlerTouches ==
    ASSUME SInv, NEW c \in Client, ClientStep(c) \/ ClientFault(c), NEW b \in Bucket, b = cl[c].b
    PROVE  /\ UNCHANGED <<vault, wk, rec>> /\ missed \subseteq missed'
           /\ \A d \in Client \ {c} : cl'[d] = cl[d]
           /\ \A a \in Bucket \ {b} : box'[a] = box[a] /\ index'[a] = index[a] /\ lease'[a] = lease[a]
           /\ lease[b] \notin {c, Nobody} =>
                 /\ lease'[b] = lease[b] /\ index'[b] = index[b]
                 /\ \A k \in Kind : box[b][k] # None => box'[b][k] # None
  <1>t. TypeOK
    BY DEF SInv
  <1>f. \A d \in Client \ {c} : cl'[d] = cl[d]
    BY <1>t, ClientFrame DEF ClientActs
  <1>1. CASE Queue(c)
    <2>1. ~Gone(b) /\ UNCHANGED <<vault, index, lease, wk, rec, missed>>
      BY <1>1, QueueFacts
    <2>2. PICK j \in Kind : Puts(c, b, j)
      BY <1>1, QueueFacts
    <2>3. Current(b, j) # None
      BY <2>1, CurrentFacts
    <2>4. /\ \A a \in Bucket \ {b} : box'[a] = box[a]
          /\ \A k \in Kind : box[b][k] # None => box'[b][k] # None
      BY <1>t, <2>2, <2>3 DEF Puts, TypeOK, Entry
    <2> QED
      BY <1>f, <2>1, <2>4
  <1>2. CASE EnsurePending(c)
    <2>1. /\ ~Gone(b) /\ UNCHANGED <<vault, index, lease, wk, rec, missed>>
          /\ \/ box' = box
             \/ box' = [box EXCEPT ![b]["content"] = Current(b, "content")]
      BY <1>2, RepairFacts
    <2>2. "content" \in Kind
      BY DEF Kind
    <2>3. Current(b, "content") # None
      BY <2>1, <2>2, CurrentFacts
    <2>4. /\ \A a \in Bucket \ {b} : box'[a] = box[a]
          /\ \A k \in Kind : box[b][k] # None => box'[b][k] # None
      BY <1>t, <2>1, <2>2, <2>3 DEF TypeOK, Entry
    <2> QED
      BY <1>f, <2>1, <2>4
  <1>3. CASE QueueFails(c)
    BY <1>f, <1>3, QueueFailsFacts
  <1>4. CASE \/ DiscardTurn(c) \/ DiscardTimeout(c) \/ DiscardRead(c) \/ DiscardItem(c)
             \/ DiscardItemFails(c) \/ DiscardIndex(c) \/ DiscardIndexFails(c)
    <2>1. /\ UNCHANGED <<vault, wk, rec>> /\ missed \subseteq missed'
          /\ \A a \in Bucket \ {b} : box'[a] = box[a] /\ index'[a] = index[a] /\ lease'[a] = lease[a]
          /\ lease[b] \notin {c, Nobody} => UNCHANGED <<box, index, lease>>
      BY <1>4, DiscardFacts
    <2> QED
      BY <1>f, <2>1
  <1> QED
    BY <1>1, <1>2, <1>3, <1>4, HandlerSteps
LEMMA HandlerSparesWorkers ==
    ASSUME SInv, NEW c \in Client, ClientStep(c) \/ ClientFault(c), NEW w \in Worker
    PROVE  WorkerHas(w)' /\ AckSafe(w)'
  <1>p. PICK b, a, d, k : b = cl[c].b /\ a = wk[w].b /\ d = wk[w].want /\ k = KindOf(d)
    OBVIOUS
  <1>t. TypeOK /\ WorkerHas(w) /\ AckSafe(w) /\ ClientHas(c)
    BY DEF SInv
  <1>b. b \in Bucket
    BY <1>p, HandlerSteps
  <1>f. /\ UNCHANGED <<vault, wk, rec>> /\ missed \subseteq missed'
        /\ \A e \in Client \ {c} : cl'[e] = cl[e]
        /\ \A x \in Bucket \ {b} : box'[x] = box[x] /\ index'[x] = index[x] /\ lease'[x] = lease[x]
        /\ lease[b] \notin {c, Nobody} =>
              /\ lease'[b] = lease[b] /\ index'[b] = index[b]
              /\ \A j \in Kind : box[b][j] # None => box'[b][j] # None
    BY <1>b, <1>p, HandlerTouches
  <1>1. CASE wk[w].pc = "idle"
    BY <1>1, <1>f DEF WorkerHas, AckSafe, Holds
  <1>2. CASE wk[w].pc # "idle"
    <2>i. a \in Bucket /\ d \in Digest /\ k \in Kind
      BY <1>t, <1>p, <1>2, DigestFacts DEF TypeOK
    <2>l. Holds(w) => lease[a] = w /\ w \notin {c, Nobody} /\ box[a][k] # None
      BY <1>t, <1>p, NobodyAssumption, ActorsAssumption DEF WorkerHas
    <2>1. Holds(w) => /\ lease'[a] = lease[a] /\ index'[a] = index[a]
                      /\ box[a][k] # None => box'[a][k] # None
      <3>1. CASE a = b
        BY <1>f, <2>i, <2>l, <3>1
      <3>2. CASE a # b
        BY <1>f, <2>i, <3>2
      <3> QED
        BY <3>1, <3>2
    <2>2. WorkerHas(w)'
      BY <1>f, <1>p, <1>t, <2>1, WorkerStays DEF Absent, Deleted
    <2> SUFFICES AckSafe(w)'
      BY <2>2
    <2>3. CASE wk[w].pc # "ack"
      BY <1>f, <2>3 DEF AckSafe
    \* What the component that is about to be acknowledged may see.
    <2>s. ASSUME wk[w].pc = "ack" => box'[a][k] = box[a][k],
                 Owed(a, k) => Owed(a, k)' \/ a \in missed',
                 Waiting(a) => Waiting(a)' \/ a \in missed'
          PROVE  AckSafe(w)'
      BY <1>f, <1>p, <1>t, <2>s, AckStays
    <2>4. CASE a # b
      <3>1. Owed(a, k) => Owed(a, k)'
        BY <1>f, <1>p, <2>4 DEF Owed
      <3>2. Waiting(a) => Waiting(a)'
        BY <1>f, <1>p, <2>4 DEF Waiting
      <3> QED
        BY <1>f, <2>i, <2>4, <2>s, <3>1, <3>2
    <2>5. CASE a = b /\ wk[w].pc = "ack"
      <3>l. lease[b] \notin {c, Nobody} /\ box[b][k] # None
        BY <2>5, <2>l DEF Holds
      <3>1. CASE Queue(c)
        <4>1. ~Gone(b) /\ cl[c].pc = "queue"
          BY <1>b, <1>p, <3>1, QueueFacts
        <4>2. PICK j \in Kind : Puts(c, b, j)
          BY <1>b, <1>p, <3>1, QueueFacts
        <4>3. CASE j = k
          <5>1. box'[b][k] = Current(b, k)
            BY <1>b, <1>t, <2>i, <4>2, <4>3 DEF Puts, TypeOK, Entry
          <5>2. ~Gone(b)' /\ Rerender(b, d)' = Rerender(b, d)
            BY <1>f, <4>1 DEF Gone, Rerender
          <5>3. d = Current(b, k) => d = Rerender(b, d)
            BY <1>p DEF Current, Rerender, KindOf
          <5>4. wk'[w].b = b /\ wk'[w].want = d
            BY <1>f, <1>p, <2>5
          <5> QED
            BY <1>p, <5>1, <5>2, <5>3, <5>4, AckBecomes
        <4>4. CASE j # k
          <5>1. box'[b][k] = box[b][k]
            BY <1>b, <1>t, <2>i, <4>2, <4>4 DEF Puts, TypeOK, Entry
          <5>2. Owed(b, k) => Owed(b, k)'
            BY <1>f, <2>i, <4>2, <4>4 DEF Puts, Owed
          <5>3. Waiting(b) => Waiting(b)'
            BY <1>f, <4>1 DEF Waiting
          <5> QED
            BY <2>5, <2>s, <5>1, <5>2, <5>3
        <4> QED
          BY <4>3, <4>4
      <3>2. CASE EnsurePending(c)
        <4>1. /\ cl[c].pc = "repair"
              /\ \/ box' = box
                 \/ box[b]["content"] = None /\ box' = [box EXCEPT ![b]["content"] = Current(b, "content")]
          BY <1>b, <1>p, <3>2, RepairFacts
        <4>2. box'[b][k] = box[b][k]
          BY <1>b, <1>t, <2>i, <3>l, <4>1 DEF TypeOK, Entry
        <4>3. /\ Owed(b, k) => Owed(b, k)'
              /\ Waiting(b) => Waiting(b)'
          BY <1>f, <4>1 DEF Owed, Waiting
        <4> QED
          BY <2>5, <2>s, <4>2, <4>3
      <3>3. CASE QueueFails(c)
        <4>1. box' = box /\ b \in missed'
          BY <1>b, <1>p, <3>3, QueueFailsFacts
        <4> QED
          BY <2>5, <2>s, <4>1
      <3>4. CASE \/ DiscardTurn(c) \/ DiscardTimeout(c) \/ DiscardRead(c) \/ DiscardItem(c)
                 \/ DiscardItemFails(c) \/ DiscardIndex(c) \/ DiscardIndexFails(c)
        <4>1. box' = box /\ b \in missed'
          BY <1>b, <1>p, <3>4, <3>l, DiscardFacts
        <4> QED
          BY <2>5, <2>s, <4>1
      <3> QED
        BY <3>1, <3>2, <3>3, <3>4, HandlerSteps
    <2> QED
      BY <2>3, <2>4, <2>5
  <1> QED
    BY <1>1, <1>2

LEMMA HandlerSparesHandlers ==
    ASSUME SInv, NEW c \in Client, ClientStep(c) \/ ClientFault(c), NEW d \in Client
    PROVE  ClientHas(d)'
  <1>p. PICK b, a : b = cl[c].b /\ a = cl[d].b
    OBVIOUS
  <1>t. TypeOK /\ ClientHas(c) /\ ClientHas(d)
    BY DEF SInv
  <1>b. b \in Bucket
    BY <1>p, HandlerSteps
  <1>f. /\ UNCHANGED <<vault, wk, rec>> /\ missed \subseteq missed'
        /\ \A e \in Client \ {c} : cl'[e] = cl[e]
        /\ \A x \in Bucket \ {b} : lease'[x] = lease[x]
        /\ lease[b] \notin {c, Nobody} => lease'[b] = lease[b]
    BY <1>b, <1>p, HandlerTouches
  <1>1. CASE d # c
    <2>1. cl[d].pc \in Discarding \ {"discardTurn"} => lease'[a] = lease[a]
      <3> SUFFICES ASSUME cl[d].pc \in Discarding \ {"discardTurn"} PROVE lease'[a] = lease[a]
        OBVIOUS
      <3>1. a \in Bucket /\ lease[a] = d
        BY <1>p, <1>t DEF ClientHas, Discarding, TypeOK
      <3> QED
        BY <1>1, <1>f, <3>1, NobodyAssumption
    <2>2. cl'[d] = cl[d] /\ Gone(a)' = Gone(a) /\ (Deleted(a) => Deleted(a)')
      BY <1>1, <1>f DEF Gone, Deleted
    <2> QED
      BY <1>f, <1>p, <1>t, <2>1, <2>2, ClientStays
  <1>2. CASE d = c
    <2>1. CASE cl'[c].pc = "idle"
      BY <1>2, <2>1 DEF ClientHas, Discarding
    <2>2. CASE Queue(c)
      <3>1. ~Gone(b) /\ cl[c].pc = "queue"
        BY <1>b, <1>p, <2>2, QueueFacts
      <3>2. PICK j \in Kind : Puts(c, b, j)
        BY <1>b, <1>p, <2>2, QueueFacts
      <3>3. CASE cl'[c].pc = "queue"
        <4>1. ~Gone(b)' /\ \A k \in Kind : Current(b, k)' = Current(b, k)
          BY <1>f, <3>1 DEF Gone, Current
        <4>2. \A k \in Kind : cl[c].todo[k] \in {None, Current(b, k)}
          BY <1>p, <1>t, <3>1 DEF ClientHas
        <4>3. cl'[c].b = b /\ \A k \in Kind : cl'[c].todo[k] \in {None, Current(b, k)}
          BY <3>2, <3>3, <4>2 DEF Puts
        <4> QED
          BY <1>2, <3>3, <4>1, <4>3 DEF ClientHas, Discarding
      <3> QED
        BY <2>1, <3>2, <3>3 DEF Puts
    <2>3. CASE EnsurePending(c) \/ QueueFails(c)
      BY <1>b, <1>p, <2>1, <2>3, RepairFacts, QueueFailsFacts
    <2>4. CASE \/ DiscardTurn(c) \/ DiscardTimeout(c) \/ DiscardRead(c) \/ DiscardItem(c)
               \/ DiscardItemFails(c) \/ DiscardIndex(c) \/ DiscardIndexFails(c)
      <3>1. /\ Deleted(b)
            /\ \/ cl'[c].pc \in Discarding \ {"discardTurn"} /\ cl'[c].b = b /\ lease'[b] = c
               \/ cl'[c].pc = "idle"
        BY <1>b, <1>p, <2>4, DiscardFacts
      <3>2. Deleted(b)'
        BY <1>f, <3>1 DEF Deleted
      <3>3. CASE cl'[c].pc # "idle"
        BY <1>2, <3>1, <3>2, <3>3 DEF ClientHas, Discarding
      <3> QED
        BY <2>1, <3>3
    <2> QED
      BY <2>2, <2>3, <2>4, HandlerSteps
  <1> QED
    BY <1>1, <1>2
LEMMA HandlerKeepsBuckets ==
    ASSUME SInv, NEW c \in Client, ClientStep(c) \/ ClientFault(c), NEW a \in Bucket
    PROVE  Traceless(a)' /\ Noticed(a)' /\ \A k \in Kind : Kept(a, k)'
  <1>p. PICK b : b = cl[c].b
    OBVIOUS
  <1>t. TypeOK /\ Traceless(a) /\ Noticed(a) /\ \A k \in Kind : Kept(a, k)
    BY DEF SInv
  <1>b. b \in Bucket
    BY <1>p, HandlerSteps
  <1>f. /\ UNCHANGED <<vault, wk, rec>> /\ missed \subseteq missed'
        /\ \A e \in Client \ {c} : cl'[e] = cl[e]
        /\ \A x \in Bucket \ {b} : box'[x] = box[x] /\ index'[x] = index[x] /\ lease'[x] = lease[x]
    BY <1>b, <1>p, HandlerTouches
  <1>1. CASE a # b
    <2>0. box'[a] = box[a] /\ index'[a] = index[a]
      BY <1>1, <1>f
    <2>1. Traceless(a)'
      BY <1>f, <1>t, <2>0, TracelessStays
    <2>2. Sweeping(a) => Sweeping(a)'
      BY <1>1, <1>f, <1>p DEF Sweeping
    <2>3. Noticed(a)'
      BY <1>f, <1>t, <2>0, <2>2, StaysNoticed
    <2>4. \A k \in Kind : Owed(a, k) => Owed(a, k)'
      BY <1>1, <1>f, <1>p DEF Owed
    <2>5. \A k \in Kind : Kept(a, k)'
      BY <1>f, <1>t, <2>0, <2>4, KeptStays
    <2> QED
      BY <2>1, <2>3, <2>5
  <1>2. CASE a = b
    <2>1. CASE Queue(c)
      <3>1. ~Gone(b) /\ UNCHANGED <<vault, index, missed>>
        BY <1>b, <1>p, <2>1, QueueFacts
      <3>2. PICK j \in Kind : Puts(c, b, j)
        BY <1>b, <1>p, <2>1, QueueFacts
      <3>3. Traceless(a)' /\ Noticed(a)'
        BY <1>2, <1>t, <3>1 DEF Traceless, Noticed, Gone, Absent
      <3>4. Current(b, j) # None
        BY <1>b, <3>1, <3>2, CurrentFacts
      <3>5. box'[b][j] = Current(b, j) /\ \A k \in Kind \ {j} : box'[b][k] = box[b][k]
        BY <1>b, <1>t, <3>2 DEF Puts, TypeOK, Entry
      <3>6. Kept(a, j)'
        BY <1>2, <3>4, <3>5 DEF Kept
      <3>7. ASSUME NEW k \in Kind \ {j} PROVE Kept(a, k)'
        <4>1. Owed(a, k) => Owed(a, k)'
          BY <1>2, <1>f, <3>2 DEF Puts, Owed
        <4> QED
          BY <1>2, <1>f, <1>t, <3>1, <3>5, <4>1, KeptStays
      <3> QED
        BY <3>3, <3>6, <3>7
    <2>2. CASE EnsurePending(c)
      <3>1. ~Gone(b) /\ cl[c].pc = "repair" /\ UNCHANGED <<vault, index, missed>>
        BY <1>b, <1>p, <2>2, RepairFacts
      <3>2. Traceless(a)' /\ Noticed(a)'
        BY <1>2, <1>t, <3>1 DEF Traceless, Noticed, Gone, Absent
      <3>3. "content" \in Kind
        BY DEF Kind
      <3>4. Current(b, "content") # None
        BY <1>b, <3>1, <3>3, CurrentFacts
      <3>5. \/ box' = box
            \/ box' = [box EXCEPT ![b]["content"] = Current(b, "content")]
        BY <1>b, <1>p, <2>2, RepairFacts
      <3>6. \A k \in Kind : box[b][k] # None => box'[b][k] # None
        BY <1>b, <1>t, <3>3, <3>4, <3>5 DEF TypeOK, Entry
      <3>7. \A k \in Kind : Owed(a, k) => Owed(a, k)'
        BY <1>f, <3>1 DEF Owed
      <3>8. \A k \in Kind : Kept(a, k)'
        BY <1>2, <1>f, <1>t, <3>1, <3>6, <3>7, KeptStays
      <3> QED
        BY <3>2, <3>8
    <2>3. CASE QueueFails(c)
      <3>1. UNCHANGED <<vault, box, index>> /\ b \in missed'
        BY <1>b, <1>p, <2>3, QueueFailsFacts
      <3> QED
        BY <1>2, <1>t, <3>1 DEF Traceless, Noticed, Kept, Absent
    <2>4. CASE \/ DiscardTurn(c) \/ DiscardTimeout(c) \/ DiscardRead(c) \/ DiscardItem(c)
               \/ DiscardItemFails(c) \/ DiscardIndex(c) \/ DiscardIndexFails(c)
      <3>1. /\ Deleted(b) /\ UNCHANGED vault
            /\ \/ cl'[c].pc \in Discarding \ {"discardTurn"} /\ cl'[c].b = b
               \/ index'[b] = Nothing \/ b \in missed'
        BY <1>b, <1>p, <2>4, DiscardFacts
      <3>2. Traceless(a)' /\ \A k \in Kind : Kept(a, k)'
        BY <1>2, <1>t, <3>1 DEF Traceless, Kept, Stale, Deleted, Gone, Absent
      <3>3. Noticed(a)'
        BY <1>2, <3>1 DEF Noticed, Sweeping, Discarding
      <3> QED
        BY <3>2, <3>3
    <2> QED
      BY <2>1, <2>2, <2>3, <2>4, HandlerSteps
  <1> QED
    BY <1>1, <1>2

LEMMA HandlerKeeps ==
    ASSUME SInv, NEW c \in Client, ClientStep(c) \/ ClientFault(c)
    PROVE  /\ \A w \in Worker : WorkerHas(w)' /\ AckSafe(w)'
           /\ \A d \in Client : ClientHas(d)'
           /\ \A a \in Bucket : Traceless(a)' /\ Noticed(a)' /\ \A k \in Kind : Kept(a, k)'
           /\ SeenIsThere'
  <1>1. UNCHANGED <<vault, rec>>
    BY HandlerSteps, HandlerTouches
  <1>2. SeenIsThere'
    BY <1>1 DEF SInv, SeenIsThere, Absent
  <1> QED
    BY <1>2, HandlerSparesWorkers, HandlerSparesHandlers, HandlerKeepsBuckets

-----------------------------------------------------------------------------
(* The reconciler, time and crashes *)

\* The reconciler adds what is missing, to buckets that are there.
LEMMA ReconcilerAdds ==
    ASSUME SInv, Elsewhere, NEW b \in Bucket
    PROVE  /\ \A k \in Kind : box[b][k] # None => box'[b][k] = box[b][k]
           /\ Absent(b) => box'[b] = box[b]
  <1>t. TypeOK /\ SeenIsThere
    BY DEF SInv
  <1>1. CASE QueueMissing
    <2> DEFINE new == {e \in rec.seen : box[e[1]]["content"] = None}
    <2>1. box'[b] = IF \E e \in new : e[1] = b
                    THEN [box[b] EXCEPT !["content"] = (CHOOSE e \in new : e[1] = b)[2]] ELSE box[b]
      BY <1>1 DEF QueueMissing
    <2>2. box[b]["content"] # None => ~\E e \in new : e[1] = b
      OBVIOUS
    <2>3. Absent(b) => ~\E e \in new : e[1] = b
      BY <1>t DEF SeenIsThere
    <2> HIDE DEF new
    <2> QED
      BY <1>t, <2>1, <2>2, <2>3 DEF TypeOK, Entry
  <1>2. CASE ~QueueMissing
    <2>1. box' = box
      BY <1>2 DEF Elsewhere, Reconcile, ReconcileGivesUp, ListBuckets, Candidates, Reread, Confirm,
                  BecomesDue, RetryNow, Start, Crash
    <2> QED
      BY <2>1
  <1> QED
    BY <1>1, <1>2

LEMMA ReconcilerSees ==
    ASSUME SInv, Elsewhere
    PROVE  SeenIsThere'
  <1>t. TypeOK /\ SeenIsThere
    BY DEF SInv
  <1>v. vault' = vault
    BY DEF Elsewhere, Reconcile, ReconcileGivesUp, ListBuckets, Candidates, Reread, Confirm,
           QueueMissing, RecUnchanged, BecomesDue, RetryNow, Start, Crash
  <1>k. \A archives \in BOOLEAN : \A b \in Known(archives) : ~Absent(b)
    BY DEF Known, Absent
  <1>1. CASE \E archives \in BOOLEAN : ListBuckets(archives)
    BY <1>1, <1>v, <1>k DEF ListBuckets, RecStep, SeenIsThere, Absent
  <1>2. CASE Reread
    <2> DEFINE S == {e[1] : e \in rec.seen} \cap Known(TRUE)
    <2>1. rec' = [pc |-> "confirm", seen |-> {<<b, Content(b)>> : b \in S}]
      BY <1>2 DEF Reread, RecStep
    <2>2. \A b \in S : ~Absent(b)
      BY <1>k
    <2> HIDE DEF S
    <2>3. rec'.seen = {<<b, Content(b)>> : b \in S}
      BY <2>1
    <2> QED
      BY <1>v, <2>2, <2>3 DEF SeenIsThere, Absent
  <1>3. CASE Candidates \/ Confirm
    BY <1>3, <1>v, <1>t DEF Candidates, Confirm, RecStep, SeenIsThere, Absent
  <1>4. CASE QueueMissing \/ ReconcileGivesUp \/ Crash
    BY <1>4 DEF QueueMissing, ReconcileGivesUp, Crash, IdleRec, SeenIsThere
  <1>5. CASE RetryNow \/ Start \/ \E b \in Bucket, k \in Kind : BecomesDue(b, k)
    BY <1>5, <1>v, <1>t DEF RetryNow, Start, BecomesDue, SeenIsThere, Absent
  <1> QED
    BY <1>1, <1>2, <1>3, <1>4, <1>5 DEF Elsewhere, Reconcile

LEMMA ElsewhereKeeps ==
    ASSUME SInv, Elsewhere
    PROVE  /\ \A w \in Worker : WorkerHas(w)' /\ AckSafe(w)'
           /\ \A d \in Client : ClientHas(d)'
           /\ \A a \in Bucket : Traceless(a)' /\ Noticed(a)' /\ \A k \in Kind : Kept(a, k)'
           /\ SeenIsThere'
  <1>t. TypeOK /\ TypeOK'
    BY OtherTypeStep DEF SInv, Elsewhere
  <1>s. SeenIsThere'
    BY ReconcilerSees
  <1>b. \A b \in Bucket : /\ \A k \in Kind : box[b][k] # None => box'[b][k] = box[b][k]
                          /\ Absent(b) => box'[b] = box[b]
    BY ReconcilerAdds
  <1>1. CASE Crash
    <2>1. /\ UNCHANGED <<vault, box, index>> /\ missed \subseteq missed'
          /\ \A w \in Worker : wk'[w].pc = "idle"
          /\ \A c \in Client : cl'[c].pc = "idle"
          /\ \A b \in Bucket : Sweeping(b) => b \in missed'
          /\ \A b \in Bucket, k \in Kind : Owed(b, k) => b \in missed'
      BY <1>1 DEF Crash, IdleWorker, IdleClient
    <2>2. ASSUME NEW w \in Worker PROVE WorkerHas(w)' /\ AckSafe(w)'
      BY <2>1 DEF WorkerHas, AckSafe, Holds
    <2>3. ASSUME NEW c \in Client PROVE ClientHas(c)'
      BY <2>1 DEF ClientHas, Discarding
    <2>4. ASSUME NEW a \in Bucket PROVE Traceless(a)' /\ Noticed(a)' /\ \A k \in Kind : Kept(a, k)'
      <3>1. Traceless(a) /\ Noticed(a) /\ \A k \in Kind : Kept(a, k)
        BY DEF SInv
      <3>2. Traceless(a)' /\ Noticed(a)'
        BY <2>1, <3>1 DEF Traceless, Noticed, Gone, Absent
      <3>3. \A k \in Kind : Kept(a, k)'
        BY <2>1, <3>1 DEF Kept, Stale, StaleBody, StaleMeaning, Gone
      <3> QED
        BY <3>2, <3>3
    <2> QED
      BY <1>s, <2>2, <2>3, <2>4
  <1>2. CASE ~Crash
    <2>1. UNCHANGED <<vault, index, lease, wk, cl, missed>>
      BY <1>2 DEF Elsewhere, Reconcile, ReconcileGivesUp, ListBuckets, Candidates, Reread, Confirm,
                  QueueMissing, RecUnchanged, BecomesDue, RetryNow, Start
    <2>2. ASSUME NEW w \in Worker PROVE WorkerHas(w)' /\ AckSafe(w)'
      <3>p. PICK b, d, k : b = wk[w].b /\ d = wk[w].want /\ k = KindOf(d)
        OBVIOUS
      <3>h. WorkerHas(w) /\ AckSafe(w)
        BY DEF SInv
      <3>1. Holds(w) => box[b][k] # None /\ box'[b][k] = box[b][k]
        <4> SUFFICES ASSUME Holds(w) PROVE box[b][k] # None /\ box'[b][k] = box[b][k]
          OBVIOUS
        <4>1. b \in Bucket /\ k \in Kind /\ box[b][k] # None
          BY <1>t, <3>p, <3>h, DigestFacts DEF Holds, WorkerHas, TypeOK
        <4> QED
          BY <1>b, <4>1
      <3>2. WorkerHas(w)'
        BY <2>1, <3>p, <3>h, <3>1, WorkerStays DEF Absent, Deleted
      <3>3. wk[w].pc = "ack" => box'[b][k] = box[b][k]
        BY <3>1 DEF Holds
      <3>4. /\ Owed(b, k) => Owed(b, k)'
            /\ Waiting(b) => Waiting(b)'
        BY <2>1 DEF Owed, Waiting
      <3>5. AckSafe(w)'
        BY <2>1, <3>p, <3>h, <3>3, <3>4, AckStays
      <3> QED
        BY <3>2, <3>5
    <2>3. ASSUME NEW c \in Client PROVE ClientHas(c)'
      <3>p. PICK b : b = cl[c].b
        OBVIOUS
      <3>1. ClientHas(c) /\ Gone(b)' = Gone(b) /\ (Deleted(b) => Deleted(b)')
        BY <2>1 DEF SInv, Gone, Deleted
      <3> QED
        BY <2>1, <3>p, <3>1, ClientStays
    <2>4. ASSUME NEW a \in Bucket PROVE Traceless(a)' /\ Noticed(a)' /\ \A k \in Kind : Kept(a, k)'
      <3>h. Traceless(a) /\ Noticed(a) /\ \A k \in Kind : Kept(a, k)
        BY DEF SInv
      <3>1. Traceless(a)'
        BY <1>b, <2>1, <3>h, TracelessStays
      <3>2. \A k \in Kind : box[a][k] # None => box'[a][k] # None
        BY <1>b
      <3>3. box[a] # Nothing => box'[a] # Nothing
        <4>1. box[a] \in Entry /\ box'[a] \in Entry
          BY <1>t DEF TypeOK
        <4> QED
          BY <3>2, <4>1, NonEmpty
      <3>4. Sweeping(a) => Sweeping(a)'
        BY <2>1 DEF Sweeping
      <3>5. Noticed(a)'
        BY <2>1, <3>3, <3>4, <3>h, StaysNoticed
      <3>6. \A k \in Kind : Owed(a, k) => Owed(a, k)'
        BY <2>1 DEF Owed
      <3>7. \A k \in Kind : Kept(a, k)'
        BY <2>1, <3>2, <3>6, <3>h, KeptStays
      <3> QED
        BY <3>1, <3>5, <3>7
    <2> QED
      BY <1>s, <2>2, <2>3, <2>4
  <1> QED
    BY <1>1, <1>2

-----------------------------------------------------------------------------
(* The theorems *)

LEMMA SInvInit == Init => SInv
  <1> SUFFICES ASSUME Init PROVE SInv
    OBVIOUS
  <1>1. /\ \A w \in Worker : wk[w].pc = "idle"
        /\ \A c \in Client : cl[c].pc = "idle"
        /\ \A b \in Bucket : vault[b].status = "absent" /\ box[b] = Nothing /\ index[b] = Nothing
        /\ rec.seen = {}
    BY DEF Init, IdleWorker, IdleClient, IdleRec
  <1>2. \A w \in Worker : WorkerHas(w) /\ AckSafe(w)
    BY <1>1 DEF WorkerHas, AckSafe, Holds
  <1>3. \A c \in Client : ClientHas(c)
    BY <1>1 DEF ClientHas, Discarding
  <1>4. \A b \in Bucket : Traceless(b) /\ Noticed(b) /\ \A k \in Kind : Kept(b, k)
    BY <1>1 DEF Traceless, Noticed, Kept, Stale, Gone, Absent
  <1> QED
    BY <1>1, <1>2, <1>3, <1>4, TypeInit DEF SInv, SeenIsThere

LEMMA SInvStep ==
    ASSUME SharedOps
    PROVE  SInv /\ HandlersApart' /\ [Next]_vars => SInv'
  <1> SUFFICES ASSUME SInv, HandlersApart', [Next]_vars PROVE SInv'
    OBVIOUS
  <1>t. TypeOK'
    BY TypeStep DEF SInv
  <1>1. CASE UNCHANGED vars
    <2>1. UNCHANGED <<vault, box, index, lease, wk, cl, rec, missed>>
      BY <1>1 DEF vars
    <2>2. ASSUME NEW w \in Worker PROVE WorkerHas(w)' /\ AckSafe(w)'
      BY <2>1 DEF SInv, WorkerHas, AckSafe, Holds, Absent, Deleted, MadeFrom, Gone, Rerender, Owed, Waiting
    <2>3. ASSUME NEW c \in Client PROVE ClientHas(c)'
      BY <2>1 DEF SInv, ClientHas, Gone, Deleted, Current
    <2>4. ASSUME NEW b \in Bucket PROVE Traceless(b)' /\ Noticed(b)' /\ \A k \in Kind : Kept(b, k)'
      BY <2>1 DEF SInv, Traceless, Noticed, Kept, Absent, Gone, Sweeping, Stale, StaleBody, StaleMeaning, Owed
    <2>5. SeenIsThere'
      BY <2>1 DEF SInv, SeenIsThere, Absent
    <2> QED
      BY <1>t, <2>2, <2>3, <2>4, <2>5 DEF SInv
  <1>2. CASE Next
    <2>1. \/ \E c \in Client : ClientBegins(c) \/ ClientStep(c) \/ ClientFault(c)
          \/ \E w \in Worker : WorkerActs(w)
          \/ Elsewhere
      BY <1>2 DEF Next, WorkerActs, Elsewhere
    <2>2. ASSUME NEW c \in Client, ClientBegins(c) PROVE SInv'
      BY <1>t, <2>2, CommitKeeps DEF SInv
    <2>3. ASSUME NEW c \in Client, ClientStep(c) \/ ClientFault(c) PROVE SInv'
      BY <1>t, <2>3, HandlerKeeps DEF SInv
    <2>4. ASSUME NEW w \in Worker, WorkerActs(w) PROVE SInv'
      <3>1. \A x \in Worker : WorkerHas(x)' /\ AckSafe(x)'
        BY <2>4, WorkerSparesOthers, WorkerOwn
      <3>2. (\A c \in Client : ClientHas(c)') /\ SeenIsThere'
        BY <2>4, WorkerSparesOthers
      <3>3. \A a \in Bucket : Traceless(a)' /\ Noticed(a)' /\ \A k \in Kind : Kept(a, k)'
        BY <2>4, WorkerKeepsBuckets
      <3> QED
        BY <1>t, <3>1, <3>2, <3>3 DEF SInv
    <2>5. CASE Elsewhere
      BY <1>t, <2>5, ElsewhereKeeps DEF SInv
    <2> QED
      BY <2>1, <2>2, <2>3, <2>4, <2>5
  <1> QED
    BY <1>1, <1>2

LEMMA SInvAlways ==
    ASSUME SharedOps
    PROVE  Spec /\ []HandlersApart => []SInv
  <1>1. SInv /\ HandlersApart' /\ [Next]_vars => SInv'
    BY SInvStep
  <1> QED
    BY <1>1, SInvInit, PTL DEF Spec

\* However many workers and processes share the vault, and without any common
\* loop, no derived work is lost: the digest comparison of the acknowledgement,
\* the second read of Markdown and the lease are enough, as long as no memory
\* is written while the digests of its last commit are still to be registered.
\* Whatever crashes, times out or fails meanwhile is on record.
THEOREM SharedLosesNoWork ==
    ASSUME SharedOps
    PROVE  Spec /\ []HandlersApart => []NoLostWork
  <1>1. Spec /\ []HandlersApart => []SInv
    BY SInvAlways
  <1>2. SInv => NoLostWork
    BY DEF SInv, Kept, NoLostWork
  <1> QED
    BY <1>1, <1>2, PTL

\* Nor does a vector that a worker of another process stores late for a bucket
\* deleted meanwhile survive unnoticed: the outbox item is still there, or a
\* sweep is waiting for the worker's lease.
THEOREM SharedLeavesNoOrphan ==
    ASSUME SharedOps
    PROVE  Spec /\ []HandlersApart => []NoOrphanVector
  <1>1. Spec /\ []HandlersApart => []SInv
    BY SInvAlways
  <1>2. SInv => NoOrphanVector
    BY DEF SInv, Noticed, NoOrphanVector
  <1> QED
    BY <1>1, <1>2, PTL
\* With one handler at a time there is nothing to assume of the handlers: any
\* number of workers in any number of processes may serve the vault.
THEOREM OneHandlerManyWorkers ==
    ASSUME SharedOps, \A c, d \in Client : c = d
    PROVE  Spec => [](NoLostWork /\ NoOrphanVector)
  <1>1. HandlersApart
    BY DEF HandlersApart
  <1>2. Spec /\ []HandlersApart => []NoLostWork
    BY SharedLosesNoWork
  <1>3. Spec /\ []HandlersApart => []NoOrphanVector
    BY SharedLeavesNoOrphan
  <1> QED
    BY <1>1, <1>2, <1>3, PTL
=============================================================================

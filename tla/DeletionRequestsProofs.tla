----------------------- MODULE DeletionRequestsProofs -----------------------
(***************************************************************************)
(* Proofs about DeletionRequests: types, the three limits, decisions that  *)
(* stand, and the refinement of DeletionLedger, for any number of memories *)
(* and handlers and any limits, over midnight and through crashes, as long *)
(* as the ledger can always be read.                                       *)
(*                                                                         *)
(* The argument.  Only the holder of the lease has a copy of the ledger,   *)
(* and what its copy says beyond the file is exactly what it is about to   *)
(* save: new requests that keep the copy within the limits, or endings of  *)
(* requests that are pending on disk.  So every save is one step of the    *)
(* abstract ledger, and everything before it is none.                      *)
(***************************************************************************)
EXTENDS DeletionRequests, FiniteSetTheorems, SequenceTheorems, TLAPS

\* The abstract guard, in the terms of the code.
Lawful(rs) ==
    /\ \A b \in Bucket : /\ Cardinality(Pending(rs, b)) <= 1
                         /\ Cardinality(Related(rs, b)) <= LifetimeLimit
    /\ \A d \in 1..LastDay : Cardinality(OnDay(rs, d)) <= DailyLimit

LEMMA SameCardinality == \A S : Ledger!Cardinality(S) = Cardinality(S)
  BY DEF Cardinality, Ledger!Cardinality

LEMMA LawfulIsLedgerLawful ==
    ASSUME NEW rs
    PROVE  Lawful(rs) <=> Ledger!Lawful(rs)
  BY SameCardinality DEF Lawful, Ledger!Lawful, Pending, Related, OnDay

-----------------------------------------------------------------------------
(* Ledgers *)

LEMMA FiniteParts ==
    ASSUME NEW rs \in Seq(Record)
    PROVE  /\ \A b : /\ IsFiniteSet(Related(rs, b))
                     /\ IsFiniteSet(Pending(rs, b))
           /\ \A d : IsFiniteSet(OnDay(rs, d))
  <1>1. DOMAIN rs = 1..Len(rs) /\ Len(rs) \in Nat
    BY LenProperties
  <1>2. IsFiniteSet(DOMAIN rs)
    BY <1>1, FS_Interval
  <1> QED
    BY <1>2, FS_Subset DEF Related, Pending, OnDay

\* A ledger with the same requests and no more pending ones is lawful too.
LEMMA EndingsKeepLaw ==
    ASSUME NEW rs \in Seq(Record), NEW ts \in Seq(Record), Lawful(rs), Len(ts) = Len(rs),
           \A i \in 1..Len(rs) : /\ ts[i].b = rs[i].b /\ ts[i].day = rs[i].day
                                 /\ ts[i].status = "pending" => rs[i].status = "pending"
    PROVE  Lawful(ts)
  <1>1. DOMAIN rs = 1..Len(rs) /\ DOMAIN ts = 1..Len(rs)
    BY LenProperties
  <1>2. ASSUME NEW b \in Bucket
        PROVE  /\ Related(ts, b) = Related(rs, b)
               /\ Pending(ts, b) \subseteq Pending(rs, b)
    BY <1>1 DEF Related, Pending
  <1>3. ASSUME NEW b \in Bucket
        PROVE  Cardinality(Pending(ts, b)) <= Cardinality(Pending(rs, b))
    BY <1>2, FiniteParts, FS_Subset
  <1>4. ASSUME NEW b \in Bucket
        PROVE  /\ Cardinality(Pending(ts, b)) \in Nat
               /\ Cardinality(Pending(rs, b)) \in Nat
    BY FiniteParts, FS_CardinalityType
  <1>5. ASSUME NEW b \in Bucket
        PROVE  Cardinality(Pending(ts, b)) <= 1
    BY <1>3, <1>4 DEF Lawful
  <1>6. ASSUME NEW d
        PROVE  OnDay(ts, d) = OnDay(rs, d)
    BY <1>1 DEF OnDay
  <1> QED
    BY <1>2, <1>5, <1>6 DEF Lawful

\* A request that may be filed keeps the ledger within the limits.
LEMMA FilingKeepsLaw ==
    ASSUME NEW rs \in Seq(Record), NEW b \in Bucket, NEW action \in Actions,
           NEW day \in 1..LastDay, Lawful(rs), MayFile(rs, b, day)
    PROVE  /\ Append(rs, NewRecord(b, action, day)) \in Seq(Record)
           /\ Lawful(Append(rs, NewRecord(b, action, day)))
  <1> DEFINE new == NewRecord(b, action, day)
             n == Len(rs)
             ts == Append(rs, new)
  <1>1. n \in Nat /\ DOMAIN rs = 1..n
    BY LenProperties
  <1>2. new \in Record /\ new.b = b /\ new.day = day /\ new.status = "pending"
    BY DEF NewRecord, Record, Status
  <1> HIDE DEF new
  <1>3. /\ ts \in Seq(Record) /\ Len(ts) = n + 1
        /\ \A i \in 1..n : ts[i] = rs[i]
        /\ ts[n + 1] = new
    BY <1>1, <1>2, AppendProperties
  <1>4. DOMAIN ts = 1..(n + 1)
    BY <1>3, LenProperties
  <1> HIDE DEF ts
  <1>5. ASSUME NEW a \in Bucket
        PROVE  /\ Related(ts, a) = IF a = b THEN Related(rs, a) \cup {n + 1} ELSE Related(rs, a)
               /\ Pending(ts, a) = IF a = b THEN Pending(rs, a) \cup {n + 1} ELSE Pending(rs, a)
    BY <1>1, <1>2, <1>3, <1>4 DEF Related, Pending
  <1>6. ASSUME NEW d \in 1..LastDay
        PROVE  OnDay(ts, d) = IF d = day THEN OnDay(rs, d) \cup {n + 1} ELSE OnDay(rs, d)
    BY <1>1, <1>2, <1>3, <1>4 DEF OnDay
  <1>7. n + 1 \notin DOMAIN rs
    BY <1>1
  <1>8. /\ n + 1 \notin Related(rs, b) /\ n + 1 \notin Pending(rs, b)
        /\ n + 1 \notin OnDay(rs, day)
    BY <1>7 DEF Related, Pending, OnDay
  <1>9. /\ Cardinality(Related(rs, b) \cup {n + 1}) = Cardinality(Related(rs, b)) + 1
        /\ Cardinality(Pending(rs, b) \cup {n + 1}) = Cardinality(Pending(rs, b)) + 1
        /\ Cardinality(OnDay(rs, day) \cup {n + 1}) = Cardinality(OnDay(rs, day)) + 1
    BY <1>8, FiniteParts, FS_AddElement
  <1>10. /\ Cardinality(Related(rs, b)) \in Nat
         /\ Cardinality(OnDay(rs, day)) \in Nat
    BY FiniteParts, FS_CardinalityType
  <1>11. Cardinality(Pending(rs, b)) = 0
    BY FS_EmptySet DEF MayFile
  <1>12. LifetimeLimit \in Nat /\ DailyLimit \in Nat
    BY LimitAssumption
  <1>13. /\ Cardinality(Related(rs, b)) + 1 <= LifetimeLimit
         /\ Cardinality(OnDay(rs, day)) + 1 <= DailyLimit
    BY <1>10, <1>12 DEF MayFile
  <1>14. ASSUME NEW a \in Bucket
         PROVE  Cardinality(Pending(ts, a)) <= 1 /\ Cardinality(Related(ts, a)) <= LifetimeLimit
    <2>1. CASE a = b
      <3>1. Cardinality(Pending(ts, a)) = 1
        <4>1. Pending(ts, a) = Pending(rs, b) \cup {n + 1}
          BY <2>1, <1>5
        <4>2. Cardinality(Pending(ts, a)) = Cardinality(Pending(rs, b)) + 1
          BY <4>1, <1>9
        <4> QED
          BY <4>2, <1>11
      <3>2. Cardinality(Related(ts, a)) = Cardinality(Related(rs, b)) + 1
        BY <2>1, <1>5, <1>9
      <3> QED
        BY <3>1, <3>2, <1>13
    <2>2. CASE a # b
      BY <2>2, <1>5 DEF Lawful
    <2> QED
      BY <2>1, <2>2
  <1>15. ASSUME NEW d \in 1..LastDay
         PROVE  Cardinality(OnDay(ts, d)) <= DailyLimit
    BY <1>6, <1>9, <1>13 DEF Lawful
  <1> QED
    BY <1>3, <1>14, <1>15 DEF ts, new, Lawful

-----------------------------------------------------------------------------
(* The inductive invariant *)

Handler == [pc : {"idle", "want", "submit", "batch", "withdraw", "reconcile",
                  "decide", "execute", "approve"},
            op : {"none", "submit", "batch", "withdraw", "reconcile", "decide"},
            b : Bucket \cup {Nobody}, action : Actions, i : Nat, approve : BOOLEAN,
            left : SUBSET Bucket, todo : SUBSET Nat, draft : Seq(Record), day : 1..LastDay]

\* What a batch has added to its copy r.draft of the ledger rs.
Added(r, rs) ==
    /\ Len(rs) <= Len(r.draft)
    /\ \A i \in 1..Len(rs) : r.draft[i] = rs[i]
    /\ \A i \in (Len(rs) + 1)..Len(r.draft) :
         r.draft[i] = NewRecord(r.draft[i].b, r.action, r.day)
    /\ Lawful(r.draft)
    /\ \A i \in 1..Len(rs) : rs[i].status = "pending" => i \in r.todo

\* What reconcile_pending has ended in its copy.
Ended(r, rs) ==
    /\ Len(r.draft) = Len(rs)
    /\ \A i \in 1..Len(rs) :
         \/ r.draft[i] = rs[i]
         \/ rs[i].status = "pending" /\ r.draft[i] = [rs[i] EXCEPT !.status = "superseded"]
    /\ \A i \in r.todo : i \in 1..Len(rs) /\ rs[i].status = "pending"

\* What a handler r knows of the ledger rs on day now.
CopyOK(r, rs, now) ==
    /\ r.pc = "want" => r.op # "none"
    /\ r.pc = "submit" => r.op = "submit"
    /\ r.op = "submit" => r.b \in Bucket
    /\ r.pc \in {"submit", "withdraw", "decide", "execute", "approve"} => r.draft = rs
    /\ r.pc \in {"execute", "approve"} => r.i \in 1..Len(rs) /\ rs[r.i].status = "pending"
    /\ r.pc = "batch" => Added(r, rs) /\ r.day <= now
    /\ r.pc = "reconcile" => Ended(r, rs)

IInv ==
    /\ TypeOK
    /\ Lawful(records)
    /\ \A c \in Client : CopyOK(cl[c], records, today)

LEMMA IdleOK ==
    /\ Idle \in Handler /\ Idle.pc = "idle"
    /\ \A rs, now : CopyOK(Idle, rs, now)
  <1>1. "delete" \in Actions /\ 1 \in 1..LastDay
    BY ActionAssumption, LimitAssumption
  <1>2. << >> \in Seq(Record)
    BY EmptySeq
  <1> QED
    BY <1>1, <1>2 DEF Idle, Handler, CopyOK

LEMMA InitIInv == Init => IInv
  <1> SUFFICES ASSUME Init PROVE IInv
    OBVIOUS
  <1>1. << >> \in Seq(Record) /\ Len(<< >>) = 0 /\ DOMAIN << >> = {}
    BY EmptySeq
  <1>2. TypeOK
    BY <1>1, IdleOK, LimitAssumption, NobodyAssumption DEF Init, TypeOK, Handler
  <1>3. /\ \A b \in Bucket : Related(<< >>, b) = {} /\ Pending(<< >>, b) = {}
        /\ \A d \in 1..LastDay : OnDay(<< >>, d) = {}
    BY <1>1 DEF Related, Pending, OnDay
  <1>4. Cardinality({}) = 0
    BY FS_EmptySet
  <1>5. Lawful(records)
    <2>1. LifetimeLimit \in Nat /\ DailyLimit \in Nat
      BY LimitAssumption
    <2>2. 0 <= LifetimeLimit /\ 0 <= DailyLimit /\ 0 <= 1
      BY <2>1
    <2>3. Lawful(<< >>)
      BY <1>3, <1>4, <2>2 DEF Lawful
    <2> QED
      BY <2>3 DEF Init
  <1>6. \A c \in Client : CopyOK(cl[c], records, today)
    BY IdleOK DEF Init
  <1> QED
    BY <1>2, <1>5, <1>6 DEF IInv

\* A step of one handler: it becomes r.  Only the holder of the lease saves.
LEMMA HandlerStep ==
    ASSUME IInv, NEW c \in Client, NEW r \in Handler, cl' = [cl EXCEPT ![c] = r],
           vault' \in [Bucket -> {"live", "archived", "deleted"}],
           records' \in Seq(Record), Lawful(records'), today' = today,
           executed' \subseteq Nat,
           CopyOK(r, records', today),
           records' = records \/ holder = c,
           r.pc \notin {"idle", "want"} <=> holder' = c,
           \/ holder' = holder
           \/ holder \in {c, Nobody} /\ holder' \in {c, Nobody}
    PROVE  IInv'
  <1>1. TypeOK /\ cl \in [Client -> Handler]
    BY DEF IInv, TypeOK, Handler
  <1>2. cl' \in [Client -> Handler]
    BY <1>1
  <1>3. Nobody \notin Client
    BY NobodyAssumption
  <1>4. ASSUME NEW x \in Client
        PROVE  cl'[x].pc \notin {"idle", "want"} <=> holder' = x
    <2>1. CASE x = c
      BY <2>1, <1>1
    <2>2. CASE x # c
      BY <2>2, <1>1, <1>3 DEF TypeOK
    <2> QED
      BY <2>1, <2>2
  <1>5. TypeOK'
    <2>1. today \in 1..LastDay /\ holder' \in Client \cup {Nobody}
      BY <1>1 DEF TypeOK
    <2> QED
      BY <1>2, <1>4, <2>1 DEF TypeOK, Handler
  <1>6. ASSUME NEW x \in Client
        PROVE  CopyOK(cl'[x], records', today')
    <2>1. CASE x = c
      BY <2>1, <1>1
    <2>2. CASE x # c
      <3>1. cl'[x] = cl[x] /\ CopyOK(cl[x], records, today)
        BY <2>2, <1>1 DEF IInv
      <3>2. CASE records' = records
        BY <3>1, <3>2
      <3>3. CASE holder = c
        <4>1. cl[x].pc \in {"idle", "want"}
          BY <3>3, <2>2, <1>1 DEF TypeOK
        <4> QED
          BY <4>1, <3>1 DEF CopyOK
      <3> QED
        BY <3>2, <3>3
    <2> QED
      BY <2>1, <2>2
  <1> QED
    BY <1>5, <1>6 DEF IInv

-----------------------------------------------------------------------------
(* Every action keeps it *)

\* The lease is given back; what was saved, if anything, is rs.
LEMMA ReturnKeeps ==
    ASSUME IInv, NEW c \in Client, holder = c, Return(c),
           records' \in Seq(Record), Lawful(records'), today' = today,
           vault' \in [Bucket -> {"live", "archived", "deleted"}], executed' \subseteq Nat
    PROVE  IInv'
  <1>1. Nobody # c
    BY NobodyAssumption
  <1> QED
    BY <1>1, IdleOK, HandlerStep DEF Return

\* An ending that is saved.
LEMMA DecidedRecord ==
    ASSUME NEW rs \in Seq(Record), NEW i \in 1..Len(rs), NEW status \in Status
    PROVE  /\ Decided(rs, i, status) \in Seq(Record)
           /\ Len(Decided(rs, i, status)) = Len(rs)
           /\ \A j \in 1..Len(rs) :
                Decided(rs, i, status)[j] =
                  IF j = i THEN [rs[i] EXCEPT !.status = status] ELSE rs[j]
           /\ status # "pending" /\ Lawful(rs) => Lawful(Decided(rs, i, status))
  <1> DEFINE new == [rs[i] EXCEPT !.status = status]
             ts == Decided(rs, i, status)
  <1>1. \A j \in 1..Len(rs) : rs[j] \in Record
    BY ElementOfSeq
  <1>2. /\ new \in Record /\ new.b = rs[i].b /\ new.day = rs[i].day
        /\ new.status = status
    BY <1>1 DEF Record
  <1>3. DOMAIN rs = 1..Len(rs)
    BY LenProperties
  <1>4. ts = [rs EXCEPT ![i] = new]
    BY <1>3 DEF Decided
  <1> HIDE DEF new
  <1>5. /\ ts \in Seq(Record) /\ Len(ts) = Len(rs)
        /\ \A j \in 1..Len(rs) : ts[j] = IF j = i THEN new ELSE rs[j]
    BY <1>2, <1>4, ExceptSeq
  <1> HIDE DEF ts
  <1>6. ASSUME status # "pending", Lawful(rs)
        PROVE  Lawful(ts)
    BY <1>2, <1>5, <1>6, EndingsKeepLaw
  <1> QED
    BY <1>5, <1>6 DEF new, ts

LEMMA VaultSteps ==
    ASSUME IInv, NEW b \in Bucket, Archive(b) \/ Delete(b) \/ Restore(b)
    PROVE  IInv'
  <1>1. /\ vault' \in [Bucket -> {"live", "archived", "deleted"}]
        /\ UNCHANGED <<records, today, holder, cl, executed>>
    BY DEF IInv, TypeOK, Archive, Delete, Restore, VaultStep
  <1>2. TypeOK'
    BY <1>1 DEF IInv, TypeOK
  <1> QED
    BY <1>1, <1>2 DEF IInv

LEMMA MidnightKeeps == IInv /\ Midnight => IInv'
  <1> SUFFICES ASSUME IInv, Midnight PROVE IInv'
    OBVIOUS
  <1>1. /\ UNCHANGED <<vault, records, holder, cl, executed>>
        /\ today \in 1..LastDay /\ today' \in 1..LastDay /\ today <= today'
    BY LimitAssumption DEF Midnight, IInv, TypeOK
  <1>2. TypeOK'
    BY <1>1 DEF IInv, TypeOK
  <1>3. ASSUME NEW c \in Client
        PROVE  CopyOK(cl[c], records, today')
    <2>1. cl[c].day \in 1..LastDay
      BY DEF IInv, TypeOK
    <2> QED
      BY <1>1, <2>1 DEF IInv, CopyOK
  <1> QED
    BY <1>1, <1>2, <1>3 DEF IInv

LEMMA CallKeeps ==
    ASSUME IInv, NEW c \in Client, NEW q \in Handler, Call(c, q),
           q.op # "none", q.op = "submit" => q.b \in Bucket
    PROVE  IInv'
  <1> DEFINE r == [q EXCEPT !.pc = "want"]
  <1>1. r \in Handler /\ r.pc = "want" /\ r.op = q.op /\ r.b = q.b
    BY DEF Handler
  <1>2. cl' = [cl EXCEPT ![c] = r] /\ UNCHANGED <<vault, records, today, holder, executed>>
    BY DEF Call
  <1>3. holder # c
    BY DEF Call, IInv, TypeOK
  <1> HIDE DEF r
  <1>4. CopyOK(r, records, today)
    BY <1>1 DEF CopyOK
  <1>5. TypeOK /\ Lawful(records)
    BY DEF IInv
  <1> QED
    BY <1>1, <1>2, <1>3, <1>4, <1>5, HandlerStep DEF TypeOK

LEMMA CallsCall ==
    ASSUME IInv, NEW c \in Client, Calls(c)
    PROVE  \E q \in Handler : /\ Call(c, q)
                              /\ q.op # "none"
                              /\ q.op = "submit" => q.b \in Bucket
  <1> DEFINE Good(q) == /\ q \in Handler /\ Call(c, q)
                        /\ q.op # "none"
                        /\ q.op = "submit" => q.b \in Bucket
  <1>1. ASSUME NEW b \in Bucket, NEW action \in Actions, CallSubmit(c, b, action)
        PROVE  Good([Idle EXCEPT !.op = "submit", !.b = b, !.action = action])
    BY <1>1, IdleOK DEF CallSubmit, Idle, Handler
  <1>2. ASSUME NEW bs \in SUBSET Bucket, NEW action \in Actions, CallBatch(c, bs, action)
        PROVE  Good([Idle EXCEPT !.op = "batch", !.left = bs, !.action = action])
    BY <1>2, IdleOK DEF CallBatch, Idle, Handler
  <1>3. ASSUME NEW b \in Bucket, CallWithdraw(c, b)
        PROVE  Good([Idle EXCEPT !.op = "withdraw", !.b = b])
    BY <1>3, IdleOK DEF CallWithdraw, Idle, Handler
  <1>4. CallReconcile(c) => Good([Idle EXCEPT !.op = "reconcile"])
    BY IdleOK DEF CallReconcile, Idle, Handler
  <1>5. ASSUME NEW i \in DOMAIN records, NEW approve \in BOOLEAN, CallDecide(c, i, approve)
        PROVE  Good([Idle EXCEPT !.op = "decide", !.i = i, !.approve = approve])
    <2>1. i \in Nat
      BY LenProperties DEF IInv, TypeOK
    <2> QED
      BY <1>5, <2>1, IdleOK DEF CallDecide, Idle, Handler
  <1>6. (\E q : Good(q)) => \E q \in Handler : /\ Call(c, q)
                                               /\ q.op # "none"
                                               /\ q.op = "submit" => q.b \in Bucket
    OBVIOUS
  <1> HIDE DEF Good
  <1> QED
    BY <1>1, <1>2, <1>3, <1>4, <1>5, <1>6 DEF Calls

LEMMA CallsKeep ==
    ASSUME IInv, NEW c \in Client, Calls(c)
    PROVE  IInv'
  BY CallsCall, CallKeeps

\* The copy that Take makes is the file itself, if the file can be read.
LEMMA TakeKeeps ==
    ASSUME IInv, "unreadable" \notin Ops, NEW c \in Client, NEW rs, Take(c, rs)
    PROVE  IInv'
  <1> DEFINE todo == {i \in DOMAIN rs : rs[i].status = "pending"}
             r == [cl[c] EXCEPT !.pc = cl[c].op, !.draft = rs, !.day = today, !.todo = todo]
  <1>1. /\ rs = records /\ holder = Nobody /\ holder' = c /\ cl[c].pc = "want"
        /\ UNCHANGED <<vault, records, today, executed>>
    BY DEF Take
  <1>2. /\ cl[c] \in Handler /\ CopyOK(cl[c], records, today) /\ Lawful(records)
        /\ rs \in Seq(Record) /\ today \in 1..LastDay /\ cl \in [Client -> Handler]
    BY <1>1 DEF IInv, TypeOK, Handler
  <1>3. DOMAIN rs = 1..Len(rs) /\ Len(rs) \in Nat
    BY <1>2, LenProperties
  <1>4. todo \in SUBSET Nat
    BY <1>3
  <1>5. cl' = [cl EXCEPT ![c] = r]
    BY <1>2 DEF Take
  <1>6. cl[c].op \in {"submit", "batch", "withdraw", "reconcile", "decide"}
    BY <1>1, <1>2 DEF CopyOK, Handler
  <1>7. /\ r \in Handler /\ r.pc = cl[c].op /\ r.op = cl[c].op /\ r.b = cl[c].b
        /\ r.draft = records /\ r.day = today /\ r.todo = todo
    BY <1>1, <1>2, <1>4, <1>6 DEF Handler
  <1>8. /\ \A i \in 1..Len(records) : records[i].status = "pending" => i \in todo
        /\ \A i \in todo : i \in 1..Len(records) /\ records[i].status = "pending"
    BY <1>1, <1>3
  <1> HIDE DEF r, todo
  <1>9. Added(r, records) /\ Ended(r, records)
    <2>1. (Len(records) + 1)..Len(records) = {}
      BY <1>1, <1>3
    <2> QED
      BY <1>1, <1>2, <1>3, <1>7, <1>8, <2>1 DEF Added, Ended
  <1>10. CopyOK(r, records, today)
    BY <1>2, <1>6, <1>7, <1>9 DEF CopyOK
  <1>11. r.pc \notin {"idle", "want"}
    BY <1>6, <1>7
  <1> QED
    BY <1>1, <1>2, <1>5, <1>7, <1>10, <1>11, HandlerStep DEF IInv, TypeOK

LEMMA RemovedType ==
    ASSUME IInv, NEW b \in Bucket, NEW action
    PROVE  [vault EXCEPT ![b] = Removed(b, action)] \in [Bucket -> {"live", "archived", "deleted"}]
  BY DEF IInv, TypeOK, Removed

\* A handler past the lease is its holder, and so are its type and its copy.
LEMMA AtWork ==
    ASSUME IInv, NEW c \in Client, cl[c].pc \notin {"idle", "want"}
    PROVE  /\ holder = c /\ holder \in Client
           /\ cl[c] \in Handler /\ CopyOK(cl[c], records, today)
           /\ cl \in [Client -> Handler]
           /\ records \in Seq(Record) /\ Lawful(records)
           /\ Len(records) \in Nat /\ DOMAIN records = 1..Len(records)
           /\ today \in 1..LastDay
           /\ vault \in [Bucket -> {"live", "archived", "deleted"}]
           /\ executed \subseteq Nat
  BY LenProperties DEF IInv, TypeOK, Handler

\* A step that saves nothing and keeps the lease.
LEMMA GoOn ==
    ASSUME IInv, NEW c \in Client, cl[c].pc \notin {"idle", "want"},
           NEW r \in Handler, cl' = [cl EXCEPT ![c] = r], r.pc \notin {"idle", "want"},
           UNCHANGED <<records, today, holder>>,
           vault' \in [Bucket -> {"live", "archived", "deleted"}], executed' \subseteq Nat,
           CopyOK(r, records, today)
    PROVE  IInv'
  BY AtWork, HandlerStep

LEMMA SubmitKeeps ==
    ASSUME IInv, NEW c \in Client, Submit(c)
    PROVE  IInv'
  <1> DEFINE b == cl[c].b
             rs == cl[c].draft
  <1>1. cl[c].pc = "submit" /\ today' = today /\ executed' = executed
    BY DEF Submit, At
  <1>2. /\ holder = c /\ CopyOK(cl[c], records, today) /\ cl[c] \in Handler
        /\ records \in Seq(Record) /\ Lawful(records) /\ today \in 1..LastDay
        /\ vault \in [Bucket -> {"live", "archived", "deleted"}]
        /\ executed \subseteq Nat
    BY <1>1, AtWork
  <1>3. b \in Bucket /\ cl[c].action \in Actions /\ rs = records
    BY <1>1, <1>2 DEF CopyOK, Handler
  <1>4. CASE Return(c) /\ records' = records /\ vault' = [vault EXCEPT ![b] = Removed(b, cl[c].action)]
    BY <1>1, <1>2, <1>3, <1>4, RemovedType, ReturnKeeps
  <1>5. CASE Return(c) /\ UNCHANGED <<vault, records>>
    BY <1>1, <1>2, <1>5, ReturnKeeps
  <1>6. CASE /\ MayFile(rs, b, today)
             /\ Save(c, Append(rs, NewRecord(b, cl[c].action, today)))
             /\ UNCHANGED vault
    <2>1. records' \in Seq(Record) /\ Lawful(records')
      BY <1>2, <1>3, <1>6, FilingKeepsLaw DEF Save
    <2> QED
      BY <1>1, <1>2, <1>6, <2>1, ReturnKeeps DEF Save
  <1> QED
    BY <1>4, <1>5, <1>6 DEF Submit

\* One memory of a batch: the copy grows by at most one lawful request.
LEMMA BatchItemKeeps ==
    ASSUME IInv, NEW c \in Client, NEW b \in Bucket, BatchItem(c, b)
    PROVE  IInv'
  <1> DEFINE rs == cl[c].draft
             new == NewRecord(b, cl[c].action, cl[c].day)
             files == b \notin Test /\ vault[b] # "deleted" /\ MayFile(rs, b, cl[c].day)
             ts == IF files THEN Append(rs, new) ELSE rs
             r == [cl[c] EXCEPT !.left = cl[c].left \ {b}, !.draft = ts]
  <1>1. /\ cl[c].pc = "batch" /\ UNCHANGED <<records, today, holder, executed>>
        /\ vault' \in {vault, [vault EXCEPT ![b] = Removed(b, cl[c].action)]}
    BY DEF BatchItem, At
  <1>2. /\ cl[c] \in Handler /\ CopyOK(cl[c], records, today) /\ cl \in [Client -> Handler]
        /\ Len(records) \in Nat /\ records \in Seq(Record)
        /\ vault \in [Bucket -> {"live", "archived", "deleted"}]
        /\ executed \subseteq Nat
    BY <1>1, AtWork
  <1>3. /\ rs \in Seq(Record) /\ cl[c].action \in Actions /\ cl[c].day \in 1..LastDay
        /\ Added(cl[c], records) /\ cl[c].day <= today
    BY <1>1, <1>2 DEF CopyOK, Handler
  <1>4. Len(rs) \in Nat /\ Len(records) <= Len(rs) /\ Lawful(rs)
    BY <1>3, LenProperties DEF Added
  <1>5. new \in Record /\ new.b = b
    BY <1>3 DEF NewRecord, Record, Status
  <1>6. /\ ts \in Seq(Record) /\ Lawful(ts) /\ Len(ts) >= Len(rs)
        /\ \A i \in 1..Len(rs) : ts[i] = rs[i]
        /\ \A i \in (Len(rs) + 1)..Len(ts) : ts[i] = new
    <2>1. CASE files
      <3>1. ts \in Seq(Record) /\ Lawful(ts)
        BY <1>3, <1>4, <2>1, FilingKeepsLaw
      <3>2. /\ Len(ts) = Len(rs) + 1 /\ ts[Len(rs) + 1] = new
            /\ \A i \in 1..Len(rs) : ts[i] = rs[i]
        BY <1>3, <1>4, <1>5, <2>1, AppendProperties
      <3> QED
        BY <3>1, <3>2, <1>4
    <2>2. CASE ~files
      BY <2>2, <1>3, <1>4
    <2> QED
      BY <2>1, <2>2
  <1>7. cl' = [cl EXCEPT ![c] = r]
    BY <1>2 DEF BatchItem
  <1> HIDE DEF new, ts
  <1>8. /\ r \in Handler /\ r.pc = "batch" /\ r.op = cl[c].op /\ r.b = cl[c].b
        /\ r.draft = ts /\ r.action = cl[c].action /\ r.day = cl[c].day /\ r.todo = cl[c].todo
    BY <1>1, <1>2, <1>6 DEF Handler
  <1> HIDE DEF r
  <1>9. Added(r, records)
    <2>1. Len(ts) \in Nat
      BY <1>6, LenProperties
    <2>2. \A i \in 1..Len(records) : ts[i] = records[i]
      BY <1>2, <1>3, <1>4, <1>6 DEF Added
    <2>3. ASSUME NEW i \in (Len(records) + 1)..Len(ts)
          PROVE  ts[i] = NewRecord(ts[i].b, cl[c].action, cl[c].day)
      <3>1. CASE i <= Len(rs)
        <4>1. i \in (Len(records) + 1)..Len(rs) /\ i \in 1..Len(rs)
          BY <3>1, <1>2, <1>4, <2>1
        <4> QED
          BY <4>1, <1>3, <1>6 DEF Added
      <3>2. CASE ~(i <= Len(rs))
        <4>1. i \in (Len(rs) + 1)..Len(ts)
          BY <3>2, <1>2, <1>4, <2>1
        <4>2. ts[i] = new
          BY <4>1, <1>6
        <4> QED
          BY <4>2, <1>5 DEF new
      <3> QED
        BY <3>1, <3>2
    <2>4. Len(records) <= Len(ts)
      BY <1>2, <1>4, <1>6, <2>1
    <2> QED
      BY <1>3, <1>6, <1>8, <2>2, <2>3, <2>4 DEF Added
  <1>10. CopyOK(r, records, today)
    BY <1>1, <1>2, <1>3, <1>8, <1>9 DEF CopyOK
  <1>11. vault' \in [Bucket -> {"live", "archived", "deleted"}]
    BY <1>1, <1>2, RemovedType
  <1> QED
    BY <1>1, <1>2, <1>7, <1>8, <1>10, <1>11, GoOn

LEMMA BatchDoneKeeps ==
    ASSUME IInv, NEW c \in Client, BatchDone(c)
    PROVE  IInv'
  <1>1. /\ cl[c].pc = "batch" /\ UNCHANGED <<vault, today, executed>>
        /\ \/ Return(c) /\ records' = records
           \/ Save(c, cl[c].draft)
    BY DEF BatchDone, At
  <1>2. /\ holder = c /\ CopyOK(cl[c], records, today) /\ cl[c] \in Handler
        /\ records \in Seq(Record) /\ Lawful(records)
        /\ vault \in [Bucket -> {"live", "archived", "deleted"}]
        /\ executed \subseteq Nat
    BY <1>1, AtWork
  <1>3. cl[c].draft \in Seq(Record) /\ Lawful(cl[c].draft)
    BY <1>1, <1>2 DEF CopyOK, Added, Handler
  <1> QED
    BY <1>1, <1>2, <1>3, ReturnKeeps DEF Save

LEMMA WithdrawKeeps ==
    ASSUME IInv, NEW c \in Client, Withdraw(c)
    PROVE  IInv'
  <1>1. cl[c].pc = "withdraw" /\ UNCHANGED <<vault, today, executed>>
    BY DEF Withdraw, At
  <1>2. /\ holder = c /\ CopyOK(cl[c], records, today)
        /\ records \in Seq(Record) /\ Lawful(records) /\ DOMAIN records = 1..Len(records)
        /\ vault \in [Bucket -> {"live", "archived", "deleted"}]
        /\ executed \subseteq Nat
    BY <1>1, AtWork
  <1>3. cl[c].draft = records
    BY <1>1, <1>2 DEF CopyOK
  <1>4. CASE Return(c) /\ records' = records
    BY <1>1, <1>2, <1>4, ReturnKeeps
  <1>5. ASSUME NEW i \in Pending(records, cl[c].b), Save(c, Decided(records, i, "withdrawn"))
        PROVE  IInv'
    <2>1. i \in 1..Len(records)
      BY <1>2 DEF Pending, Related
    <2>2. records' \in Seq(Record) /\ Lawful(records')
      BY <1>2, <1>5, <2>1, DecidedRecord DEF Save, Status
    <2> QED
      BY <1>1, <1>2, <1>5, <2>2, ReturnKeeps DEF Save
  <1> QED
    BY <1>3, <1>4, <1>5 DEF Withdraw

LEMMA ReconcileItemKeeps ==
    ASSUME IInv, NEW c \in Client, NEW i, ReconcileItem(c, i)
    PROVE  IInv'
  <1> DEFINE rs == cl[c].draft
             ts == IF vault[rs[i].b] # "live" THEN Decided(rs, i, "superseded") ELSE rs
             r == [cl[c] EXCEPT !.todo = cl[c].todo \ {i}, !.draft = ts]
  <1>1. /\ cl[c].pc = "reconcile" /\ i \in cl[c].todo
        /\ UNCHANGED <<vault, records, today, holder, executed>>
    BY DEF ReconcileItem, At
  <1>2. /\ cl[c] \in Handler /\ CopyOK(cl[c], records, today) /\ cl \in [Client -> Handler]
        /\ records \in Seq(Record)
        /\ vault \in [Bucket -> {"live", "archived", "deleted"}]
        /\ executed \subseteq Nat
    BY <1>1, AtWork
  <1>3. rs \in Seq(Record) /\ Ended(cl[c], records)
    BY <1>1, <1>2 DEF CopyOK, Handler
  <1>4. i \in 1..Len(rs) /\ records[i].status = "pending" /\ Len(rs) = Len(records)
    BY <1>1, <1>3 DEF Ended
  <1>5. \A j \in 1..Len(records) : records[j] \in Record
    BY <1>2, ElementOfSeq
  <1>6. /\ ts \in Seq(Record) /\ Len(ts) = Len(records)
        /\ \A j \in 1..Len(records) :
             ts[j] = rs[j] \/ (j = i /\ ts[j] = [rs[i] EXCEPT !.status = "superseded"])
    <2> DEFINE us == Decided(rs, i, "superseded")
    <2>1. /\ us \in Seq(Record) /\ Len(us) = Len(rs)
          /\ \A j \in 1..Len(rs) :
               us[j] = IF j = i THEN [rs[i] EXCEPT !.status = "superseded"] ELSE rs[j]
      BY <1>3, <1>4, DecidedRecord DEF Status
    <2>2. CASE ts = us
      <3>1. \A j \in 1..Len(records) : us[j] = rs[j] \/ j = i
        BY <1>4, <2>1
      <3> QED
        BY <1>4, <2>1, <2>2, <3>1
    <2>3. CASE ts = rs
      BY <1>3, <1>4, <2>3
    <2> QED
      BY <2>2, <2>3
  <1>7. [rs[i] EXCEPT !.status = "superseded"] = [records[i] EXCEPT !.status = "superseded"]
    BY <1>3, <1>4, <1>5 DEF Ended, Record
  <1>8. cl' = [cl EXCEPT ![c] = r]
    BY <1>2 DEF ReconcileItem
  <1> HIDE DEF ts
  <1>9. /\ r \in Handler /\ r.pc = "reconcile" /\ r.op = cl[c].op /\ r.b = cl[c].b
        /\ r.draft = ts /\ r.todo = cl[c].todo \ {i}
    BY <1>1, <1>2, <1>6 DEF Handler
  <1> HIDE DEF r
  <1>10. Ended(r, records)
    BY <1>3, <1>4, <1>6, <1>7, <1>9 DEF Ended
  <1>11. CopyOK(r, records, today)
    BY <1>2, <1>9, <1>10 DEF CopyOK
  <1> QED
    BY <1>1, <1>2, <1>8, <1>9, <1>11, GoOn

LEMMA EndedLawful ==
    ASSUME NEW r \in Handler, NEW rs \in Seq(Record), Lawful(rs), Ended(r, rs)
    PROVE  Lawful(r.draft) /\ r.draft \in Seq(Record)
  <1>1. \A i \in 1..Len(rs) : rs[i] \in Record
    BY ElementOfSeq
  <1>2. r.draft \in Seq(Record) /\ Len(r.draft) = Len(rs)
    BY DEF Handler, Ended
  <1>3. \A i \in 1..Len(rs) :
          /\ r.draft[i].b = rs[i].b /\ r.draft[i].day = rs[i].day
          /\ r.draft[i].status = "pending" => rs[i].status = "pending"
    BY <1>1 DEF Ended, Record
  <1> QED
    BY <1>2, <1>3, EndingsKeepLaw

LEMMA ReconcileDoneKeeps ==
    ASSUME IInv, NEW c \in Client, ReconcileDone(c)
    PROVE  IInv'
  <1>1. /\ cl[c].pc = "reconcile" /\ UNCHANGED <<vault, today, executed>>
        /\ \/ Return(c) /\ records' = records
           \/ Save(c, cl[c].draft)
    BY DEF ReconcileDone, At
  <1>2. /\ holder = c /\ CopyOK(cl[c], records, today) /\ cl[c] \in Handler
        /\ records \in Seq(Record) /\ Lawful(records)
        /\ vault \in [Bucket -> {"live", "archived", "deleted"}]
        /\ executed \subseteq Nat
    BY <1>1, AtWork
  <1>3. cl[c].draft \in Seq(Record) /\ Lawful(cl[c].draft)
    BY <1>1, <1>2, EndedLawful DEF CopyOK
  <1> QED
    BY <1>1, <1>2, <1>3, ReturnKeeps DEF Save

LEMMA JudgeKeeps ==
    ASSUME IInv, NEW c \in Client, Judge(c)
    PROVE  IInv'
  <1> DEFINE i == cl[c].i
             r == [cl[c] EXCEPT !.pc = "execute"]
  <1>1. cl[c].pc = "decide" /\ UNCHANGED <<vault, today, executed>>
    BY DEF Judge, At
  <1>2. /\ holder = c /\ CopyOK(cl[c], records, today) /\ cl[c] \in Handler
        /\ cl \in [Client -> Handler]
        /\ records \in Seq(Record) /\ Lawful(records) /\ DOMAIN records = 1..Len(records)
        /\ vault \in [Bucket -> {"live", "archived", "deleted"}]
        /\ executed \subseteq Nat
    BY <1>1, AtWork
  <1>3. cl[c].draft = records
    BY <1>1, <1>2 DEF CopyOK
  <1>4. CASE Return(c) /\ records' = records
    BY <1>1, <1>2, <1>4, ReturnKeeps
  <1>5. ASSUME i \in DOMAIN records, NEW status \in {"superseded", "rejected"},
               Save(c, Decided(records, i, status))
        PROVE  IInv'
    <2>1. records' \in Seq(Record) /\ Lawful(records')
      BY <1>2, <1>5, DecidedRecord DEF Save, Status
    <2> QED
      BY <1>1, <1>2, <1>5, <2>1, ReturnKeeps DEF Save
  <1>6. CASE /\ i \in DOMAIN records /\ records[i].status = "pending"
             /\ cl' = [cl EXCEPT ![c].pc = "execute"]
             /\ UNCHANGED <<records, holder>>
    <2>1. cl' = [cl EXCEPT ![c] = r]
      BY <1>2, <1>6
    <2>2. /\ r \in Handler /\ r.pc = "execute" /\ r.op = cl[c].op /\ r.b = cl[c].b
          /\ r.draft = cl[c].draft /\ r.i = i
      BY <1>2 DEF Handler
    <2> HIDE DEF r
    <2>3. CopyOK(r, records, today)
      BY <1>2, <1>3, <1>6, <2>2 DEF CopyOK
    <2> QED
      BY <1>1, <1>2, <1>6, <2>1, <2>2, <2>3, GoOn
  <1> QED
    BY <1>3, <1>4, <1>5, <1>6 DEF Judge

LEMMA ExecuteKeeps ==
    ASSUME IInv, NEW c \in Client, Execute(c)
    PROVE  IInv'
  <1> DEFINE q == cl[c].draft[cl[c].i]
             r == [cl[c] EXCEPT !.pc = "approve"]
  <1>1. cl[c].pc = "execute" /\ UNCHANGED <<records, today>>
    BY DEF Execute, At
  <1>2. /\ holder = c /\ CopyOK(cl[c], records, today) /\ cl[c] \in Handler
        /\ cl \in [Client -> Handler]
        /\ records \in Seq(Record) /\ Lawful(records)
        /\ vault \in [Bucket -> {"live", "archived", "deleted"}]
        /\ executed \subseteq Nat
    BY <1>1, AtWork
  <1>3. /\ cl[c].draft = records /\ cl[c].i \in 1..Len(records)
        /\ records[cl[c].i].status = "pending"
    BY <1>1, <1>2 DEF CopyOK
  <1>4. q \in Record /\ q.b \in Bucket
    <2>1. records[cl[c].i] \in Record
      BY <1>2, <1>3, ElementOfSeq
    <2> QED
      BY <1>3, <2>1 DEF Record
  <1>5. CASE /\ vault' = [vault EXCEPT ![q.b] = Removed(q.b, q.action)]
             /\ executed' = executed \cup {cl[c].i}
             /\ cl' = [cl EXCEPT ![c].pc = "approve"]
             /\ UNCHANGED holder
    <2>1. vault' \in [Bucket -> {"live", "archived", "deleted"}]
      BY <1>4, <1>5, RemovedType
    <2>2. executed' \subseteq Nat
      BY <1>2, <1>5 DEF Handler
    <2>3. cl' = [cl EXCEPT ![c] = r]
      BY <1>2, <1>5
    <2>4. /\ r \in Handler /\ r.pc = "approve" /\ r.op = cl[c].op /\ r.b = cl[c].b
          /\ r.draft = cl[c].draft /\ r.i = cl[c].i
      BY <1>2 DEF Handler
    <2> HIDE DEF r
    <2>5. CopyOK(r, records, today)
      BY <1>2, <1>3, <2>4 DEF CopyOK
    <2> QED
      BY <1>1, <1>5, <2>1, <2>2, <2>3, <2>4, <2>5, GoOn
  <1>6. CASE Return(c) /\ UNCHANGED <<vault, executed>>
    BY <1>1, <1>2, <1>6, ReturnKeeps
  <1> QED
    BY <1>5, <1>6 DEF Execute

LEMMA SaveApprovalKeeps ==
    ASSUME IInv, NEW c \in Client, SaveApproval(c)
    PROVE  IInv'
  <1>1. /\ cl[c].pc = "approve" /\ UNCHANGED <<vault, today, executed>>
        /\ Save(c, Decided(cl[c].draft, cl[c].i, "approved"))
    BY DEF SaveApproval, At
  <1>2. /\ holder = c /\ CopyOK(cl[c], records, today)
        /\ records \in Seq(Record) /\ Lawful(records)
        /\ vault \in [Bucket -> {"live", "archived", "deleted"}]
        /\ executed \subseteq Nat
    BY <1>1, AtWork
  <1>3. cl[c].draft = records /\ cl[c].i \in 1..Len(records)
    BY <1>1, <1>2 DEF CopyOK
  <1>4. records' \in Seq(Record) /\ Lawful(records')
    BY <1>1, <1>2, <1>3, DecidedRecord DEF Save, Status
  <1> QED
    BY <1>1, <1>2, <1>4, ReturnKeeps DEF Save

\* A call that fails or dies loses its copy and, if it has it, the lease.
LEMMA LossKeeps ==
    ASSUME IInv, NEW c \in Client, TurnTimeout(c) \/ Crash(c)
    PROVE  IInv'
  <1>1. /\ cl' = [cl EXCEPT ![c] = Idle] /\ UNCHANGED <<vault, records, today, executed>>
        /\ holder' = IF holder = c THEN Nobody ELSE holder
    <2>1. CASE TurnTimeout(c)
      <3>1. cl[c].pc = "want" /\ holder # c
        BY <2>1 DEF TurnTimeout, IInv, TypeOK
      <3> QED
        BY <2>1, <3>1 DEF TurnTimeout
    <2>2. CASE Crash(c)
      BY <2>2 DEF Crash
    <2> QED
      BY <2>1, <2>2
  <1>2. TypeOK /\ Lawful(records) /\ Nobody # c
    BY NobodyAssumption DEF IInv
  <1> QED
    BY <1>1, <1>2, IdleOK, HandlerStep DEF TypeOK

LEMMA NextIInv ==
    ASSUME IInv, "unreadable" \notin Ops, [Next]_vars
    PROVE  IInv'
  <1>1. ASSUME NEW c \in Client, Steps(c)
        PROVE  IInv'
    BY <1>1, SubmitKeeps, BatchDoneKeeps, WithdrawKeeps, ReconcileDoneKeeps, JudgeKeeps,
       ExecuteKeeps, SaveApprovalKeeps, TakeKeeps, BatchItemKeeps, ReconcileItemKeeps DEF Steps
  <1>2. CASE UNCHANGED vars
    BY <1>2 DEF vars, IInv, TypeOK
  <1> QED
    BY <1>1, <1>2, CallsKeep, LossKeeps, VaultSteps, MidnightKeeps DEF Next

LEMMA IInvHolds ==
    ASSUME "unreadable" \notin Ops
    PROVE  Spec => []IInv
  <1>1. Init => IInv
    BY InitIInv
  <1>2. IInv /\ [Next]_vars => IInv'
    BY NextIInv
  <1> QED
    BY <1>1, <1>2, PTL DEF Spec

\* TypeOK: also when the ledger is over its limits a handler works on a copy
\* only as the holder of the lease.
THEOREM DeletionTypeCorrect ==
    ASSUME "unreadable" \notin Ops
    PROVE  Spec => []TypeOK
  <1>1. IInv => TypeOK
    BY DEF IInv
  <1> QED
    BY <1>1, IInvHolds, PTL

\* WithinLimits: one pending request per memory, and the lifetime and daily
\* limits, for any limits and any number of handlers.
THEOREM LimitsHold ==
    ASSUME "unreadable" \notin Ops
    PROVE  Spec => []WithinLimits
  <1>1. IInv => WithinLimits
    BY DEF IInv, Lawful, WithinLimits, OnePending, LifetimeCap, DailyCap
  <1> QED
    BY <1>1, IInvHolds, PTL

-----------------------------------------------------------------------------
(* The refinement *)

RemovingOf(hs) == {hs[c].i : c \in {d \in Client : hs[d].pc = "approve"}}

\* A handler between removal and record holds the lease.
LEMMA OnlyTheHolder ==
    ASSUME NEW hs \in [Client -> Handler], NEW h,
           \A c \in Client : hs[c].pc \notin {"idle", "want"} <=> h = c
    PROVE  /\ \A c \in Client : hs[c].pc = "approve" => RemovingOf(hs) = {hs[c].i}
           /\ (\A c \in Client : hs[c].pc # "approve") => RemovingOf(hs) = {}
           /\ \A c \in Client : h \in {c, Nobody} /\ hs[c].pc # "approve" => RemovingOf(hs) = {}
  <1>1. Nobody \notin Client
    BY NobodyAssumption
  <1>2. ASSUME NEW c \in Client, NEW d \in Client, hs[c].pc = "approve", hs[d].pc = "approve"
        PROVE  c = d
    BY <1>2
  <1>3. ASSUME NEW c \in Client, hs[c].pc = "approve"
        PROVE  RemovingOf(hs) = {hs[c].i}
    BY <1>2, <1>3 DEF RemovingOf
  <1>4. ASSUME \A c \in Client : hs[c].pc # "approve"
        PROVE  RemovingOf(hs) = {}
    BY <1>4 DEF RemovingOf
  <1>5. ASSUME NEW c \in Client, h \in {c, Nobody}, hs[c].pc # "approve"
        PROVE  RemovingOf(hs) = {}
    <2>1. \A d \in Client : hs[d].pc # "approve"
      BY <1>1, <1>5
    <2> QED
      BY <2>1, <1>4
  <1> QED
    BY <1>3, <1>4, <1>5

LEMMA RemovingNow ==
    ASSUME IInv
    PROVE  /\ \A c \in Client : cl[c].pc = "approve" => Removing = {cl[c].i}
           /\ \A c \in Client : holder \in {c, Nobody} /\ cl[c].pc # "approve" => Removing = {}
  <1>1. /\ cl \in [Client -> Handler]
        /\ \A c \in Client : cl[c].pc \notin {"idle", "want"} <=> holder = c
    BY DEF IInv, TypeOK, Handler
  <1>2. Removing = RemovingOf(cl)
    BY DEF Removing, RemovingOf
  <1> QED
    BY <1>1, <1>2, OnlyTheHolder

LEMMA RemovingThen ==
    ASSUME IInv'
    PROVE  /\ \A c \in Client : cl'[c].pc = "approve" => Removing' = {cl'[c].i}
           /\ \A c \in Client : holder' \in {c, Nobody} /\ cl'[c].pc # "approve" => Removing' = {}
  <1>1. /\ cl' \in [Client -> Handler]
        /\ \A c \in Client : cl'[c].pc \notin {"idle", "want"} <=> holder' = c
    BY DEF IInv, TypeOK, Handler
  <1>2. Removing' = RemovingOf(cl')
    BY DEF Removing, RemovingOf
  <1> QED
    BY <1>1, <1>2, OnlyTheHolder

\* Steps of a handler that neither begin nor end a removal.
LEMMA RemovingKept ==
    ASSUME IInv, NEW c \in Client, NEW r, cl' = [cl EXCEPT ![c] = r],
           cl[c].pc # "approve", r.pc # "approve"
    PROVE  Removing' = Removing
  <1>1. cl \in [Client -> Handler]
    BY DEF IInv, TypeOK, Handler
  <1>2. {d \in Client : cl'[d].pc = "approve"} = {d \in Client : cl[d].pc = "approve"}
    BY <1>1
  <1>3. \A d \in {x \in Client : cl[x].pc = "approve"} : cl'[d].i = cl[d].i
    BY <1>1
  <1> QED
    BY <1>2, <1>3 DEF Removing

LedgerStep == [Ledger!Next]_(Ledger!ledger)

LEMMA Stutter ==
    ASSUME UNCHANGED <<vault, records, today>>, Removing' = Removing
    PROVE  LedgerStep
  BY DEF LedgerStep, Ledger!ledger

\* Memories change as they like.
LEMMA OthersStep ==
    ASSUME IInv, NEW b \in Bucket, NEW status \in {"live", "archived", "deleted"},
           vault' = [vault EXCEPT ![b] = status],
           UNCHANGED <<records, today>>, Removing' = Removing
    PROVE  LedgerStep
  BY DEF LedgerStep, Ledger!Next, Ledger!Others

\* The endings of the requests in S are saved.
LEMMA EndStep ==
    ASSUME Removing = {}, Removing' = {}, UNCHANGED <<vault, today>>,
           NEW S \in SUBSET DOMAIN records, S # {},
           \A i \in S : records[i].status = "pending",
           NEW status \in {"withdrawn", "rejected", "superseded"},
           records' = [i \in DOMAIN records |->
                         IF i \in S THEN [records[i] EXCEPT !.status = status] ELSE records[i]],
           status # "superseded" => \E i \in DOMAIN records : S = {i},
           status = "rejected" => \A i \in S : vault[records[i].b] = "live"
    PROVE  LedgerStep
  <1>1. Ledger!End(S, status)
    BY DEF Ledger!End
  <1>2. CASE status = "superseded"
    BY <1>1, <1>2 DEF LedgerStep, Ledger!Next, Ledger!Supersede
  <1>3. ASSUME NEW i \in DOMAIN records, S = {i}, status \in {"withdrawn", "rejected"}
        PROVE  LedgerStep
    BY <1>1, <1>3 DEF LedgerStep, Ledger!Next, Ledger!Withdraw, Ledger!Reject
  <1> QED
    BY <1>2, <1>3

\* Requests are added within the limits.
LEMMA FileStep ==
    ASSUME Removing = {}, Removing' = {}, UNCHANGED <<vault, today>>,
           records \in Seq(Record), records' \in Seq(Record), Len(records) < Len(records'),
           NEW action \in Actions, NEW day \in 1..today,
           \A i \in 1..Len(records) : records'[i] = records[i],
           \A i \in (Len(records) + 1)..Len(records') :
             records'[i] = NewRecord(records'[i].b, action, day),
           Lawful(records')
    PROVE  LedgerStep
  <1>1. /\ DOMAIN records = 1..Len(records) /\ Len(records) \in Nat
        /\ DOMAIN records' = 1..Len(records') /\ Len(records') \in Nat
    BY LenProperties
  <1>2. ASSUME NEW i \in DOMAIN records' \ DOMAIN records
        PROVE  /\ records'[i].b \in Bucket
               /\ records'[i] = [b |-> records'[i].b, action |-> action, day |-> day,
                                 status |-> "pending"]
    <2>1. i \in (Len(records) + 1)..Len(records') /\ i \in 1..Len(records')
      BY <1>1
    <2>2. records'[i] \in Record
      BY <2>1, ElementOfSeq
    <2> QED
      BY <2>1, <2>2 DEF NewRecord, Record
  <1>3. DOMAIN records \subseteq DOMAIN records' /\ DOMAIN records # DOMAIN records'
    <2>1. Len(records') \in DOMAIN records' /\ Len(records') \notin DOMAIN records
      BY <1>1
    <2>2. 1..Len(records) \subseteq 1..Len(records')
      BY <1>1
    <2>3. DOMAIN records # DOMAIN records'
      BY <2>1
    <2> QED
      BY <1>1, <2>2, <2>3
  <1>4. Ledger!Lawful(records')
    BY LawfulIsLedgerLawful
  <1>5. Ledger!File(action, day)
    BY <1>1, <1>2, <1>3, <1>4 DEF Ledger!File
  <1> QED
    BY <1>5 DEF LedgerStep, Ledger!Next

LEMMA CallsStutter ==
    ASSUME IInv, NEW c \in Client, Calls(c)
    PROVE  LedgerStep
  <1>1. PICK q \in Handler : Call(c, q)
    BY CallsCall
  <1> DEFINE r == [q EXCEPT !.pc = "want"]
  <1>2. r.pc = "want"
    BY DEF Handler
  <1>3. cl' = [cl EXCEPT ![c] = r] /\ UNCHANGED <<vault, records, today>> /\ cl[c].pc # "approve"
    BY <1>1 DEF Call
  <1> HIDE DEF r
  <1> QED
    BY <1>2, <1>3, RemovingKept, Stutter

LEMMA VaultLedger ==
    ASSUME IInv, NEW b \in Bucket, Archive(b) \/ Delete(b) \/ Restore(b)
    PROVE  LedgerStep
  <1>1. Removing' = Removing /\ UNCHANGED <<records, today>>
    BY DEF Archive, Delete, Restore, VaultStep, Removing
  <1> QED
    BY <1>1, OthersStep DEF Archive, Delete, Restore, VaultStep

LEMMA MidnightLedger == Midnight => LedgerStep
  BY DEF Midnight, Removing, LedgerStep, Ledger!Next, Ledger!Midnight

LEMMA TakeLedger ==
    ASSUME IInv, IInv', NEW c \in Client, NEW rs, Take(c, rs)
    PROVE  LedgerStep
  <1>1. /\ holder = Nobody /\ holder' = c /\ cl[c].pc = "want"
        /\ UNCHANGED <<vault, records, today>>
    BY DEF Take
  <1>2. cl[c] \in Handler /\ cl \in [Client -> Handler]
    BY DEF IInv, TypeOK, Handler
  <1>3. cl'[c].pc = cl[c].op /\ cl[c].op # "approve"
    BY <1>2 DEF Take, Handler
  <1>4. Removing = {} /\ Removing' = {}
    BY <1>1, <1>3, RemovingNow, RemovingThen
  <1> QED
    BY <1>1, <1>4, Stutter

\* A handler that stops working without a save.
LEMMA LossLedger ==
    ASSUME IInv, IInv', NEW c \in Client, TurnTimeout(c) \/ Crash(c)
    PROVE  LedgerStep
  <1>1. /\ cl' = [cl EXCEPT ![c] = Idle] /\ UNCHANGED <<vault, records, today>>
        /\ cl \in [Client -> Handler] /\ Idle.pc = "idle"
    BY IdleOK DEF TurnTimeout, Crash, IInv, TypeOK, Handler
  <1>2. CASE cl[c].pc # "approve"
    BY <1>1, <1>2, RemovingKept, Stutter
  <1>3. CASE cl[c].pc = "approve"
    <2>1. holder = c /\ holder' = Nobody
      BY <1>3 DEF TurnTimeout, Crash, IInv, TypeOK
    <2>2. Removing = {cl[c].i} /\ Removing' = {}
      BY <1>1, <1>3, <2>1, RemovingNow, RemovingThen
    <2>3. Ledger!Forget
      BY <1>1, <2>2 DEF Ledger!Forget
    <2> QED
      BY <2>3 DEF LedgerStep, Ledger!Next
  <1> QED
    BY <1>2, <1>3

\* The ends of all steps of the holder that are no approval.
LEMMA ReturnLedger ==
    ASSUME IInv, IInv', NEW c \in Client, Return(c), cl[c].pc \notin {"idle", "want", "approve"}
    PROVE  Removing = {} /\ Removing' = {}
  <1>1. cl \in [Client -> Handler] /\ holder = c
    BY DEF IInv, TypeOK, Handler
  <1>2. holder' = Nobody /\ cl'[c].pc = "idle"
    BY <1>1, IdleOK DEF Return
  <1> QED
    BY <1>1, <1>2, RemovingNow, RemovingThen

LEMMA SubmitLedger ==
    ASSUME IInv, IInv', NEW c \in Client, Submit(c)
    PROVE  LedgerStep
  <1> DEFINE b == cl[c].b
             rs == cl[c].draft
             new == NewRecord(b, cl[c].action, today)
  <1>1. cl[c].pc = "submit" /\ today' = today
    BY DEF Submit, At
  <1>2. /\ CopyOK(cl[c], records, today) /\ cl[c] \in Handler
        /\ records \in Seq(Record) /\ Len(records) \in Nat /\ Lawful(records)
        /\ today \in 1..LastDay
        /\ vault \in [Bucket -> {"live", "archived", "deleted"}]
    BY <1>1, AtWork
  <1>3. b \in Bucket /\ cl[c].action \in Actions /\ rs = records
    BY <1>1, <1>2 DEF CopyOK, Handler
  <1>4. Return(c)
    BY DEF Submit, Save
  <1>5. Removing = {} /\ Removing' = {}
    BY <1>1, <1>4, ReturnLedger
  <1>6. CASE records' = records /\ vault' = [vault EXCEPT ![b] = Removed(b, cl[c].action)]
    <2>1. Removed(b, cl[c].action) \in {"live", "archived", "deleted"}
      BY <1>2, <1>3 DEF Removed
    <2> QED
      BY <1>1, <1>3, <1>5, <1>6, <2>1, OthersStep
  <1>7. CASE UNCHANGED <<vault, records>>
    BY <1>1, <1>5, <1>7, Stutter
  <1>8. CASE MayFile(rs, b, today) /\ records' = Append(rs, new) /\ UNCHANGED vault
    <2>1. new \in Record /\ new.b = b
      BY <1>2, <1>3 DEF NewRecord, Record, Status
    <2>2. records' \in Seq(Record) /\ Lawful(records')
      BY <1>2, <1>3, <1>8, FilingKeepsLaw
    <2>3. /\ Len(records') = Len(records) + 1 /\ records'[Len(records) + 1] = new
          /\ \A i \in 1..Len(records) : records'[i] = records[i]
      BY <1>2, <1>3, <1>8, <2>1, AppendProperties
    <2>4. \A i \in (Len(records) + 1)..Len(records') :
            records'[i] = NewRecord(records'[i].b, cl[c].action, today)
      BY <1>2, <2>1, <2>3
    <2>5. today \in 1..today
      BY <1>2
    <2> QED
      BY <1>1, <1>2, <1>3, <1>5, <1>8, <2>2, <2>3, <2>4, <2>5, FileStep
  <1> QED
    BY <1>6, <1>7, <1>8 DEF Submit, Save

LEMMA BatchItemLedger ==
    ASSUME IInv, IInv', NEW c \in Client, NEW b \in Bucket, BatchItem(c, b)
    PROVE  LedgerStep
  <1>1. /\ cl[c].pc = "batch" /\ UNCHANGED <<records, today, holder>>
        /\ vault' \in {vault, [vault EXCEPT ![b] = Removed(b, cl[c].action)]}
    BY DEF BatchItem, At
  <1>2. holder = c /\ vault \in [Bucket -> {"live", "archived", "deleted"}]
        /\ cl \in [Client -> Handler]
    BY <1>1, AtWork
  <1>3. cl'[c].pc = "batch"
    BY <1>1, <1>2 DEF BatchItem, Handler
  <1>4. Removing = {} /\ Removing' = {}
    BY <1>1, <1>2, <1>3, RemovingNow, RemovingThen
  <1>5. Removed(b, cl[c].action) \in {"live", "archived", "deleted"}
    BY <1>2 DEF Removed
  <1> QED
    BY <1>1, <1>4, <1>5, OthersStep, Stutter

\* A batch that saves has added a request; one that has added none saves nothing.
LEMMA BatchDoneLedger ==
    ASSUME IInv, IInv', NEW c \in Client, BatchDone(c)
    PROVE  LedgerStep
  <1> DEFINE rs == cl[c].draft
  <1>1. cl[c].pc = "batch" /\ UNCHANGED <<vault, today>> /\ Return(c)
    BY DEF BatchDone, At, Save
  <1>2. /\ CopyOK(cl[c], records, today) /\ cl[c] \in Handler
        /\ records \in Seq(Record) /\ Len(records) \in Nat /\ today \in 1..LastDay
    BY <1>1, AtWork
  <1>3. /\ Added(cl[c], records) /\ cl[c].day \in 1..today /\ cl[c].action \in Actions
        /\ rs \in Seq(Record) /\ Len(rs) \in Nat /\ DOMAIN rs = 1..Len(rs)
    BY <1>1, <1>2, LenProperties DEF CopyOK, Handler
  <1>4. Removing = {} /\ Removing' = {}
    BY <1>1, ReturnLedger
  <1>5. CASE records' = records
    BY <1>1, <1>4, <1>5, Stutter
  <1>6. ASSUME NEW i \in DOMAIN rs, rs[i].status = "pending", i \notin cl[c].todo, records' = rs
        PROVE  LedgerStep
    <2>1. i \notin 1..Len(records)
      BY <1>3, <1>6 DEF Added
    <2>2. Len(records) < Len(rs)
      BY <1>2, <1>3, <1>6, <2>1
    <2> QED
      BY <1>1, <1>2, <1>3, <1>4, <1>6, <2>2, FileStep DEF Added
  <1> QED
    BY <1>5, <1>6 DEF BatchDone, Save

\* One ending saved.
LEMMA OneEnds ==
    ASSUME Removing = {}, Removing' = {}, UNCHANGED <<vault, today>>,
           NEW i \in DOMAIN records, records[i].status = "pending", records \in Seq(Record),
           NEW status \in {"withdrawn", "rejected", "superseded"},
           status = "rejected" => vault[records[i].b] = "live",
           records' = Decided(records, i, status)
    PROVE  LedgerStep
  <1>1. records' = [j \in DOMAIN records |->
                      IF j \in {i} THEN [records[j] EXCEPT !.status = status] ELSE records[j]]
    BY DEF Decided
  <1> DEFINE S == {i}
  <1>2. /\ S \in SUBSET DOMAIN records /\ S # {}
        /\ \A j \in S : records[j].status = "pending"
        /\ \E j \in DOMAIN records : S = {j}
    OBVIOUS
  <1>3. status = "rejected" => \A j \in S : vault[records[j].b] = "live"
    OBVIOUS
  <1> HIDE DEF S
  <1> QED
    BY <1>1, <1>2, <1>3, EndStep DEF S

LEMMA WithdrawLedger ==
    ASSUME IInv, IInv', NEW c \in Client, Withdraw(c)
    PROVE  LedgerStep
  <1>1. cl[c].pc = "withdraw" /\ UNCHANGED <<vault, today>> /\ Return(c)
    BY DEF Withdraw, At, Save
  <1>2. records \in Seq(Record) /\ cl[c].draft = records
    BY <1>1, AtWork DEF CopyOK
  <1>3. Removing = {} /\ Removing' = {}
    BY <1>1, ReturnLedger
  <1>4. CASE records' = records
    BY <1>1, <1>3, <1>4, Stutter
  <1>5. ASSUME NEW i \in Pending(records, cl[c].b), records' = Decided(records, i, "withdrawn")
        PROVE  LedgerStep
    <2>1. i \in DOMAIN records /\ records[i].status = "pending"
      BY DEF Pending, Related
    <2> QED
      BY <1>1, <1>2, <1>3, <1>5, <2>1, OneEnds
  <1> QED
    BY <1>2, <1>4, <1>5 DEF Withdraw, Save

LEMMA ReconcileItemLedger ==
    ASSUME IInv, IInv', NEW c \in Client, NEW i, ReconcileItem(c, i)
    PROVE  LedgerStep
  <1>1. cl[c].pc = "reconcile" /\ UNCHANGED <<vault, records, today, holder>>
    BY DEF ReconcileItem, At
  <1>2. holder = c /\ cl \in [Client -> Handler]
    BY <1>1, AtWork
  <1>3. cl'[c].pc = "reconcile"
    BY <1>1, <1>2 DEF ReconcileItem, Handler
  <1>4. Removing = {} /\ Removing' = {}
    BY <1>1, <1>2, <1>3, RemovingNow, RemovingThen
  <1> QED
    BY <1>1, <1>4, Stutter

\* All endings of one reconciliation are saved at once.
LEMMA ReconcileDoneLedger ==
    ASSUME IInv, IInv', NEW c \in Client, ReconcileDone(c)
    PROVE  LedgerStep
  <1> DEFINE rs == cl[c].draft
             S == {i \in DOMAIN records : rs[i] # records[i]}
             ts == [i \in DOMAIN records |->
                      IF i \in S THEN [records[i] EXCEPT !.status = "superseded"] ELSE records[i]]
  <1>1. /\ cl[c].pc = "reconcile" /\ UNCHANGED <<vault, today>> /\ Return(c)
        /\ records' \in {records, rs}
    BY DEF ReconcileDone, At, Save
  <1>2. /\ CopyOK(cl[c], records, today) /\ cl[c] \in Handler
        /\ records \in Seq(Record) /\ DOMAIN records = 1..Len(records)
    BY <1>1, AtWork
  <1>3. /\ Ended(cl[c], records) /\ rs \in Seq(Record) /\ rs \in [1..Len(rs) -> Record]
        /\ records \in [1..Len(records) -> Record]
    BY <1>1, <1>2, LenProperties DEF CopyOK, Handler
  <1>4. Removing = {} /\ Removing' = {}
    BY <1>1, ReturnLedger
  <1>5. CASE records' = records
    BY <1>1, <1>4, <1>5, Stutter
  <1>6. CASE records' = rs /\ records' # records
    <2>1. Len(rs) = Len(records)
      BY <1>3 DEF Ended
    <2>2. \A i \in 1..Len(records) :
             rs[i] = IF i \in S THEN [records[i] EXCEPT !.status = "superseded"] ELSE records[i]
      BY <1>2, <1>3 DEF Ended
    <2>3. rs = ts
      BY <1>2, <1>3, <2>1, <2>2
    <2>4. \A i \in S : records[i].status = "pending"
      BY <1>2, <1>3 DEF Ended
    <2>5. S # {}
      BY <1>2, <1>3, <1>6, <2>1
    <2>6. S \in SUBSET DOMAIN records
      OBVIOUS
    <2> HIDE DEF S
    <2> QED
      BY <1>1, <1>4, <1>6, <2>3, <2>4, <2>5, <2>6, EndStep
  <1> QED
    BY <1>1, <1>5, <1>6

LEMMA JudgeLedger ==
    ASSUME IInv, IInv', NEW c \in Client, Judge(c)
    PROVE  LedgerStep
  <1> DEFINE i == cl[c].i
  <1>1. cl[c].pc = "decide" /\ UNCHANGED <<vault, today>>
    BY DEF Judge, At
  <1>2. /\ cl[c].draft = records /\ records \in Seq(Record) /\ holder = c
        /\ cl \in [Client -> Handler]
    BY <1>1, AtWork DEF CopyOK
  <1>3. CASE Return(c) /\ records' = records
    BY <1>1, <1>3, ReturnLedger, Stutter
  <1>4. ASSUME i \in DOMAIN records, records[i].status = "pending",
               NEW status \in {"superseded", "rejected"}, Save(c, Decided(records, i, status)),
               status = "rejected" => vault[records[i].b] = "live"
        PROVE  LedgerStep
    <2>1. Removing = {} /\ Removing' = {}
      BY <1>1, <1>4, ReturnLedger DEF Save
    <2> QED
      BY <1>1, <1>2, <1>4, <2>1, OneEnds DEF Save
  <1>5. CASE cl' = [cl EXCEPT ![c].pc = "execute"] /\ UNCHANGED <<records, holder>>
    <2>1. cl'[c].pc = "execute"
      BY <1>2, <1>5 DEF Handler
    <2>2. Removing = {} /\ Removing' = {}
      BY <1>1, <1>2, <1>5, <2>1, RemovingNow, RemovingThen
    <2> QED
      BY <1>1, <1>5, <2>2, Stutter
  <1> QED
    BY <1>2, <1>3, <1>4, <1>5 DEF Judge

\* The removal: the only step that makes a memory leave for a request.
LEMMA ExecuteLedger ==
    ASSUME IInv, IInv', NEW c \in Client, Execute(c)
    PROVE  LedgerStep
  <1> DEFINE i == cl[c].i
             q == records[i]
  <1>1. cl[c].pc = "execute" /\ UNCHANGED <<records, today>>
    BY DEF Execute, At
  <1>2. /\ holder = c /\ CopyOK(cl[c], records, today) /\ cl \in [Client -> Handler]
        /\ records \in Seq(Record) /\ DOMAIN records = 1..Len(records)
        /\ vault \in [Bucket -> {"live", "archived", "deleted"}]
    BY <1>1, AtWork
  <1>3. cl[c].draft = records /\ i \in DOMAIN records /\ q.status = "pending"
    BY <1>1, <1>2 DEF CopyOK
  <1>4. q.b \in Bucket /\ q.action \in {"archive", "delete"}
    <2>1. q \in Record
      BY <1>2, <1>3, ElementOfSeq
    <2> QED
      BY <2>1, ActionAssumption DEF Record
  <1>5. CASE Return(c) /\ UNCHANGED vault
    BY <1>1, <1>5, ReturnLedger, Stutter
  <1>6. CASE /\ vault' = [vault EXCEPT ![q.b] = Removed(q.b, q.action)]
             /\ cl' = [cl EXCEPT ![c].pc = "approve"]
    <2>1. cl'[c].pc = "approve" /\ cl'[c].i = i
      BY <1>2, <1>6 DEF Handler
    <2>2. Removing = {} /\ Removing' = {i}
      BY <1>1, <1>2, <2>1, RemovingNow, RemovingThen
    <2>3. /\ Removed(q.b, q.action) \in {"archived", "deleted"}
          /\ q.action = "delete" => Removed(q.b, q.action) = "deleted"
      BY <1>2, <1>4 DEF Removed
    <2>4. \E status \in {"archived", "deleted"} :
            /\ q.action = "delete" => status = "deleted"
            /\ vault' = [vault EXCEPT ![q.b] = status]
      BY <1>6, <2>3
    <2>5. Ledger!Remove(i)
      BY <1>1, <1>3, <2>2, <2>4 DEF Ledger!Remove
    <2> QED
      BY <1>3, <2>5 DEF LedgerStep, Ledger!Next
  <1> QED
    BY <1>3, <1>5, <1>6 DEF Execute

LEMMA SaveApprovalLedger ==
    ASSUME IInv, IInv', NEW c \in Client, SaveApproval(c)
    PROVE  LedgerStep
  <1> DEFINE i == cl[c].i
  <1>1. cl[c].pc = "approve" /\ UNCHANGED <<vault, today>> /\ Return(c)
        /\ records' = Decided(cl[c].draft, i, "approved")
    BY DEF SaveApproval, At, Save
  <1>2. /\ holder = c /\ CopyOK(cl[c], records, today) /\ cl \in [Client -> Handler]
        /\ DOMAIN records = 1..Len(records)
    BY <1>1, AtWork
  <1>3. cl[c].draft = records /\ i \in DOMAIN records
    BY <1>1, <1>2 DEF CopyOK
  <1>4. holder' = Nobody /\ cl'[c].pc = "idle"
    BY <1>1, <1>2, IdleOK DEF Return
  <1>5. Removing = {i} /\ Removing' = {}
    BY <1>1, <1>2, <1>4, RemovingNow, RemovingThen
  <1>6. Ledger!Approve(i)
    BY <1>1, <1>3, <1>5 DEF Ledger!Approve, Decided
  <1> QED
    BY <1>3, <1>6 DEF LedgerStep, Ledger!Next

LEMMA NextLedger ==
    ASSUME IInv, IInv', [Next]_vars
    PROVE  LedgerStep
  <1>1. ASSUME NEW c \in Client, Steps(c)
        PROVE  LedgerStep
    BY <1>1, SubmitLedger, BatchDoneLedger, WithdrawLedger, ReconcileDoneLedger, JudgeLedger,
       ExecuteLedger, SaveApprovalLedger, TakeLedger, BatchItemLedger, ReconcileItemLedger DEF Steps
  <1>2. CASE UNCHANGED vars
    BY <1>2, Stutter DEF vars, Removing
  <1> QED
    BY <1>1, <1>2, CallsStutter, LossLedger, VaultLedger, MidnightLedger DEF Next

LEMMA InitLedger == Init => Ledger!Init
  <1> SUFFICES ASSUME Init PROVE Ledger!Init
    OBVIOUS
  <1>1. \A c \in Client : cl[c].pc = "idle"
    BY IdleOK DEF Init
  <1>2. Removing = {}
    BY <1>1 DEF Removing
  <1> QED
    BY <1>2 DEF Init, Ledger!Init

\* LedgerKept: the leases, copies, crashes and interleavings of the handlers
\* implement the ledger of whole operations.
THEOREM LedgerImplemented ==
    ASSUME "unreadable" \notin Ops
    PROVE  Spec => LedgerKept
  <1>1. Init => Ledger!Init
    BY InitLedger
  <1>2. IInv /\ IInv' /\ [Next]_vars => [Ledger!Next]_(Ledger!ledger)
    BY NextLedger DEF LedgerStep
  <1> QED
    BY <1>1, <1>2, IInvHolds, PTL DEF Spec, LedgerKept, Ledger!Spec

-----------------------------------------------------------------------------
(* Decisions *)

LEMMA SameEnd == \A m, n \in Nat : 1..m = 1..n => m = n
  <1> SUFFICES ASSUME NEW m \in Nat, NEW n \in Nat, 1..m = 1..n PROVE m = n
    OBVIOUS
  <1>1. \A k \in Nat \ {0} : k <= m <=> k <= n
    <2>1. \A k : k \in 1..m <=> k \in 1..n
      OBVIOUS
    <2> QED
      BY <2>1
  <1> QED
    BY <1>1

\* Steps of the abstract ledger add requests and end pending ones.
LEMMA DecisionsKept ==
    ASSUME IInv, IInv', LedgerStep
    PROVE  /\ Len(records) <= Len(records')
           /\ \A i \in DOMAIN records :
                /\ \A f \in {"b", "action", "day"} : records'[i][f] = records[i][f]
                /\ records[i].status # "pending" => records'[i] = records[i]
  <1> DEFINE Goal == /\ Len(records) <= Len(records')
                     /\ \A i \in DOMAIN records :
                          /\ \A f \in {"b", "action", "day"} : records'[i][f] = records[i][f]
                          /\ records[i].status # "pending" => records'[i] = records[i]
  <1>1. /\ records \in Seq(Record) /\ records' \in Seq(Record)
        /\ DOMAIN records = 1..Len(records) /\ DOMAIN records' = 1..Len(records')
        /\ Len(records) \in Nat /\ Len(records') \in Nat
        /\ \A i \in DOMAIN records : records[i] \in Record
    BY LenProperties, ElementOfSeq DEF IInv, TypeOK
  <1>2. CASE records' = records
    BY <1>1, <1>2
  <1>3. ASSUME NEW action, NEW day, Ledger!File(action, day)
        PROVE  Goal
    <2>1. /\ 1..Len(records) \subseteq 1..Len(records')
          /\ \A i \in DOMAIN records : records'[i] = records[i]
      BY <1>1, <1>3 DEF Ledger!File
    <2>2. Len(records) <= Len(records')
      BY <1>1, <2>1
    <2> QED
      BY <2>1, <2>2
  <1>4. ASSUME NEW S, NEW status, Ledger!End(S, status)
        PROVE  Goal
    <2>1. \A i \in DOMAIN records :
            records'[i] = IF i \in S THEN [records[i] EXCEPT !.status = status] ELSE records[i]
      BY <1>4 DEF Ledger!End
    <2>2. DOMAIN records' = DOMAIN records /\ \A i \in S : records[i].status = "pending"
      BY <1>4 DEF Ledger!End
    <2>3. Len(records') = Len(records)
      BY <1>1, <2>2, SameEnd
    <2> QED
      BY <1>1, <2>1, <2>2, <2>3 DEF Record
  <1>5. ASSUME NEW i \in DOMAIN records, Ledger!Approve(i)
        PROVE  Goal
    <2>1. Removing = {i} /\ records' = [records EXCEPT ![i].status = "approved"]
      BY <1>5 DEF Ledger!Approve
    <2>2. PICK c \in Client : cl[c].pc = "approve" /\ cl[c].i = i
      BY <2>1 DEF Removing
    <2>3. records[i].status = "pending"
      BY <2>2, AtWork DEF CopyOK
    <2>4. DOMAIN records' = DOMAIN records
      BY <2>1
    <2>5. Len(records') = Len(records)
      BY <1>1, <2>4, SameEnd
    <2> QED
      BY <1>1, <2>1, <2>3, <2>5 DEF Record
  <1> QED
    BY <1>2, <1>3, <1>4, <1>5
    DEF LedgerStep, Ledger!Next, Ledger!ledger, Ledger!Withdraw, Ledger!Reject, Ledger!Supersede,
        Ledger!Remove, Ledger!Others, Ledger!Forget, Ledger!Midnight

\* DecidedForGood: no save drops a request, alters what was asked for, or
\* changes a decision, although every handler saves a whole copy of the file.
THEOREM DecisionsStand ==
    ASSUME "unreadable" \notin Ops
    PROVE  Spec => DecidedForGood
  <1> DEFINE A == /\ Len(records) <= Len(records')
                  /\ \A i \in DOMAIN records :
                       /\ \A f \in {"b", "action", "day"} : records'[i][f] = records[i][f]
                       /\ records[i].status # "pending" => records'[i] = records[i]
  <1>1. IInv /\ IInv' /\ [Next]_vars => A
    BY NextLedger, DecisionsKept
  <1>2. IInv /\ IInv' /\ [Next]_vars => [A]_vars
    BY <1>1
  <1> HIDE DEF A
  <1>3. Spec => [][A]_vars
    BY <1>2, IInvHolds, PTL DEF Spec
  <1> QED
    BY <1>3 DEF A, DecidedForGood

\* Whoever has removed a memory goes on to its record, unless the process dies.
LEMMA ApproverGoesOn ==
    ASSUME IInv, [Next]_vars, "crash" \notin Ops, NEW c \in Client, cl[c].pc = "approve"
    PROVE  SaveApproval(c) \/ (cl'[c].pc = "approve" /\ cl'[c].i = cl[c].i)
  <1>1. cl \in [Client -> Handler] /\ holder = c
    BY AtWork
  <1>2. ASSUME NEW d \in Client, d # c, NEW r, cl' = [cl EXCEPT ![d] = r]
        PROVE  cl'[c] = cl[c]
    BY <1>1, <1>2
  <1>3. ASSUME NEW d \in Client, Calls(d)
        PROVE  cl'[c] = cl[c]
    BY <1>1, <1>3, CallsCall DEF Call
  <1>4. ASSUME NEW d \in Client, Steps(d)
        PROVE  SaveApproval(c) \/ cl'[c] = cl[c]
    <2>1. CASE d = c
      <3>1. cl[d].pc = "approve" /\ holder = d
        BY <1>1, <2>1
      <3> QED
        BY <1>4, <2>1, <3>1
        DEF Steps, Submit, BatchDone, Withdraw, ReconcileDone, Judge, Execute, Take,
            BatchItem, ReconcileItem, At
    <2>2. CASE d # c
      <3>1. cl[d].pc \in {"idle", "want"}
        BY <1>1, <2>2 DEF IInv, TypeOK
      <3>2. holder # Nobody
        BY <1>1, NobodyAssumption
      <3> QED
        BY <1>4, <3>1, <3>2
        DEF Steps, Submit, BatchDone, Withdraw, ReconcileDone, Judge, Execute, SaveApproval, Take,
            BatchItem, ReconcileItem, At
    <2> QED
      BY <2>1, <2>2
  <1>5. ASSUME NEW d \in Client, TurnTimeout(d) \/ Crash(d)
        PROVE  cl'[c] = cl[c]
    BY <1>1, <1>5 DEF TurnTimeout, Crash
  <1> QED
    BY <1>1, <1>3, <1>4, <1>5
    DEF Next, vars, Archive, Delete, Restore, VaultStep, Midnight

LEMMA ExecutedGrows ==
    ASSUME IInv, [Next]_vars, NEW i \in executed', i \notin executed
    PROVE  \E c \in Client : /\ Execute(c) /\ cl[c].i = i
                             /\ cl'[c].pc = "approve" /\ cl'[c].i = i
  <1>1. executed' # executed
    OBVIOUS
  <1>2. ASSUME NEW d \in Client, Calls(d)
        PROVE  executed' = executed
    BY <1>2, CallsCall DEF Call
  <1>3. ASSUME NEW d \in Client, Steps(d)
        PROVE  Execute(d) \/ executed' = executed
    BY <1>3 DEF Steps, Submit, BatchDone, Withdraw, ReconcileDone, Judge, SaveApproval, Take,
                BatchItem, ReconcileItem
  <1>4. ASSUME NEW d \in Client, TurnTimeout(d) \/ Crash(d)
        PROVE  executed' = executed
    BY <1>4 DEF TurnTimeout, Crash
  <1>5. PICK c \in Client : Execute(c)
    BY <1>1, <1>2, <1>3, <1>4 DEF Next, vars, Archive, Delete, Restore, VaultStep, Midnight
  <1>6. cl \in [Client -> Handler]
    BY DEF IInv, TypeOK, Handler
  <1>7. cl' = [cl EXCEPT ![c].pc = "approve"] /\ i = cl[c].i
    BY <1>5 DEF Execute
  <1> QED
    BY <1>5, <1>6, <1>7 DEF Handler

\* ExecutedIsApproved: if processes do not die between removal and record,
\* every removal decided on is recorded as approved or about to be.
THEOREM RemovalsRecorded ==
    ASSUME {"unreadable", "crash"} \cap Ops = {}
    PROVE  Spec => []ExecutedIsApproved
  <1>1. Init => ExecutedIsApproved
    BY DEF Init, ExecutedIsApproved
  <1>2. IInv /\ IInv' /\ ExecutedIsApproved /\ [Next]_vars => ExecutedIsApproved'
    <2> SUFFICES ASSUME IInv, IInv', ExecutedIsApproved, [Next]_vars
                 PROVE  ExecutedIsApproved'
      OBVIOUS
    <2>1. /\ records \in Seq(Record) /\ records' \in Seq(Record)
          /\ DOMAIN records = 1..Len(records) /\ DOMAIN records' = 1..Len(records')
          /\ Len(records) \in Nat /\ Len(records') \in Nat
      BY LenProperties DEF IInv, TypeOK
    <2>2. /\ Len(records) <= Len(records')
          /\ \A i \in DOMAIN records : records[i].status # "pending" => records'[i] = records[i]
      BY NextLedger, DecisionsKept
    <2>3. ASSUME NEW i \in DOMAIN records, records[i].status = "approved"
          PROVE  i \in DOMAIN records' /\ records'[i].status = "approved"
      BY <2>1, <2>2, <2>3
    <2>4. ASSUME NEW c \in Client, cl[c].pc = "approve"
          PROVE  \/ cl[c].i \in DOMAIN records' /\ records'[cl[c].i].status = "approved"
                 \/ cl'[c].pc = "approve" /\ cl'[c].i = cl[c].i
      <3>1. CASE SaveApproval(c)
        <4>1. CopyOK(cl[c], records, today)
          BY <2>4, AtWork
        <4>2. cl[c].draft = records /\ cl[c].i \in 1..Len(records)
          BY <2>4, <4>1 DEF CopyOK
        <4>3. records' = Decided(records, cl[c].i, "approved")
          BY <3>1, <4>2 DEF SaveApproval, Save
        <4>4. records[cl[c].i] \in Record
          BY <2>1, <4>2, ElementOfSeq
        <4> QED
          BY <2>1, <4>2, <4>3, <4>4 DEF Decided, Record
      <3> QED
        BY <2>4, <3>1, ApproverGoesOn
    <2>5. ASSUME NEW i \in executed'
          PROVE  \/ i \in DOMAIN records' /\ records'[i].status = "approved"
                 \/ \E c \in Client : cl'[c].pc = "approve" /\ cl'[c].i = i
      <3>1. CASE i \in executed
        BY <2>3, <2>4, <3>1 DEF ExecutedIsApproved
      <3>2. CASE i \notin executed
        BY <2>5, <3>2, ExecutedGrows
      <3> QED
        BY <3>1, <3>2
    <2> QED
      BY <2>5 DEF ExecutedIsApproved
  <1>3. "unreadable" \notin Ops
    OBVIOUS
  <1> QED
    BY <1>1, <1>2, <1>3, IInvHolds, PTL DEF Spec

-----------------------------------------------------------------------------
(* Sparing *)

\* A request becomes rejected only while its memory is there.
LEMMA NewlyRejected ==
    ASSUME IInv, IInv', LedgerStep, NEW i \in DOMAIN records,
           records[i].status # "rejected", vault[records[i].b] # "live"
    PROVE  records'[i].status # "rejected"
  <1>1. \A j \in DOMAIN records : records[j] \in Record
    BY ElementOfSeq, LenProperties DEF IInv, TypeOK
  <1>2. CASE records' = records
    BY <1>2
  <1>3. ASSUME NEW action, NEW day, Ledger!File(action, day)
        PROVE  records'[i].status # "rejected"
    BY <1>3 DEF Ledger!File
  <1>4. ASSUME NEW S, NEW status \in {"withdrawn", "superseded"}, Ledger!End(S, status)
        PROVE  records'[i].status # "rejected"
    BY <1>1, <1>4 DEF Ledger!End, Record
  <1>5. ASSUME NEW j \in DOMAIN records, Ledger!Reject(j)
        PROVE  records'[i].status # "rejected"
    BY <1>5 DEF Ledger!Reject, Ledger!End
  <1>6. ASSUME NEW j \in DOMAIN records, Ledger!Approve(j)
        PROVE  records'[i].status # "rejected"
    BY <1>1, <1>6 DEF Ledger!Approve, Record
  <1> QED
    BY <1>2, <1>3, <1>4, <1>5, <1>6
    DEF LedgerStep, Ledger!Next, Ledger!ledger, Ledger!Withdraw, Ledger!Supersede,
        Ledger!Remove, Ledger!Others, Ledger!Forget, Ledger!Midnight

\* Without restore a memory that has left the active set does not come back.
LEMMA GoneStays ==
    ASSUME IInv, [Next]_vars, "restore" \notin Ops, NEW b \in Bucket, vault[b] # "live"
    PROVE  vault'[b] # "live"
  <1>1. vault \in [Bucket -> {"live", "archived", "deleted"}]
    BY DEF IInv, TypeOK
  <1>2. ASSUME NEW x, NEW action, vault' = [vault EXCEPT ![x] = Removed(x, action)]
        PROVE  vault'[b] # "live"
    <2>1. CASE x = b
      BY <1>1, <1>2, <2>1 DEF Removed
    <2>2. CASE x # b
      BY <1>1, <1>2, <2>2
    <2> QED
      BY <2>1, <2>2
  <1>3. ASSUME NEW d \in Client, Calls(d)
        PROVE  vault' = vault
    BY <1>3, CallsCall DEF Call
  <1>4. ASSUME NEW d \in Client, Steps(d)
        PROVE  \/ vault' = vault
               \/ \E x, action : vault' = [vault EXCEPT ![x] = Removed(x, action)]
    <2>1. CASE Submit(d)
      BY <2>1 DEF Submit
    <2>2. CASE Execute(d)
      BY <2>2 DEF Execute
    <2>3. ASSUME NEW x \in Bucket, BatchItem(d, x)
          PROVE  vault' = vault \/ vault' = [vault EXCEPT ![x] = Removed(x, cl[d].action)]
      BY <2>3 DEF BatchItem
    <2> QED
      BY <1>4, <2>1, <2>2, <2>3
      DEF Steps, BatchDone, Withdraw, ReconcileDone, Judge, SaveApproval, Take, ReconcileItem
  <1>5. ASSUME NEW d \in Client, TurnTimeout(d) \/ Crash(d)
        PROVE  vault' = vault
    BY <1>5 DEF TurnTimeout, Crash
  <1>6. ASSUME NEW x \in Bucket, Archive(x) \/ Delete(x) \/ Restore(x)
        PROVE  vault'[b] # "live"
    BY <1>1, <1>6 DEF Archive, Delete, Restore, VaultStep
  <1> QED
    BY <1>2, <1>3, <1>4, <1>5, <1>6 DEF Next, vars, Midnight

\* What a decision has removed is gone for good, and its request knows.
Spared ==
    \A i \in executed : /\ i \in 1..Len(records)
                        /\ records[i].status # "rejected"
                        /\ vault[records[i].b] # "live"

LEMMA SparedKept ==
    ASSUME IInv, IInv', Spared, [Next]_vars, {"unreadable", "restore"} \cap Ops = {}
    PROVE  Spared'
  <1>1. /\ records \in Seq(Record) /\ records' \in Seq(Record)
        /\ DOMAIN records = 1..Len(records) /\ DOMAIN records' = 1..Len(records')
        /\ Len(records) \in Nat /\ Len(records') \in Nat
        /\ \A i \in DOMAIN records : records[i] \in Record
    BY LenProperties, ElementOfSeq DEF IInv, TypeOK
  <1>2. LedgerStep
    BY NextLedger
  <1>3. /\ Len(records) <= Len(records')
        /\ \A i \in DOMAIN records : records'[i].b = records[i].b
    BY <1>2, DecisionsKept
  <1>4. ASSUME NEW i \in executed
        PROVE  /\ i \in 1..Len(records')
               /\ records'[i].status # "rejected"
               /\ vault'[records'[i].b] # "live"
    <2>1. /\ i \in DOMAIN records /\ records[i].b \in Bucket
          /\ records[i].status # "rejected" /\ vault[records[i].b] # "live"
      BY <1>1 DEF Spared, Record
    <2>2. records'[i].status # "rejected"
      BY <1>2, <2>1, NewlyRejected
    <2>3. vault'[records[i].b] # "live"
      BY <2>1, GoneStays
    <2> QED
      BY <1>1, <1>3, <2>1, <2>2, <2>3
  <1>5. ASSUME NEW i \in executed', i \notin executed
        PROVE  /\ i \in 1..Len(records')
               /\ records'[i].status # "rejected"
               /\ vault'[records'[i].b] # "live"
    <2>1. PICK c \in Client : /\ Execute(c) /\ cl[c].i = i
                              /\ cl'[c].pc = "approve" /\ cl'[c].i = i
      BY <1>5, ExecutedGrows
    <2>2. i \in 1..Len(records') /\ records'[i].status = "pending"
      BY <2>1 DEF IInv, CopyOK
    <2>3. cl[c].pc = "execute" /\ records' = records /\ executed' # executed
      BY <1>5, <2>1 DEF Execute, At
    <2>4. cl[c].draft = records /\ vault \in [Bucket -> {"live", "archived", "deleted"}]
      BY <2>3 DEF IInv, TypeOK, CopyOK
    <2> DEFINE q == records[i]
    <2>5. vault' = [vault EXCEPT ![q.b] = Removed(q.b, q.action)]
      BY <2>1, <2>3, <2>4 DEF Execute
    <2>6. q.b \in Bucket /\ q.action \in {"archive", "delete"}
      BY <1>1, <2>2, <2>3, ActionAssumption DEF Record
    <2>7. Removed(q.b, q.action) # "live"
      BY <2>4, <2>6 DEF Removed
    <2> HIDE DEF q
    <2>8. vault'[q.b] # "live"
      BY <2>4, <2>5, <2>6, <2>7
    <2> QED
      BY <2>2, <2>3, <2>8 DEF q
  <1> QED
    BY <1>4, <1>5 DEF Spared

\* RejectedWasSpared: also when processes die between removal and record, no
\* request that has removed its memory ends as rejected.  (A memory that is
\* restored may be spared rightly, so there is no restore.)
THEOREM RejectedAreSpared ==
    ASSUME {"unreadable", "restore"} \cap Ops = {}
    PROVE  Spec => []RejectedWasSpared
  <1>1. Init => Spared
    BY DEF Init, Spared
  <1>2. IInv /\ IInv' /\ Spared /\ [Next]_vars => Spared'
    BY SparedKept
  <1>3. IInv /\ Spared => RejectedWasSpared
    BY DEF Spared, RejectedWasSpared
  <1>4. "unreadable" \notin Ops
    OBVIOUS
  <1> QED
    BY <1>1, <1>2, <1>3, <1>4, IInvHolds, PTL DEF Spec
=============================================================================

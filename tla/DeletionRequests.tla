---------------------------- MODULE DeletionRequests ----------------------------
(***************************************************************************)
(* Human requests to delete or archive a memory, which the AI approves or  *)
(* rejects.  The ledger is one JSON file.  Every operation loads it, works *)
(* on its copy and saves it under one file lease; the memory itself may    *)
(* change under any of them, because archive, delete and restore take the  *)
(* lease of the bucket only.  A process may die between any two steps.     *)
(***************************************************************************)
EXTENDS Naturals, Sequences, FiniteSets

CONSTANTS
    Bucket,        \* bucket ids
    Letter,        \* buckets that are letters
    Test,          \* erasable test buckets, exempt from approval
    Actions,       \* what may be asked for
    Client,        \* handlers of the web and of the AI's tools
    Nobody,        \* no holder of the lease, no bucket
    DailyLimit,    \* DAILY_LIMIT
    LifetimeLimit, \* LIFETIME_LIMIT
    LastDay,       \* bound on the number of days
    Ops            \* the operations that may be called

ASSUME BucketAssumption == /\ IsFiniteSet(Bucket)
                           /\ Letter \cup Test \subseteq Bucket
ASSUME ActionAssumption == "delete" \in Actions /\ Actions \subseteq {"archive", "delete"}
ASSUME LimitAssumption == {DailyLimit, LifetimeLimit, LastDay} \subseteq Nat \ {0}
ASSUME NobodyAssumption == Nobody \notin Client \cup Bucket

VARIABLES
    vault,         \* status of each memory
    records,       \* the ledger on disk
    today,
    holder,        \* holder of the lease "human-deletion-requests"
    cl,            \* clients
    executed       \* history: requests whose decision has removed the memory

vars == <<vault, records, today, holder, cl, executed>>

-----------------------------------------------------------------------------
Related(rs, b) == {i \in DOMAIN rs : rs[i].b = b}
Pending(rs, b) == {i \in Related(rs, b) : rs[i].status = "pending"}
OnDay(rs, d) == {i \in DOMAIN rs : rs[i].day = d}

Idle == [pc |-> "idle", op |-> "none", b |-> Nobody, action |-> "delete", i |-> 0,
         approve |-> FALSE, left |-> {}, todo |-> {}, draft |-> <<>>, day |-> 1]

Init ==
    /\ vault = [b \in Bucket |-> "live"]
    /\ records = <<>>
    /\ today = 1
    /\ holder = Nobody
    /\ cl = [c \in Client |-> Idle]
    /\ executed = {}

-----------------------------------------------------------------------------
(* The memories, which others change too *)

\* What HumanDeleteExecutor does to a memory, and whether it succeeds.
Removed(b, action) ==
    CASE action = "archive" /\ vault[b] = "live" -> "archived"
      [] action = "delete"                       -> "deleted"
      [] OTHER                                   -> vault[b]
Succeeds(b, action, isLetter) == action = "archive" \/ vault[b] # "deleted" \/ isLetter

VaultStep(op, b, from, to) ==
    /\ op \in Ops
    /\ vault[b] \in from
    /\ vault' = [vault EXCEPT ![b] = to]
    /\ UNCHANGED <<records, today, holder, cl, executed>>

Archive(b) == VaultStep("archive", b, {"live"}, "archived")
Delete(b)  == VaultStep("delete", b, {"live", "archived"}, "deleted")
Restore(b) == VaultStep("restore", b, {"archived", "deleted"}, "live")

Midnight ==
    /\ today < LastDay
    /\ today' = today + 1
    /\ UNCHANGED <<vault, records, holder, cl, executed>>

-----------------------------------------------------------------------------
(* Calls *)

Call(c, request) ==
    /\ request.op \in Ops
    /\ cl[c].pc = "idle"
    /\ cl' = [cl EXCEPT ![c] = [request EXCEPT !.pc = "want"]]
    /\ UNCHANGED <<vault, records, today, holder, executed>>

CallSubmit(c, b, action) ==
    Call(c, [Idle EXCEPT !.op = "submit", !.b = b, !.action = action])
CallBatch(c, bs, action) ==
    Call(c, [Idle EXCEPT !.op = "batch", !.left = bs, !.action = action])
CallWithdraw(c, b) ==
    Call(c, [Idle EXCEPT !.op = "withdraw", !.b = b])
CallReconcile(c) ==
    Call(c, [Idle EXCEPT !.op = "reconcile"])
CallDecide(c, i, approve) ==
    /\ i \in DOMAIN records
    /\ Call(c, [Idle EXCEPT !.op = "decide", !.i = i, !.approve = approve])

Calls(c) ==
    \/ \E b \in Bucket, action \in Actions : CallSubmit(c, b, action)
    \/ \E bs \in SUBSET Bucket, action \in Actions : bs # {} /\ CallBatch(c, bs, action)
    \/ \E b \in Bucket : CallWithdraw(c, b)
    \/ CallReconcile(c)
    \/ \E i \in DOMAIN records, approve \in BOOLEAN : CallDecide(c, i, approve)

-----------------------------------------------------------------------------
(* Steps under the lease *)

\* (Mutant) The lease excludes nobody.
TakeShared(c, rs) ==
    /\ cl[c].pc = "want"
    /\ rs = records
    /\ holder' = c
    /\ cl' = [cl EXCEPT ![c].pc = cl[c].op, ![c].draft = rs, ![c].day = today,
                        ![c].todo = {i \in DOMAIN rs : rs[i].status = "pending"}]
    /\ UNCHANGED <<vault, records, today, executed>>

\* Take the lease and load the ledger; _load() turns a file that cannot be
\* read into an empty ledger.
Take(c, rs) ==
    /\ cl[c].pc = "want"
    /\ holder = Nobody
    /\ rs = records \/ ("unreadable" \in Ops /\ rs = <<>>)
    /\ holder' = c
    /\ cl' = [cl EXCEPT ![c].pc = cl[c].op, ![c].draft = rs, ![c].day = today,
                        ![c].todo = {i \in DOMAIN rs : rs[i].status = "pending"}]
    /\ UNCHANGED <<vault, records, today, executed>>

\* The lease was held by others for too long; the call fails.
TurnTimeout(c) ==
    /\ "timeout" \in Ops
    /\ cl[c].pc = "want"
    /\ holder # Nobody
    /\ cl' = [cl EXCEPT ![c] = Idle]
    /\ UNCHANGED <<vault, records, today, holder, executed>>

At(c, pc) == cl[c].pc = pc /\ UNCHANGED today

Return(c) ==
    /\ cl' = [cl EXCEPT ![c] = Idle]
    /\ holder' = Nobody

Save(c, rs) ==
    /\ records' = rs
    /\ Return(c)

NewRecord(b, action, day) == [b |-> b, action |-> action, day |-> day, status |-> "pending"]

MayFile(rs, b, day) ==
    /\ Pending(rs, b) = {}
    /\ Cardinality(Related(rs, b)) < LifetimeLimit
    /\ Cardinality(OnDay(rs, day)) < DailyLimit

\* submit: the memory is read first; a letter that is gone is cleaned up, a
\* test memory is removed at once.
Submit(c) ==
    LET b == cl[c].b
    IN /\ At(c, "submit")
       /\ UNCHANGED executed
       /\ IF b \in Test
          THEN /\ vault' = [vault EXCEPT ![b] = Removed(b, cl[c].action)]
               /\ Return(c)
               /\ UNCHANGED records
          ELSE IF vault[b] = "deleted" \/ ~MayFile(cl[c].draft, b, today)
          THEN Return(c) /\ UNCHANGED <<vault, records>>
          ELSE /\ Save(c, Append(cl[c].draft, NewRecord(b, cl[c].action, today)))
               /\ UNCHANGED vault

\* (Mutant) The daily limit is judged by the ledger as it was loaded.
BatchItemStale(c, b) ==
    /\ At(c, "batch")
    /\ b \in cl[c].left
    /\ UNCHANGED <<records, holder, executed>>
    /\ IF b \in Test
       THEN vault' = [vault EXCEPT ![b] = Removed(b, cl[c].action)]
       ELSE UNCHANGED vault
    /\ cl' = [cl EXCEPT
              ![c].left = @ \ {b},
              ![c].draft = IF b \notin Test /\ vault[b] # "deleted" /\ MayFile(records, b, cl[c].day)
                           THEN Append(@, NewRecord(b, cl[c].action, cl[c].day)) ELSE @]

\* One memory of submit_batch; the day is the one on which the batch began.
BatchItem(c, b) ==
    /\ At(c, "batch")
    /\ b \in cl[c].left
    /\ UNCHANGED <<records, holder, executed>>
    /\ IF b \in Test
       THEN vault' = [vault EXCEPT ![b] = Removed(b, cl[c].action)]
       ELSE UNCHANGED vault
    /\ cl' = [cl EXCEPT
              ![c].left = @ \ {b},
              ![c].draft = IF b \notin Test /\ vault[b] # "deleted" /\ MayFile(@, b, cl[c].day)
                           THEN Append(@, NewRecord(b, cl[c].action, cl[c].day)) ELSE @]

\* Nothing is saved when nothing was added.
BatchDone(c) ==
    /\ At(c, "batch")
    /\ cl[c].left = {}
    /\ UNCHANGED <<vault, executed>>
    /\ IF \A i \in DOMAIN cl[c].draft : cl[c].draft[i].status # "pending" \/ i \in cl[c].todo
       THEN Return(c) /\ UNCHANGED records
       ELSE Save(c, cl[c].draft)

\* The status a request ends with.
Decided(rs, i, status) == [rs EXCEPT ![i].status = status]

\* The latest pending request of the memory is withdrawn, whatever has become
\* of the memory.
Withdraw(c) ==
    LET pending == Pending(cl[c].draft, cl[c].b)
    IN /\ At(c, "withdraw")
       /\ UNCHANGED <<vault, executed>>
       /\ IF pending = {} THEN Return(c) /\ UNCHANGED records
          ELSE \E i \in pending :
                 /\ \A j \in pending : j <= i
                 /\ Save(c, Decided(cl[c].draft, i, "withdrawn"))

\* (Mutant) Only deleted memories end a request.
ReconcileItemDeleted(c, i) ==
    /\ At(c, "reconcile")
    /\ i \in cl[c].todo
    /\ cl' = [cl EXCEPT
              ![c].todo = @ \ {i},
              ![c].draft = IF vault[@[i].b] = "deleted" THEN Decided(@, i, "superseded") ELSE @]
    /\ UNCHANGED <<vault, records, holder, executed>>

\* One pending request of reconcile_pending.
ReconcileItem(c, i) ==
    /\ At(c, "reconcile")
    /\ i \in cl[c].todo
    /\ cl' = [cl EXCEPT
              ![c].todo = @ \ {i},
              ![c].draft = IF vault[@[i].b] # "live" THEN Decided(@, i, "superseded") ELSE @]
    /\ UNCHANGED <<vault, records, holder, executed>>

ReconcileDone(c) ==
    /\ At(c, "reconcile")
    /\ cl[c].todo = {}
    /\ UNCHANGED <<vault, executed>>
    /\ IF \A i \in DOMAIN cl[c].draft : cl[c].draft[i].status # "superseded"
       THEN Return(c) /\ UNCHANGED records
       ELSE Save(c, cl[c].draft)

\* (Mutant) The memory is not looked at.
JudgeBlindly(c) ==
    LET i == cl[c].i
        rs == cl[c].draft
    IN /\ At(c, "decide")
       /\ UNCHANGED <<vault, executed>>
       /\ IF i \notin DOMAIN rs
          THEN Return(c) /\ UNCHANGED records
          ELSE IF rs[i].status # "pending"
          THEN Return(c) /\ UNCHANGED records
          ELSE IF cl[c].approve
          THEN /\ cl' = [cl EXCEPT ![c].pc = "execute"]
               /\ UNCHANGED <<records, holder>>
          ELSE Save(c, Decided(rs, i, "rejected"))

\* decide, up to the removal of the memory.
Judge(c) ==
    LET i == cl[c].i
        rs == cl[c].draft
    IN /\ At(c, "decide")
       /\ UNCHANGED <<vault, executed>>
       /\ IF i \notin DOMAIN rs
          THEN Return(c) /\ UNCHANGED records
          ELSE IF rs[i].status # "pending"
          THEN Return(c) /\ UNCHANGED records
          ELSE IF vault[rs[i].b] # "live"
          THEN Save(c, Decided(rs, i, "superseded"))
          ELSE IF cl[c].approve
          THEN /\ cl' = [cl EXCEPT ![c].pc = "execute"]
               /\ UNCHANGED <<records, holder>>
          ELSE Save(c, Decided(rs, i, "rejected"))

\* The approved removal; if it fails the request remains pending.
Execute(c) ==
    LET r == cl[c].draft[cl[c].i]
    IN /\ At(c, "execute")
       /\ UNCHANGED records
       /\ IF Succeeds(r.b, r.action, r.b \in Letter)
          THEN /\ vault' = [vault EXCEPT ![r.b] = Removed(r.b, r.action)]
               /\ executed' = executed \cup {cl[c].i}
               /\ cl' = [cl EXCEPT ![c].pc = "approve"]
               /\ UNCHANGED holder
          ELSE Return(c) /\ UNCHANGED <<vault, executed>>

SaveApproval(c) ==
    /\ At(c, "approve")
    /\ Save(c, Decided(cl[c].draft, cl[c].i, "approved"))
    /\ UNCHANGED <<vault, executed>>

\* The process dies: its lease is released, its copy is lost.
Crash(c) ==
    /\ "crash" \in Ops
    /\ cl[c].pc # "idle"
    /\ cl' = [cl EXCEPT ![c] = Idle]
    /\ holder' = IF holder = c THEN Nobody ELSE holder
    /\ UNCHANGED <<vault, records, today, executed>>

Steps(c) ==
    \/ Submit(c) \/ BatchDone(c) \/ Withdraw(c) \/ ReconcileDone(c)
    \/ Judge(c) \/ Execute(c) \/ SaveApproval(c)
    \/ \E rs \in {records, <<>>} : Take(c, rs)
    \/ \E b \in Bucket : BatchItem(c, b)
    \/ \E i \in cl[c].todo : ReconcileItem(c, i)

Next ==
    \/ \E c \in Client : Calls(c) \/ Steps(c) \/ TurnTimeout(c) \/ Crash(c)
    \/ \E b \in Bucket : Archive(b) \/ Delete(b) \/ Restore(b)
    \/ Midnight

Spec == Init /\ [][Next]_vars

\* Handlers run on, the lease is polled until it is free, and breath, which
\* reconciles, is called again and again.
LiveSpec == /\ Spec
            /\ \A c \in Client : SF_vars(Steps(c)) /\ SF_vars(CallReconcile(c))

-----------------------------------------------------------------------------
(* Properties *)

Status == {"pending", "approved", "rejected", "superseded", "withdrawn"}
Record == [b : Bucket, action : Actions, day : 1..LastDay, status : Status]

\* The types of all variables.  A client that works on a copy of the ledger
\* is the holder of the lease.
TypeOK ==
    /\ vault \in [Bucket -> {"live", "archived", "deleted"}]
    /\ records \in Seq(Record)
    /\ today \in 1..LastDay
    /\ holder \in Client \cup {Nobody}
    /\ cl \in [Client -> [pc : {"idle", "want", "submit", "batch", "withdraw", "reconcile",
                                "decide", "execute", "approve"},
                          op : {"none", "submit", "batch", "withdraw", "reconcile", "decide"},
                          b : Bucket \cup {Nobody}, action : Actions, i : Nat, approve : BOOLEAN,
                          left : SUBSET Bucket, todo : SUBSET Nat, draft : Seq(Record),
                          day : 1..LastDay]]
    /\ executed \subseteq Nat
    /\ \A c \in Client : cl[c].pc \notin {"idle", "want"} <=> holder = c

\* A memory never has two pending requests, whichever handlers submit at once.
OnePending == \A b \in Bucket : Cardinality(Pending(records, b)) <= 1

\* LIFETIME_LIMIT: however a request ended, it counts; nobody asks again and
\* again until the AI gives in.
LifetimeCap == \A b \in Bucket : Cardinality(Related(records, b)) <= LifetimeLimit

\* DAILY_LIMIT over all memories, within one batch too.
DailyCap == \A d \in 1..LastDay : Cardinality(OnDay(records, d)) <= DailyLimit

\* The three limits of submit and submit_batch hold of the ledger on disk,
\* although every request is judged by a copy.
WithinLimits == OnePending /\ LifetimeCap /\ DailyCap

\* The ledger is a record: no save drops a request, alters what was asked
\* for, or changes a decision.
DecidedForGood ==
    [][ /\ Len(records) <= Len(records')
        /\ \A i \in DOMAIN records :
             /\ \A f \in {"b", "action", "day"} : records'[i][f] = records[i][f]
             /\ records[i].status # "pending" => records'[i] = records[i] ]_vars

\* A removal that decide has carried out is recorded as approved, or is about
\* to be: no withdrawal, rejection or supersession by another handler comes
\* between the decision and its record.
ExecutedIsApproved ==
    \A i \in executed :
        \/ i \in DOMAIN records /\ records[i].status = "approved"
        \/ \E c \in Client : cl[c].pc = "approve" /\ cl[c].i = i

\* A request recorded as rejected has not removed anything, also when the
\* process died between an earlier approval's removal and its record.
RejectedWasSpared ==
    \A i \in executed \cap DOMAIN records : records[i].status # "rejected"

\* Requests whose memory is removed and whose approval is not yet saved.
Removing == {cl[c].i : c \in {d \in Client : cl[d].pc = "approve"}}

\* The ledger that all of this implements: the operations appear to happen one
\* at a time, and at once, although they read, judge and save in several steps
\* and are interrupted by crashes and midnight.
Ledger == INSTANCE DeletionLedger WITH removed <- Removing
LedgerKept == Ledger!Spec

\* No other ending is ever recorded for a request whose removal was carried
\* out.  (Fails after a crash: the request is then withdrawn or superseded.)
NoOtherEnding ==
    \A i \in executed \cap DOMAIN records : records[i].status \in {"pending", "approved"}

\* If a memory stays out of the active set, its pending requests end: the AI
\* is not asked for ever about a memory that is gone.
PendingEnds ==
    \A b \in Bucket : <>[](vault[b] # "live") => <>[](Pending(records, b) = {})
=============================================================================

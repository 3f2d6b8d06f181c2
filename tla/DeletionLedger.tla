--------------------------- MODULE DeletionLedger ---------------------------
(***************************************************************************)
(* What the deletion requests promise, without leases, copies of the file  *)
(* and handlers: a ledger that changes by whole operations.  Requests are  *)
(* added within the limits, a pending request ends once, and between the   *)
(* removal of a memory and the record that approves it nothing else is     *)
(* written.  The memories change all the time.                             *)
(***************************************************************************)
EXTENDS Naturals, FiniteSets

CONSTANTS Bucket, Actions, DailyLimit, LifetimeLimit, LastDay

VARIABLES
    vault,         \* status of each memory
    records,       \* the requests, oldest first
    today,
    removed        \* requests whose memory was removed and that await their record

ledger == <<vault, records, today, removed>>

\* The ledger the operations keep: one pending request per memory, and the
\* two limits.
Lawful(rs) ==
    /\ \A b \in Bucket :
         LET related == {i \in DOMAIN rs : rs[i].b = b}
         IN /\ Cardinality({i \in related : rs[i].status = "pending"}) <= 1
            /\ Cardinality(related) <= LifetimeLimit
    /\ \A d \in 1..LastDay : Cardinality({i \in DOMAIN rs : rs[i].day = d}) <= DailyLimit

Init ==
    /\ vault = [b \in Bucket |-> "live"]
    /\ records = <<>>
    /\ today = 1
    /\ removed = {}

\* submit and submit_batch: pending requests of one day and for one action.
File(action, day) ==
    /\ removed = {}
    /\ DOMAIN records \subseteq DOMAIN records' /\ DOMAIN records # DOMAIN records'
    /\ \A i \in DOMAIN records : records'[i] = records[i]
    /\ \A i \in DOMAIN records' \ DOMAIN records :
         /\ records'[i].b \in Bucket
         /\ records'[i] = [b |-> records'[i].b, action |-> action, day |-> day,
                           status |-> "pending"]
    /\ Lawful(records')
    /\ UNCHANGED <<vault, today, removed>>

\* Requests end without a removal.
End(ended, status) ==
    /\ removed = {}
    /\ ended # {}
    /\ \A i \in ended : records[i].status = "pending"
    /\ records' = [i \in DOMAIN records |->
                     IF i \in ended THEN [records[i] EXCEPT !.status = status] ELSE records[i]]
    /\ UNCHANGED <<vault, today, removed>>

\* withdraw, decide and reconcile_pending.  Only a memory that is still there
\* can be spared.
Withdraw(i)      == End({i}, "withdrawn")
Reject(i)        == vault[records[i].b] = "live" /\ End({i}, "rejected")
Supersede(ended) == End(ended, "superseded")

\* An approved memory leaves the active set, then the approval is recorded.
Remove(i) ==
    /\ removed = {}
    /\ records[i].status = "pending"
    /\ removed' = {i}
    /\ \E status \in {"archived", "deleted"} :
         /\ records[i].action = "delete" => status = "deleted"
         /\ vault' = [vault EXCEPT ![records[i].b] = status]
    /\ UNCHANGED <<records, today>>

Approve(i) ==
    /\ removed = {i}
    /\ removed' = {}
    /\ records' = [records EXCEPT ![i].status = "approved"]
    /\ UNCHANGED <<vault, today>>

\* A process died between the two: the request stays pending.
Forget ==
    /\ removed # {}
    /\ removed' = {}
    /\ UNCHANGED <<vault, records, today>>

\* Memories are archived, deleted and restored by others.
Others(b) ==
    /\ \E status \in {"live", "archived", "deleted"} : vault' = [vault EXCEPT ![b] = status]
    /\ UNCHANGED <<records, today, removed>>

Midnight ==
    /\ today' = today + 1
    /\ UNCHANGED <<vault, records, removed>>

Next ==
    \/ \E action \in Actions, day \in 1..today : File(action, day)
    \/ \E i \in DOMAIN records : Withdraw(i) \/ Reject(i) \/ Remove(i) \/ Approve(i)
    \/ \E ended \in SUBSET DOMAIN records : Supersede(ended)
    \/ \E b \in Bucket : Others(b)
    \/ Forget \/ Midnight

Spec == Init /\ [][Next]_ledger
=============================================================================

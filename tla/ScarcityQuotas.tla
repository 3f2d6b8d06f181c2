---------------------------- MODULE ScarcityQuotas ----------------------------
(***************************************************************************)
(* Scarcity of marked memories.  A memory may be pinned (a core rule),     *)
(* protected (never decays) or an anchor (a fixed reference).  Each mark   *)
(* has a limit on the number of active memories that carry it, and marks   *)
(* exclude one another.                                                    *)
(*                                                                         *)
(* Every limit is "count first, write later".  The tools put both under a  *)
(* file lease named after the quota; the write itself runs under the lease *)
(* of its bucket.  Other writers (the web form, archive, activate, decay)  *)
(* take the bucket lease only.  Handlers run on several loops, threads or  *)
(* processes, so any two steps of two handlers may interleave; the counts  *)
(* read an active list that is up to date (one process).                   *)
(***************************************************************************)
EXTENDS Naturals, FiniteSets

CONSTANTS
    Bucket,        \* bucket ids
    Client,        \* request handlers and the decay loop
    Nobody,        \* no holder of a lease, no bucket of an idle client
    MaxPinned,     \* limits.max_pinned
    MaxProtected,  \* limits.max_protected
    MaxAnchor,     \* ANCHOR_LIMIT
    Ops            \* the operations that may be called

ASSUME BucketAssumption == IsFiniteSet(Bucket)
ASSUME LimitAssumption == {MaxPinned, MaxProtected, MaxAnchor} \subseteq Nat \ {0}
ASSUME NobodyAssumption == Nobody \notin Client \cup Bucket

VARIABLES
    mem,           \* front matter: status and marks of a bucket
    quota,         \* holder of the lease "quota-<mark>"
    turn,          \* holder of the lease "bucket-<id>" across an await
    cl             \* clients: pc, operation, bucket, what was seen and is wanted

vars == <<mem, quota, turn, cl>>

-----------------------------------------------------------------------------
Mark == {"pinned", "protected", "anchor"}
Limit(f) == CASE f = "pinned"    -> MaxPinned
              [] f = "protected" -> MaxProtected
              [] f = "anchor"    -> MaxAnchor

\* What count_pinned, count_protected and count_anchors count: active memories.
Marked(f) == {b \in Bucket : mem[b].status = "live" /\ f \in mem[b].marks}
Full(f) == Cardinality(Marked(f)) >= Limit(f)

Absent == [status |-> "absent", marks |-> {}]
Idle == [pc |-> "idle", op |-> "none", b |-> Nobody, seen |-> Absent,
         set |-> {}, clear |-> {}, gain |-> {}, need |-> {}]

Init ==
    /\ mem = [b \in Bucket |-> Absent]
    /\ quota = [f \in Mark |-> Nobody]
    /\ turn = [b \in Bucket |-> Nobody]
    /\ cl = [c \in Client |-> Idle]

-----------------------------------------------------------------------------
(* Starting a request.  "gain" are the marks whose quota it must check and *)
(* "need" the quota leases it has still to take.                           *)

Begin(c, op, pc, b, set, clear, gain, need) ==
    /\ op \in Ops
    /\ cl[c].pc = "idle"
    /\ cl' = [cl EXCEPT ![c] = [pc |-> pc, op |-> op, b |-> b, seen |-> mem[b],
                                set |-> set, clear |-> clear, gain |-> gain, need |-> need]]
    /\ UNCHANGED <<mem, quota, turn>>

\* trace(pinned=, protected=): which leases it needs follows from a first,
\* unprotected read.  A request that restates a mark needs none.
Trace(c, b, set, clear) ==
    LET seen == mem[b]
        final == (seen.marks \cup set) \ clear
        changed == (set \ seen.marks) \cup (clear \cap seen.marks)
    IN /\ seen.status \in {"live", "archived"}
       /\ set \cup clear # {}
       /\ set \cap clear = {}
       /\ ~({"pinned", "protected"} \subseteq final)
       /\ ~({"protected", "anchor"} \subseteq final)
       /\ changed # set \cup clear => "restate" \in Ops
       /\ Begin(c, "trace", IF changed = {} THEN "write" ELSE "turns",
                b, set, clear, set \ seen.marks, changed)

\* hold(pinned=True) creates a pinned memory.
Hold(c, b) ==
    /\ mem[b].status = "absent"
    /\ Begin(c, "hold", "turns", b, {"pinned"}, {}, {"pinned"}, {"pinned"})

\* trace(restore=True), with protected=0 when unprotect: the quota lease is
\* taken only if the memory comes back protected.
Restore(c, b, unprotect) ==
    LET seen == mem[b]
        gain == IF unprotect THEN {} ELSE seen.marks \cap {"protected"}
    IN /\ seen.status \in {"archived", "deleted"}
       /\ unprotect => "protected" \in seen.marks
       /\ gain # {} => "anchor" \notin seen.marks
       /\ Begin(c, "restore", IF gain = {} THEN "look" ELSE "turns",
                b, {}, IF unprotect THEN {"protected"} ELSE {}, gain, gain)

\* set_anchor(True), set_anchor(False)
SetAnchor(c, b)     == Begin(c, "anchor", "turns", b, {"anchor"}, {}, {"anchor"}, {"anchor"})
ReleaseAnchor(c, b) == Begin(c, "release", "turns", b, {}, {"anchor"}, {}, {"anchor"})

\* The web form and the current-profile trace call update() as they are.
Direct(c, b, set, clear) ==
    /\ mem[b].status \in {"live", "archived"}
    /\ set \cup clear # {}
    /\ set \cap clear = {}
    /\ Begin(c, "direct", IF "anchor" \in set THEN "count" ELSE "write", b, set, clear, {}, {})

\* The decay loop judges a memory by the list it read when the cycle began.
Decay(c, b) ==
    /\ mem[b].status = "live"
    /\ mem[b].marks = {}
    /\ Begin(c, "decay", "write", b, {}, {}, {}, {})

ClientBegins(c) ==
    \E b \in Bucket :
        \/ \E set, clear \in SUBSET {"pinned", "protected"} : Trace(c, b, set, clear)
        \/ Hold(c, b)
        \/ \E unprotect \in BOOLEAN : Restore(c, b, unprotect)
        \/ SetAnchor(c, b) \/ ReleaseAnchor(c, b)
        \/ \E set, clear \in SUBSET {"pinned", "anchor"} : Direct(c, b, set, clear)
        \/ Decay(c, b)

-----------------------------------------------------------------------------
(* The steps of a request *)

Goto(c, pc) == cl' = [cl EXCEPT ![c].pc = pc]

\* Return, with or without success: every lease is released.
Return(c) ==
    /\ cl' = [cl EXCEPT ![c] = Idle]
    /\ quota' = [f \in Mark |-> IF quota[f] = c THEN Nobody ELSE quota[f]]
    /\ turn' = [b \in Bucket |-> IF turn[b] = c THEN Nobody ELSE turn[b]]

\* (Mutant) The lease of the mark to be removed comes first.
RemovedFirst(c) ==
    CHOOSE f \in cl[c].need : cl[c].need \cap cl[c].clear # {} => f \in cl[c].clear

\* Leases are taken in one order: pinned before protected.
NextTurn(c) == IF "pinned" \in cl[c].need THEN "pinned"
               ELSE CHOOSE f \in cl[c].need : TRUE

\* (Mutant) The quota lease does not exclude anybody.
TakeTurnShared(c) ==
    LET f == NextTurn(c)
        rest == cl[c].need \ {f}
        next == IF rest # {} THEN "turns" ELSE IF cl[c].op = "hold" THEN "check" ELSE "look"
    IN /\ cl[c].pc = "turns"
       /\ quota' = [quota EXCEPT ![f] = c]
       /\ cl' = [cl EXCEPT ![c].need = rest, ![c].pc = next]
       /\ UNCHANGED <<mem, turn>>

TakeTurn(c) ==
    LET f == NextTurn(c)
        rest == cl[c].need \ {f}
        next == IF rest # {} THEN "turns" ELSE IF cl[c].op = "hold" THEN "check" ELSE "look"
    IN /\ cl[c].pc = "turns"
       /\ quota[f] = Nobody
       /\ quota' = [quota EXCEPT ![f] = c]
       /\ cl' = [cl EXCEPT ![c].need = rest, ![c].pc = next]
       /\ UNCHANGED <<mem, turn>>

\* A lease is not granted in time and the request fails.
TurnTimeout(c) ==
    /\ "timeout" \in Ops
    /\ \/ cl[c].pc = "turns" /\ quota[NextTurn(c)] # Nobody
       \/ cl[c].pc \in {"count", "write"} /\ turn[cl[c].b] \notin {Nobody, c}
    /\ Return(c)
    /\ UNCHANGED mem

\* Under the quota lease the memory is read again: trace and restore insist
\* on what they saw first, set_anchor decides on what it sees now.
Look(c) ==
    LET now == mem[cl[c].b]
        proceed == CASE cl[c].op = "anchor"  -> /\ now.status \in {"live", "archived"}
                                                /\ now.marks = {}
                     [] cl[c].op = "release" -> /\ now.status \in {"live", "archived"}
                                                /\ "anchor" \in now.marks
                     [] OTHER                -> now = cl[c].seen
    IN /\ cl[c].pc = "look"
       /\ IF proceed THEN Goto(c, "check") /\ UNCHANGED <<quota, turn>> ELSE Return(c)
       /\ UNCHANGED mem

\* (Mutant) Off by one: the last place is given away twice.
CheckOffByOne(c) ==
    /\ cl[c].pc = "check"
    /\ IF \E f \in cl[c].gain : Cardinality(Marked(f)) > Limit(f)
       THEN Return(c)
       ELSE /\ Goto(c, IF "anchor" \in cl[c].set THEN "count" ELSE "write")
            /\ UNCHANGED <<quota, turn>>
    /\ UNCHANGED mem

\* check_pinned_quota, check_protected_quota and set_anchor's own count.
Check(c) ==
    /\ cl[c].pc = "check"
    /\ IF \E f \in cl[c].gain : Full(f)
       THEN Return(c)
       ELSE /\ Goto(c, IF "anchor" \in cl[c].set THEN "count" ELSE "write")
            /\ UNCHANGED <<quota, turn>>
    /\ UNCHANGED mem

\* (Mutant) Decides on pinned and protected one at a time.
AllowsEither(b, set, clear) == mem[b].status = "live"

\* update(): a terminal memory is rejected, and so are pairs of marks.
Allows(b, set, clear) ==
    LET final == (mem[b].marks \cup set) \ clear
    IN /\ mem[b].status = "live"
       /\ ~({"pinned", "protected"} \subseteq final)
       /\ ~({"anchor", "protected"} \subseteq final)

\* Pinning removes the anchor mark, unless the same call sets it.
Updated(b, set, clear) ==
    LET final == (mem[b].marks \cup set) \ clear
    IN [mem EXCEPT ![b].marks = IF "pinned" \in set /\ "anchor" \notin set
                                THEN final \ {"anchor"} ELSE final]

\* update(anchor=True) counts once more, holding the bucket lease only; a
\* memory that is an anchor already is not counted.
CountAnchors(c) ==
    LET b == cl[c].b
        already == "anchor" \in mem[b].marks /\ "pinned" \notin cl[c].set
    IN /\ cl[c].pc = "count"
       /\ turn[b] = Nobody
       /\ IF Allows(b, cl[c].set, cl[c].clear) /\ (already \/ ~Full("anchor"))
          THEN /\ turn' = [turn EXCEPT ![b] = c]
               /\ Goto(c, "write")
               /\ UNCHANGED quota
          ELSE Return(c)
       /\ UNCHANGED mem

MayWrite(c) == /\ cl[c].pc = "write"
               /\ turn[cl[c].b] \in {Nobody, c}

WriteUpdate(c) ==
    LET b == cl[c].b
    IN /\ MayWrite(c)
       /\ cl[c].op \in {"trace", "anchor", "release", "direct"}
       /\ mem' = IF Allows(b, cl[c].set, cl[c].clear)
                 THEN Updated(b, cl[c].set, cl[c].clear) ELSE mem
       /\ Return(c)

WriteHold(c) ==
    LET b == cl[c].b
    IN /\ MayWrite(c)
       /\ cl[c].op = "hold"
       /\ mem' = IF mem[b].status = "absent"
                 THEN [mem EXCEPT ![b] = [status |-> "live", marks |-> {"pinned"}]] ELSE mem
       /\ Return(c)

\* restore_archived: never pinned; protected and anchor come back.
WriteRestore(c) ==
    LET b == cl[c].b
        marks == mem[b].marks \ (cl[c].clear \cup {"pinned"})
    IN /\ MayWrite(c)
       /\ cl[c].op = "restore"
       /\ mem' = IF /\ mem[b].status \in {"archived", "deleted"}
                    /\ ~({"protected", "anchor"} \subseteq marks)
                 THEN [mem EXCEPT ![b] = [status |-> "live", marks |-> marks]] ELSE mem
       /\ Return(c)

Archived(b) ==
    mem' = IF mem[b].status = "live" THEN [mem EXCEPT ![b].status = "archived"] ELSE mem

\* archive(), called by the decay loop, asks nothing about the marks.
WriteDecay(c) ==
    /\ MayWrite(c)
    /\ cl[c].op = "decay"
    /\ Archived(cl[c].b)
    /\ Return(c)

ClientStep(c) ==
    \/ TakeTurn(c) \/ Look(c) \/ Check(c) \/ CountAnchors(c)
    \/ WriteUpdate(c) \/ WriteHold(c) \/ WriteRestore(c) \/ WriteDecay(c)

-----------------------------------------------------------------------------
(* Writers that do one thing under the bucket lease *)

OneWrite(op, b) == /\ op \in Ops
                   /\ turn[b] = Nobody
                   /\ UNCHANGED <<quota, turn, cl>>

\* create() with whatever marks the web form sends, but pinned and protected.
Create(b, marks) ==
    /\ OneWrite(IF marks = {} THEN "create" ELSE "directCreate", b)
    /\ mem[b].status = "absent"
    /\ ~({"pinned", "protected"} \subseteq marks)
    /\ mem' = [mem EXCEPT ![b] = [status |-> "live", marks |-> marks]]

\* archive() on a human request or from the web.
Archive(b) ==
    /\ OneWrite("archive", b)
    /\ mem[b].status = "live"
    /\ Archived(b)

\* activate() keeps every mark.
Activate(b) ==
    /\ OneWrite("activate", b)
    /\ mem[b].status = "archived"
    /\ mem' = [mem EXCEPT ![b].status = "live"]

Delete(b) ==
    /\ OneWrite("delete", b)
    /\ mem[b].status \in {"live", "archived"}
    /\ mem' = [mem EXCEPT ![b].status = "deleted"]

Next ==
    \/ \E c \in Client : ClientBegins(c) \/ ClientStep(c) \/ TurnTimeout(c)
    \/ \E b \in Bucket : \/ \E marks \in SUBSET Mark : Create(b, marks)
                         \/ Archive(b) \/ Activate(b) \/ Delete(b)

Spec == Init /\ [][Next]_vars

\* A lease that is free again and again is taken in the end: waiting handlers
\* poll it, and a holder that lives does not keep it.
LiveSpec == Spec /\ \A c \in Client : SF_vars(ClientStep(c))

-----------------------------------------------------------------------------
(* Properties *)

Pc == {"idle", "turns", "look", "check", "count", "write"}
Op == {"none", "trace", "hold", "restore", "anchor", "release", "direct", "decay"}
Memory == [status : {"absent", "live", "archived", "deleted"}, marks : SUBSET Mark]

\* Every variable has its type, a busy client has a bucket, and a client that
\* waits for a quota lease still needs one.
TypeOK ==
    /\ mem \in [Bucket -> Memory]
    /\ quota \in [Mark -> Client \cup {Nobody}]
    /\ turn \in [Bucket -> Client \cup {Nobody}]
    /\ cl \in [Client -> [pc : Pc, op : Op, b : Bucket \cup {Nobody}, seen : Memory,
                          set : SUBSET Mark, clear : SUBSET Mark,
                          gain : SUBSET Mark, need : SUBSET Mark]]
    /\ \A c \in Client : /\ cl[c].pc # "idle" => cl[c].b \in Bucket
                         /\ cl[c].pc = "turns" => cl[c].need # {}

\* However the handlers interleave, no more memories are pinned, protected or
\* anchored than the limit allows (README: pinned 20, anchor 24).
PinnedCap    == Cardinality(Marked("pinned")) <= MaxPinned
ProtectedCap == Cardinality(Marked("protected")) <= MaxProtected
AnchorCap    == Cardinality(Marked("anchor")) <= MaxAnchor

\* An active memory never carries a pair of marks that exclude one another,
\* whichever two requests race for it.
PinnedProtectedExclusive == Marked("pinned") \cap Marked("protected") = {}
ProtectedAnchorExclusive == Marked("protected") \cap Marked("anchor") = {}
PinnedAnchorExclusive    == Marked("pinned") \cap Marked("anchor") = {}

\* The decay loop never archives a memory that is marked when it does so.
\* (Fails, as PinnedAnchorExclusive does: see the README.)
DecaySparesMarked ==
    [][\A c \in Client :
         cl[c].op = "decay" /\ cl'[c].op = "none" /\ mem[cl[c].b].status = "live"
             => mem'[cl[c].b].status = "live" \/ mem[cl[c].b].marks = {}]_vars

\* Client c waits for a lease that client d holds.
WaitsFor(c, d) ==
    \/ cl[c].pc = "turns" /\ quota[NextTurn(c)] = d
    \/ cl[c].pc = "count" /\ turn[cl[c].b] = d
    \/ cl[c].pc = "write" /\ turn[cl[c].b] = d /\ d # c

\* In every set of requests one waits for none of the others: quota leases in
\* one order, then the bucket lease, never close a circle.
NoCircularWait ==
    \A S \in (SUBSET Client) \ {{}} : \E c \in S : \A d \in S : ~WaitsFor(c, d)

Active(b) == IF mem[b].status = "live" THEN mem[b].marks ELSE {}

Atomic == INSTANCE AtomicMarks WITH
    active <- [b \in Bucket |-> Active(b)],
    Capacity <- [f \in Mark |-> Limit(f)],
    Exclusive <- {{"pinned", "protected"}, {"protected", "anchor"}}

\* Counting, waiting for leases, reading again and writing in several steps
\* look from outside like one atomic test for room and write.
MarksSetAtomically == Atomic!Spec

\* Every request returns, even without timeouts: no set of requests waits for
\* one another's quota and bucket leases in a circle.
RequestReturns == \A c \in Client : cl[c].pc # "idle" ~> cl[c].pc = "idle"
=============================================================================

------------------------- MODULE ScarcityQuotasProofs -------------------------
(***************************************************************************)
(* Proofs about ScarcityQuotas: types, and the limit on each mark for any  *)
(* number of memories and handlers and any limit, as long as no operation  *)
(* is offered that sets the mark without its quota lease.                  *)
(*                                                                         *)
(* The argument.  A handler that has found room for a mark holds the quota *)
(* lease of that mark until its write, and so is the only one that may add *)
(* a marked memory.  Everybody else can only make the room larger.  That   *)
(* marks exclude one another needs no quota lease: every write that adds a *)
(* mark judges the marks it writes under the lease of the bucket.          *)
(***************************************************************************)
EXTENDS ScarcityQuotas, FiniteSetTheorems, TLAPS

\* The operations that can set mark f on an active memory although they do
\* not hold its quota lease.
Bypass(f) ==
    {"restate", "activate", "directCreate"}
        \cup (IF f = "protected" THEN {} ELSE {"direct"})
        \cup (IF f = "pinned" THEN {} ELSE {"restore"})

-----------------------------------------------------------------------------
(* Types *)

LEMMA NextTurnNeeded ==
    ASSUME NEW c \in Client, cl[c].need # {}
    PROVE  NextTurn(c) \in cl[c].need
  BY DEF NextTurn

LEMMA InitType == Init => TypeOK
  <1>1. Absent \in Memory
    BY DEF Absent, Memory
  <1> QED
    BY <1>1 DEF Init, TypeOK, Idle, Pc, Op

Request == [pc : Pc, op : Op, b : Bucket \cup {Nobody}, seen : Memory,
            set : SUBSET Mark, clear : SUBSET Mark, gain : SUBSET Mark, need : SUBSET Mark]

\* A step that replaces the request of one client.
LEMMA RequestType ==
    ASSUME TypeOK, NEW c \in Client, NEW r \in Request, cl' = [cl EXCEPT ![c] = r],
           r.pc # "idle" => r.b \in Bucket, r.pc = "turns" => r.need # {},
           mem' \in [Bucket -> Memory],
           quota' \in [Mark -> Client \cup {Nobody}],
           turn' \in [Bucket -> Client \cup {Nobody}]
    PROVE  TypeOK'
  <1>1. cl' \in [Client -> Request]
    BY DEF TypeOK, Request
  <1>2. \A x \in Client : /\ cl'[x].pc # "idle" => cl'[x].b \in Bucket
                         /\ cl'[x].pc = "turns" => cl'[x].need # {}
    <2> TAKE x \in Client
    <2>1. CASE x = c
      BY <2>1 DEF TypeOK
    <2>2. CASE x # c
      BY <2>2 DEF TypeOK
    <2> QED
      BY <2>1, <2>2
  <1> QED
    BY <1>1, <1>2 DEF TypeOK, Request

\* What Begin, Goto and Return do to a well-typed state.
LEMMA BeginType ==
    ASSUME TypeOK, NEW c \in Client, NEW b \in Bucket, NEW op \in Op, NEW pc \in Pc,
           NEW set \in SUBSET Mark, NEW clear \in SUBSET Mark,
           NEW gain \in SUBSET Mark, NEW need \in SUBSET Mark,
           pc = "turns" => need # {},
           Begin(c, op, pc, b, set, clear, gain, need)
    PROVE  TypeOK'
  <1> DEFINE new == [pc |-> pc, op |-> op, b |-> b, seen |-> mem[b],
                     set |-> set, clear |-> clear, gain |-> gain, need |-> need]
  <1>1. mem[b] \in Memory
    BY DEF TypeOK
  <1>2. new \in Request
    BY <1>1 DEF Request
  <1>3. cl' = [cl EXCEPT ![c] = new] /\ UNCHANGED <<mem, quota, turn>>
    BY DEF Begin
  <1>4. new.b \in Bucket /\ (new.pc = "turns" => new.need # {})
    OBVIOUS
  <1>5. /\ mem' \in [Bucket -> Memory]
        /\ quota' \in [Mark -> Client \cup {Nobody}]
        /\ turn' \in [Bucket -> Client \cup {Nobody}]
    BY <1>3 DEF TypeOK
  <1>6. new.pc = pc /\ new.need = need
    OBVIOUS
  <1> HIDE DEF new
  <1> QED
    BY <1>2, <1>3, <1>4, <1>5, <1>6, RequestType

LEMMA GotoType ==
    ASSUME TypeOK, NEW c \in Client, NEW pc \in Pc \ {"turns"}, cl[c].pc # "idle",
           Goto(c, pc), mem' = mem, quota' = quota,
           turn' \in [Bucket -> Client \cup {Nobody}]
    PROVE  TypeOK'
  BY DEF TypeOK, Goto

LEMMA ReturnType ==
    ASSUME TypeOK, NEW c \in Client, Return(c), mem' \in [Bucket -> Memory]
    PROVE  TypeOK'
  <1>1. Absent \in Memory
    BY DEF Absent, Memory
  <1>2. Idle \in Request
    BY <1>1 DEF Idle, Pc, Op, Request
  <1>3. Idle.pc = "idle"
    BY DEF Idle
  <1>4. /\ quota' \in [Mark -> Client \cup {Nobody}]
        /\ turn' \in [Bucket -> Client \cup {Nobody}]
    BY DEF TypeOK, Return
  <1>5. cl' = [cl EXCEPT ![c] = Idle]
    BY DEF Return
  <1> QED
    BY <1>2, <1>3, <1>4, <1>5, RequestType

\* Every way of starting a request hands Begin well-typed arguments.
LEMMA BeginsType ==
    ASSUME TypeOK, NEW c \in Client, ClientBegins(c)
    PROVE  TypeOK'
  <1>1. PICK b \in Bucket :
          \/ \E set, clear \in SUBSET {"pinned", "protected"} : Trace(c, b, set, clear)
          \/ Hold(c, b)
          \/ \E unprotect \in BOOLEAN : Restore(c, b, unprotect)
          \/ SetAnchor(c, b) \/ ReleaseAnchor(c, b)
          \/ \E set, clear \in SUBSET {"pinned", "anchor"} : Direct(c, b, set, clear)
          \/ Decay(c, b)
    BY DEF ClientBegins
  <1>2. mem[b].marks \in SUBSET Mark
    BY DEF TypeOK, Memory
  <1>3. ASSUME NEW set \in SUBSET {"pinned", "protected"},
               NEW clear \in SUBSET {"pinned", "protected"}, Trace(c, b, set, clear)
        PROVE  TypeOK'
    <2> DEFINE need == (set \ mem[b].marks) \cup (clear \cap mem[b].marks)
    <2>1. set \in SUBSET Mark /\ clear \in SUBSET Mark
      BY DEF Mark
    <2>2. Begin(c, "trace", IF need = {} THEN "write" ELSE "turns",
                b, set, clear, set \ mem[b].marks, need)
      BY <1>3 DEF Trace
    <2>3. need \in SUBSET Mark /\ set \ mem[b].marks \in SUBSET Mark
      BY <2>1, <1>2
    <2> HIDE DEF need
    <2> QED
      BY <2>1, <2>2, <2>3, BeginType DEF Op, Pc
  <1>4. CASE Hold(c, b)
    BY <1>4, BeginType DEF Hold, Op, Pc, Mark
  <1>5. ASSUME NEW unprotect \in BOOLEAN, Restore(c, b, unprotect)
        PROVE  TypeOK'
    <2> DEFINE gain == IF unprotect THEN {} ELSE mem[b].marks \cap {"protected"}
               clear == IF unprotect THEN {"protected"} ELSE {}
    <2>1. Begin(c, "restore", IF gain = {} THEN "look" ELSE "turns",
                b, {}, clear, gain, gain)
      BY <1>5 DEF Restore
    <2>2. gain \in SUBSET Mark /\ clear \in SUBSET Mark
      BY <1>2 DEF Mark
    <2> HIDE DEF gain, clear
    <2> QED
      BY <2>1, <2>2, BeginType DEF Op, Pc
  <1>6. CASE SetAnchor(c, b)
    BY <1>6, BeginType DEF SetAnchor, Op, Pc, Mark
  <1>7. CASE ReleaseAnchor(c, b)
    BY <1>7, BeginType DEF ReleaseAnchor, Op, Pc, Mark
  <1>8. ASSUME NEW set \in SUBSET {"pinned", "anchor"},
               NEW clear \in SUBSET {"pinned", "anchor"}, Direct(c, b, set, clear)
        PROVE  TypeOK'
    <2>1. set \in SUBSET Mark /\ clear \in SUBSET Mark
      BY DEF Mark
    <2> QED
      BY <1>8, <2>1, BeginType DEF Direct, Op, Pc
  <1>9. CASE Decay(c, b)
    BY <1>9, BeginType DEF Decay, Op, Pc
  <1> QED
    BY <1>1, <1>3, <1>4, <1>5, <1>6, <1>7, <1>8, <1>9

LEMMA ArchivedType ==
    ASSUME TypeOK, NEW b \in Bucket, Archived(b)
    PROVE  mem' \in [Bucket -> Memory]
  BY DEF TypeOK, Archived, Memory

LEMMA StepType ==
    ASSUME TypeOK, NEW c \in Client, ClientStep(c)
    PROVE  TypeOK'
  <1>0. cl[c].pc # "idle" => cl[c].b \in Bucket
    BY DEF TypeOK
  <1>1. CASE TakeTurn(c)
    <2> DEFINE f == NextTurn(c)
               rest == cl[c].need \ {f}
               next == IF rest # {} THEN "turns"
                       ELSE IF cl[c].op = "hold" THEN "check" ELSE "look"
    <2>1. f \in Mark
      BY <1>1, NextTurnNeeded DEF TakeTurn, TypeOK
    <2>2. /\ quota' = [quota EXCEPT ![f] = c]
          /\ cl' = [cl EXCEPT ![c].need = rest, ![c].pc = next]
          /\ cl[c].pc = "turns"
          /\ UNCHANGED <<mem, turn>>
      BY <1>1 DEF TakeTurn
    <2>3. rest \in SUBSET Mark /\ next \in Pc /\ (next = "turns" => rest # {})
      BY DEF TypeOK, Pc
    <2>4. cl[c] \in Request /\ cl[c].b \in Bucket
      BY <2>2 DEF TypeOK, Request
    <2> DEFINE after == [cl[c] EXCEPT !.need = rest, !.pc = next]
    <2>5. /\ cl' = [cl EXCEPT ![c] = after]
          /\ after \in Request
          /\ after.b = cl[c].b /\ after.pc = next /\ after.need = rest
      BY <2>2, <2>3, <2>4 DEF Request
    <2>6. /\ mem' \in [Bucket -> Memory]
          /\ quota' \in [Mark -> Client \cup {Nobody}]
          /\ turn' \in [Bucket -> Client \cup {Nobody}]
      BY <2>1, <2>2 DEF TypeOK
    <2> HIDE DEF f, rest, next, after
    <2> QED
      BY <2>3, <2>4, <2>5, <2>6, RequestType
  <1>2. CASE Look(c)
    BY <1>2, GotoType, ReturnType DEF Look, Pc, TypeOK
  <1>3. CASE Check(c)
    BY <1>3, GotoType, ReturnType DEF Check, Pc, TypeOK
  <1>4. CASE CountAnchors(c)
    BY <1>4, GotoType, ReturnType DEF CountAnchors, Pc, TypeOK
  <1>5. CASE WriteUpdate(c)
    <2>1. mem' \in [Bucket -> Memory]
      <3> DEFINE final == (mem[cl[c].b].marks \cup cl[c].set) \ cl[c].clear
                 marks == IF "pinned" \in cl[c].set /\ "anchor" \notin cl[c].set
                          THEN final \ {"anchor"} ELSE final
      <3>1. cl[c].b \in Bucket
        BY <1>0, <1>5 DEF WriteUpdate, MayWrite
      <3>2. mem[cl[c].b] \in Memory /\ cl[c].set \in SUBSET Mark
        BY <3>1 DEF TypeOK
      <3>3. marks \in SUBSET Mark
        BY <3>2 DEF Memory
      <3>4. mem' = mem \/ mem' = [mem EXCEPT ![cl[c].b].marks = marks]
        BY <1>5 DEF WriteUpdate, Updated
      <3> HIDE DEF marks
      <3> QED
        BY <3>1, <3>3, <3>4 DEF TypeOK, Memory
    <2> QED
      BY <1>5, <2>1, ReturnType DEF WriteUpdate
  <1>6. CASE WriteHold(c)
    <2>1. mem' \in [Bucket -> Memory]
      BY <1>6 DEF WriteHold, TypeOK, Memory, Mark
    <2> QED
      BY <1>6, <2>1, ReturnType DEF WriteHold
  <1>7. CASE WriteRestore(c)
    <2>1. mem' \in [Bucket -> Memory]
      BY <1>7 DEF WriteRestore, TypeOK, Memory
    <2> QED
      BY <1>7, <2>1, ReturnType DEF WriteRestore
  <1>8. CASE WriteDecay(c)
    BY <1>0, <1>8, ArchivedType, ReturnType DEF WriteDecay, MayWrite
  <1> QED
    BY <1>1, <1>2, <1>3, <1>4, <1>5, <1>6, <1>7, <1>8 DEF ClientStep

LEMMA NextType == TypeOK /\ [Next]_vars => TypeOK'
  <1> SUFFICES ASSUME TypeOK, [Next]_vars PROVE TypeOK'
    OBVIOUS
  <1>1. ASSUME NEW c \in Client, ClientBegins(c) \/ ClientStep(c) \/ TurnTimeout(c)
        PROVE  TypeOK'
    <2>1. CASE TurnTimeout(c)
      BY <2>1, ReturnType DEF TurnTimeout, TypeOK
    <2> QED
      BY <1>1, <2>1, BeginsType, StepType
  <1>2. ASSUME NEW b \in Bucket,
               \/ \E marks \in SUBSET Mark : Create(b, marks)
               \/ Archive(b) \/ Activate(b) \/ Delete(b)
        PROVE  TypeOK'
    <2>1. mem' \in [Bucket -> Memory]
      <3>1. ASSUME NEW marks \in SUBSET Mark, Create(b, marks)
            PROVE  mem' \in [Bucket -> Memory]
        BY <3>1 DEF Create, TypeOK, Memory
      <3>2. CASE Archive(b)
        BY <3>2, ArchivedType DEF Archive
      <3>3. CASE Activate(b)
        BY <3>3 DEF Activate, TypeOK, Memory
      <3>4. CASE Delete(b)
        <4> DEFINE gone == [mem[b] EXCEPT !.status = "deleted"]
        <4>1. gone \in Memory
          BY DEF TypeOK, Memory
        <4>2. mem' = [mem EXCEPT ![b] = gone]
          BY <3>4 DEF Delete
        <4> HIDE DEF gone
        <4> QED
          BY <4>1, <4>2 DEF TypeOK
      <3> QED
        BY <1>2, <3>1, <3>2, <3>3, <3>4
    <2>2. UNCHANGED <<quota, turn, cl>>
      BY <1>2 DEF Create, Archive, Activate, Delete, OneWrite
    <2> QED
      BY <2>1, <2>2 DEF TypeOK
  <1>3. CASE UNCHANGED vars
    BY <1>3 DEF vars, TypeOK
  <1> QED
    BY <1>1, <1>2, <1>3 DEF Next

\* Every variable keeps its type, whatever operations are offered
\* (tools/trace/core.py, tools/hold/pinned.py, bucket_manager.py).
THEOREM QuotaTypeCorrect == Spec => []TypeOK
  BY InitType, NextType, PTL DEF Spec

-----------------------------------------------------------------------------
(* Counting *)

LEMMA Counting ==
    ASSUME NEW f \in Mark
    PROVE  /\ Limit(f) \in Nat \ {0}
           /\ IsFiniteSet(Marked(f)) /\ Cardinality(Marked(f)) \in Nat
           /\ IsFiniteSet(Marked(f)') /\ Cardinality(Marked(f)') \in Nat
  <1>1. Limit(f) \in Nat \ {0}
    BY LimitAssumption DEF Limit, Mark
  <1>2. Marked(f) \subseteq Bucket /\ Marked(f)' \subseteq Bucket
    BY DEF Marked
  <1> QED
    BY <1>1, <1>2, BucketAssumption, FS_Subset, FS_CardinalityType

LEMMA FewerMarked ==
    ASSUME NEW f \in Mark, Marked(f)' \subseteq Marked(f)
    PROVE  Cardinality(Marked(f)') <= Cardinality(Marked(f))
  BY Counting, FS_Subset

LEMMA OneMoreMarked ==
    ASSUME NEW f \in Mark, NEW b, Marked(f)' \subseteq Marked(f) \cup {b}
    PROVE  Cardinality(Marked(f)') <= Cardinality(Marked(f)) + 1
  <1> DEFINE S == Marked(f)
  <1>0. IsFiniteSet(S) /\ Cardinality(S) \in Nat
    BY Counting
  <1> HIDE DEF S
  <1>a. /\ IsFiniteSet(S \cup {b})
        /\ Cardinality(S \cup {b}) = IF b \in S THEN Cardinality(S) ELSE Cardinality(S) + 1
    BY <1>0, FS_AddElement
  <1>1. /\ IsFiniteSet(Marked(f) \cup {b})
        /\ Cardinality(Marked(f) \cup {b}) <= Cardinality(Marked(f)) + 1
        /\ Cardinality(Marked(f) \cup {b}) \in Nat
    BY <1>0, <1>a DEF S
  <1>2. Cardinality(Marked(f)') <= Cardinality(Marked(f) \cup {b})
    BY <1>1, FS_Subset
  <1> QED
    BY <1>1, <1>2, Counting

-----------------------------------------------------------------------------
(* The invariant *)

\* What a request r of client c may rely on: it sets the mark only if it has
\* checked for room, it holds the quota lease since, and there still is room.
Claim(f, c, r) ==
    /\ r.pc # "idle" => r.op \in Ops
    /\ r.pc \notin {"idle", "turns"} => r.need = {}
    /\ f \in r.set => f \in r.gain
    /\ r.op = "hold" => r.set = {"pinned"}
    /\ f \in r.gain /\ f \notin r.need => quota[f] = c
    /\ r.pc \in {"count", "write"} /\ f \in r.gain => Cardinality(Marked(f)) < Limit(f)

Within(f) == Cardinality(Marked(f)) <= Limit(f)

CapInv(f) ==
    /\ TypeOK
    /\ Within(f)
    /\ \A c \in Client : Claim(f, c, cl[c])

\* A step of client c that ends in request r: the others keep their leases,
\* and the mark spreads only if c holds the lease.
LEMMA StepKeeps ==
    ASSUME NEW f \in Mark, CapInv(f), TypeOK', NEW c \in Client, NEW r,
           cl' = [cl EXCEPT ![c] = r],
           /\ r.pc # "idle" => r.op \in Ops
           /\ r.pc \notin {"idle", "turns"} => r.need = {}
           /\ f \in r.set => f \in r.gain
           /\ r.op = "hold" => r.set = {"pinned"}
           /\ f \in r.gain /\ f \notin r.need => quota'[f] = c
           /\ r.pc \in {"count", "write"} /\ f \in r.gain
                 => Cardinality(Marked(f)') < Limit(f),
           \A d \in Client \ {c} : quota[f] = d => quota'[f] = d,
           \/ Cardinality(Marked(f)') <= Cardinality(Marked(f))
           \/ Cardinality(Marked(f)') <= Limit(f) /\ quota[f] = c
    PROVE  CapInv(f)'
  <1>1. Within(f)'
    BY Counting DEF CapInv, Within
  <1>2. ASSUME NEW d \in Client PROVE Claim(f, d, cl[d])'
    <2>1. CASE d = c
      <3>1. cl'[d] = r
        BY <2>1 DEF CapInv, TypeOK
      <3> QED
        BY <2>1, <3>1 DEF Claim
    <2>2. CASE d # c
      <3>1. cl'[d] = cl[d] /\ Claim(f, d, cl[d])
        BY <2>2 DEF CapInv, TypeOK
      <3>2. f \in cl[d].gain /\ f \notin cl[d].need => quota'[f] = d
        BY <2>2, <3>1 DEF Claim
      <3>3. ASSUME cl[d].pc \in {"count", "write"}, f \in cl[d].gain
            PROVE  Cardinality(Marked(f)') < Limit(f)
        <4>1. quota[f] = d /\ Cardinality(Marked(f)) < Limit(f)
          BY <3>1, <3>3 DEF Claim
        <4> QED
          BY <2>2, <4>1, Counting
      <3> QED
        BY <3>1, <3>2, <3>3 DEF Claim
    <2> QED
      BY <2>1, <2>2
  <1> QED
    BY <1>1, <1>2 DEF CapInv

\* Returning keeps the invariant if the write did.
LEMMA ReturnKeeps ==
    ASSUME NEW f \in Mark, CapInv(f), TypeOK', NEW c \in Client, Return(c),
           \/ Cardinality(Marked(f)') <= Cardinality(Marked(f))
           \/ Cardinality(Marked(f)') <= Limit(f) /\ quota[f] = c
    PROVE  CapInv(f)'
  <1>1. cl' = [cl EXCEPT ![c] = Idle]
    BY DEF Return
  <1>2. \A d \in Client \ {c} : quota[f] = d => quota'[f] = d
    BY DEF Return
  <1>3. Idle.pc = "idle" /\ Idle.op = "none" /\ Idle.set = {} /\ Idle.gain = {}
    BY DEF Idle
  <1> HIDE DEF Idle
  <1> QED
    BY <1>1, <1>2, <1>3, StepKeeps

LEMMA GotoKeeps ==
    ASSUME NEW f \in Mark, CapInv(f), TypeOK', NEW c \in Client, NEW pc, Goto(c, pc),
           cl[c].pc \notin {"idle", "turns"}, UNCHANGED <<mem, quota>>,
           pc \in {"count", "write"} /\ f \in cl[c].gain => Cardinality(Marked(f)) < Limit(f)
    PROVE  CapInv(f)'
  <1> DEFINE r == [cl[c] EXCEPT !.pc = pc]
  <1>1. Claim(f, c, cl[c])
    BY DEF CapInv
  <1>2. cl[c] \in Request
    BY DEF CapInv, TypeOK, Request
  <1>3. /\ r.pc = pc /\ r.op = cl[c].op /\ r.need = cl[c].need
        /\ r.set = cl[c].set /\ r.gain = cl[c].gain
    BY <1>2 DEF Request
  <1>4. cl' = [cl EXCEPT ![c] = r]
    BY DEF Goto
  <1>5. Marked(f)' = Marked(f)
    BY DEF Marked
  <1> HIDE DEF r
  <1>6. Cardinality(Marked(f)') <= Cardinality(Marked(f))
    BY <1>5, Counting
  <1>7. /\ r.pc # "idle" => r.op \in Ops
        /\ r.pc \notin {"idle", "turns"} => r.need = {}
        /\ f \in r.set => f \in r.gain
        /\ r.op = "hold" => r.set = {"pinned"}
        /\ f \in r.gain /\ f \notin r.need => quota'[f] = c
    BY <1>1, <1>3 DEF Claim
  <1>8. r.pc \in {"count", "write"} /\ f \in r.gain => Cardinality(Marked(f)') < Limit(f)
    BY <1>3, <1>5
  <1> QED
    BY <1>4, <1>6, <1>7, <1>8, StepKeeps

\* Starting: without "restate", a request sets only marks it will check.
LEMMA BeginKeeps ==
    ASSUME NEW f \in Mark, CapInv(f), TypeOK', NEW c \in Client,
           NEW op, NEW pc, NEW b, NEW set, NEW clear, NEW gain, NEW need,
           Begin(c, op, pc, b, set, clear, gain, need),
           pc \notin {"idle", "turns"} => need = {},
           f \in set => f \in gain,
           op = "hold" => set = {"pinned"},
           f \in gain => f \in need,
           pc \in {"count", "write"} => f \notin gain
    PROVE  CapInv(f)'
  <1> DEFINE r == [pc |-> pc, op |-> op, b |-> b, seen |-> mem[b],
                   set |-> set, clear |-> clear, gain |-> gain, need |-> need]
  <1>1. cl' = [cl EXCEPT ![c] = r] /\ op \in Ops /\ mem' = mem /\ quota' = quota
    BY DEF Begin
  <1>2. Marked(f)' = Marked(f)
    BY <1>1 DEF Marked
  <1>3. Cardinality(Marked(f)') <= Cardinality(Marked(f))
    BY <1>2, Counting
  <1>4. r.pc = pc /\ r.op = op /\ r.set = set /\ r.gain = gain /\ r.need = need
    OBVIOUS
  <1> HIDE DEF r
  <1>5. /\ r.pc # "idle" => r.op \in Ops
        /\ r.pc \notin {"idle", "turns"} => r.need = {}
        /\ f \in r.set => f \in r.gain
        /\ r.op = "hold" => r.set = {"pinned"}
        /\ f \in r.gain /\ f \notin r.need => quota'[f] = c
        /\ r.pc \in {"count", "write"} /\ f \in r.gain => Cardinality(Marked(f)') < Limit(f)
    BY <1>1, <1>4
  <1> QED
    BY <1>1, <1>3, <1>5, StepKeeps

LEMMA BeginsKeep ==
    ASSUME NEW f \in Mark, Ops \cap Bypass(f) = {}, CapInv(f), TypeOK',
           NEW c \in Client, ClientBegins(c)
    PROVE  CapInv(f)'
  <1>1. PICK b \in Bucket :
          \/ \E set, clear \in SUBSET {"pinned", "protected"} : Trace(c, b, set, clear)
          \/ Hold(c, b)
          \/ \E unprotect \in BOOLEAN : Restore(c, b, unprotect)
          \/ SetAnchor(c, b) \/ ReleaseAnchor(c, b)
          \/ \E set, clear \in SUBSET {"pinned", "anchor"} : Direct(c, b, set, clear)
          \/ Decay(c, b)
    BY DEF ClientBegins
  <1>2. ASSUME NEW set \in SUBSET {"pinned", "protected"},
               NEW clear \in SUBSET {"pinned", "protected"}, Trace(c, b, set, clear)
        PROVE  CapInv(f)'
    <2> DEFINE need == (set \ mem[b].marks) \cup (clear \cap mem[b].marks)
               pc == IF need = {} THEN "write" ELSE "turns"
               gain == set \ mem[b].marks
    <2>1. "restate" \notin Ops
      BY DEF Bypass
    <2>2. /\ need = set \cup clear
          /\ set \cup clear # {}
          /\ set \cap clear = {}
          /\ Begin(c, "trace", pc, b, set, clear, gain, need)
      BY <1>2, <2>1 DEF Trace
    <2>3. pc = "turns"
      BY <2>2
    <2>4. f \in set => f \in gain
      BY <2>2
    <2>5. f \in gain => f \in need
      OBVIOUS
    <2> HIDE DEF need, pc, gain
    <2> QED
      BY <2>2, <2>3, <2>4, <2>5, BeginKeeps
  <1>3. CASE Hold(c, b)
    BY <1>3, BeginKeeps DEF Hold
  <1>4. ASSUME NEW unprotect \in BOOLEAN, Restore(c, b, unprotect)
        PROVE  CapInv(f)'
    <2> DEFINE gain == IF unprotect THEN {} ELSE mem[b].marks \cap {"protected"}
               pc == IF gain = {} THEN "look" ELSE "turns"
               clear == IF unprotect THEN {"protected"} ELSE {}
    <2>1. Begin(c, "restore", pc, b, {}, clear, gain, gain)
      BY <1>4 DEF Restore
    <2>2. /\ pc \in {"look", "turns"}
          /\ pc = "look" => gain = {}
      OBVIOUS
    <2> HIDE DEF gain, pc, clear
    <2> QED
      BY <2>1, <2>2, BeginKeeps
  <1>5. CASE SetAnchor(c, b)
    BY <1>5, BeginKeeps DEF SetAnchor
  <1>6. CASE ReleaseAnchor(c, b)
    BY <1>6, BeginKeeps DEF ReleaseAnchor
  <1>7. ASSUME NEW set \in SUBSET {"pinned", "anchor"},
               NEW clear \in SUBSET {"pinned", "anchor"}, Direct(c, b, set, clear)
        PROVE  CapInv(f)'
    <2>1. "direct" \in Ops
      BY <1>7 DEF Direct, Begin
    <2>2. f = "protected"
      BY <2>1 DEF Bypass, Mark
    <2>3. f \notin set
      BY <2>2
    <2> DEFINE pc == IF "anchor" \in set THEN "count" ELSE "write"
    <2>4. Begin(c, "direct", pc, b, set, clear, {}, {})
      BY <1>7 DEF Direct
    <2> HIDE DEF pc
    <2> QED
      BY <2>3, <2>4, BeginKeeps
  <1>8. CASE Decay(c, b)
    BY <1>8, BeginKeeps DEF Decay
  <1> QED
    BY <1>1, <1>2, <1>3, <1>4, <1>5, <1>6, <1>7, <1>8

-----------------------------------------------------------------------------
(* The writes *)

\* update() spreads a mark to at most one memory, and only if the request sets it.
LEMMA UpdateKeeps ==
    ASSUME NEW f \in Mark, CapInv(f), TypeOK', NEW c \in Client, WriteUpdate(c)
    PROVE  CapInv(f)'
  <1> DEFINE b == cl[c].b
  <1>1. cl[c].pc = "write" /\ Return(c) /\ Claim(f, c, cl[c])
    BY DEF WriteUpdate, MayWrite, CapInv
  <1>2. b \in Bucket /\ mem \in [Bucket -> Memory]
    BY <1>1 DEF CapInv, TypeOK
  <1>3. \/ mem' = mem
        \/ /\ mem[b].status = "live"
           /\ mem' = Updated(b, cl[c].set, cl[c].clear)
    BY DEF WriteUpdate, Allows
  <1>4. CASE f \notin cl[c].set
    <2>1. Marked(f)' \subseteq Marked(f)
      BY <1>2, <1>3, <1>4 DEF Marked, Updated, Memory
    <2> QED
      BY <1>1, <2>1, FewerMarked, ReturnKeeps
  <1>5. CASE f \in cl[c].set
    <2>1. Marked(f)' \subseteq Marked(f) \cup {b}
      BY <1>2, <1>3 DEF Marked, Updated
    <2>2. quota[f] = c /\ Cardinality(Marked(f)) < Limit(f)
      BY <1>1, <1>5 DEF Claim
    <2>3. Cardinality(Marked(f)') <= Limit(f)
      BY <2>1, <2>2, OneMoreMarked, Counting
    <2> QED
      BY <1>1, <2>2, <2>3, ReturnKeeps
  <1> QED
    BY <1>4, <1>5

LEMMA HoldKeeps ==
    ASSUME NEW f \in Mark, CapInv(f), TypeOK', NEW c \in Client, WriteHold(c)
    PROVE  CapInv(f)'
  <1> DEFINE b == cl[c].b
  <1>1. /\ cl[c].pc = "write" /\ cl[c].op = "hold"
        /\ Return(c) /\ Claim(f, c, cl[c])
    BY DEF WriteHold, MayWrite, CapInv
  <1>2. b \in Bucket /\ mem \in [Bucket -> Memory]
    BY <1>1 DEF CapInv, TypeOK
  <1>3. mem' = mem \/ mem' = [mem EXCEPT ![b] = [status |-> "live", marks |-> {"pinned"}]]
    BY DEF WriteHold
  <1>4. CASE f # "pinned"
    <2>1. Marked(f)' \subseteq Marked(f)
      BY <1>2, <1>3, <1>4 DEF Marked
    <2> QED
      BY <1>1, <2>1, FewerMarked, ReturnKeeps
  <1>5. CASE f = "pinned"
    <2>1. Marked(f)' \subseteq Marked(f) \cup {b}
      BY <1>2, <1>3 DEF Marked
    <2>2. quota[f] = c /\ Cardinality(Marked(f)) < Limit(f)
      BY <1>1, <1>5 DEF Claim
    <2>3. Cardinality(Marked(f)') <= Limit(f)
      BY <2>1, <2>2, OneMoreMarked, Counting
    <2> QED
      BY <1>1, <2>2, <2>3, ReturnKeeps
  <1> QED
    BY <1>4, <1>5

\* restore_archived never brings the pinned mark back.
LEMMA RestoreKeeps ==
    ASSUME NEW f \in Mark, Ops \cap Bypass(f) = {}, CapInv(f), TypeOK',
           NEW c \in Client, WriteRestore(c)
    PROVE  CapInv(f)'
  <1> DEFINE b == cl[c].b
  <1>1. /\ cl[c].pc = "write" /\ cl[c].op = "restore"
        /\ Return(c) /\ Claim(f, c, cl[c])
    BY DEF WriteRestore, MayWrite, CapInv
  <1>2. b \in Bucket /\ mem \in [Bucket -> Memory]
    BY <1>1 DEF CapInv, TypeOK
  <1>3. f = "pinned"
    BY <1>1 DEF Claim, Bypass, Mark
  <1>4. PICK marks : /\ "pinned" \notin marks
                     /\ \/ mem' = mem
                        \/ mem' = [mem EXCEPT ![b] = [status |-> "live", marks |-> marks]]
    BY DEF WriteRestore
  <1>5. Marked(f)' \subseteq Marked(f)
    BY <1>2, <1>3, <1>4 DEF Marked
  <1> QED
    BY <1>1, <1>5, FewerMarked, ReturnKeeps

LEMMA ArchivedFewer ==
    ASSUME NEW f \in Mark, TypeOK, NEW b \in Bucket, Archived(b)
    PROVE  Cardinality(Marked(f)') <= Cardinality(Marked(f))
  <1>1. Marked(f)' \subseteq Marked(f)
    BY DEF Archived, Marked, TypeOK
  <1> QED
    BY <1>1, FewerMarked

LEMMA DecayKeeps ==
    ASSUME NEW f \in Mark, CapInv(f), TypeOK', NEW c \in Client, WriteDecay(c)
    PROVE  CapInv(f)'
  <1>1. cl[c].b \in Bucket /\ TypeOK
    BY DEF WriteDecay, MayWrite, CapInv, TypeOK
  <1> QED
    BY <1>1, ArchivedFewer, ReturnKeeps DEF WriteDecay

-----------------------------------------------------------------------------
(* The other steps *)

LEMMA TurnKeeps ==
    ASSUME NEW f \in Mark, CapInv(f), TypeOK', NEW c \in Client, TakeTurn(c)
    PROVE  CapInv(f)'
  <1> DEFINE g == NextTurn(c)
             rest == cl[c].need \ {g}
             next == IF rest # {} THEN "turns"
                     ELSE IF cl[c].op = "hold" THEN "check" ELSE "look"
             r == [cl[c] EXCEPT !.need = rest, !.pc = next]
  <1>1. /\ cl[c].pc = "turns" /\ quota[g] = Nobody
        /\ quota' = [quota EXCEPT ![g] = c]
        /\ cl' = [cl EXCEPT ![c].need = rest, ![c].pc = next]
        /\ mem' = mem
    BY DEF TakeTurn
  <1>2. /\ cl[c] \in Request /\ cl[c].need # {} /\ Claim(f, c, cl[c])
        /\ quota \in [Mark -> Client \cup {Nobody}]
    BY <1>1 DEF CapInv, TypeOK, Request
  <1>3. g \in cl[c].need /\ g \in Mark
    BY <1>2, NextTurnNeeded DEF Request
  <1>4. /\ r.pc = next /\ r.op = cl[c].op /\ r.need = rest
        /\ r.set = cl[c].set /\ r.gain = cl[c].gain
        /\ cl' = [cl EXCEPT ![c] = r]
    BY <1>1, <1>2 DEF Request
  <1>5. /\ next \in {"turns", "check", "look"}
        /\ next # "turns" => rest = {}
    OBVIOUS
  <1>6. f \in r.gain /\ f \notin r.need => quota'[f] = c
    <2>1. CASE f = g
      BY <2>1, <1>1, <1>2, <1>3
    <2>2. CASE f # g
      <3>1. f \notin rest => f \notin cl[c].need
        BY <2>2
      <3> HIDE DEF g, rest, next, r
      <3> QED
        BY <2>2, <3>1, <1>1, <1>2, <1>3, <1>4 DEF Claim
    <2> QED
      BY <2>1, <2>2
  <1>7. \A d \in Client \ {c} : quota[f] = d => quota'[f] = d
    BY <1>1, <1>2, NobodyAssumption
  <1>8. Marked(f)' = Marked(f)
    BY <1>1 DEF Marked
  <1>9. Cardinality(Marked(f)') <= Cardinality(Marked(f))
    BY <1>8, Counting
  <1>10. /\ r.pc # "idle" => r.op \in Ops
         /\ r.pc \notin {"idle", "turns"} => r.need = {}
         /\ f \in r.set => f \in r.gain
         /\ r.op = "hold" => r.set = {"pinned"}
         /\ r.pc \notin {"count", "write"}
    <2> HIDE DEF g, rest, next, r
    <2> QED
      BY <1>1, <1>2, <1>4, <1>5 DEF Claim
  <1> HIDE DEF g, rest, next, r
  <1> QED
    BY <1>4, <1>6, <1>7, <1>9, <1>10, StepKeeps

LEMMA SameMarked ==
    ASSUME NEW f \in Mark, mem' = mem
    PROVE  Cardinality(Marked(f)') <= Cardinality(Marked(f))
  BY Counting DEF Marked

LEMMA LookKeeps ==
    ASSUME NEW f \in Mark, CapInv(f), TypeOK', NEW c \in Client, Look(c)
    PROVE  CapInv(f)'
  <1>1. cl[c].pc = "look" /\ mem' = mem
    BY DEF Look
  <1>2. CASE Goto(c, "check") /\ UNCHANGED <<quota, turn>>
    BY <1>1, <1>2, GotoKeeps
  <1>3. CASE Return(c)
    BY <1>1, <1>3, SameMarked, ReturnKeeps
  <1> QED
    BY <1>2, <1>3 DEF Look

\* A check that succeeds has found room.
LEMMA CheckKeeps ==
    ASSUME NEW f \in Mark, CapInv(f), TypeOK', NEW c \in Client, Check(c)
    PROVE  CapInv(f)'
  <1>1. cl[c].pc = "check" /\ mem' = mem
    BY DEF Check
  <1>2. CASE Return(c)
    BY <1>1, <1>2, SameMarked, ReturnKeeps
  <1>3. CASE ~Return(c)
    <2>1. /\ ~\E g \in cl[c].gain : Full(g)
          /\ Goto(c, IF "anchor" \in cl[c].set THEN "count" ELSE "write")
          /\ quota' = quota
      BY <1>3 DEF Check
    <2>2. f \in cl[c].gain => Cardinality(Marked(f)) < Limit(f)
      BY <2>1, Counting DEF Full
    <2> QED
      BY <1>1, <2>1, <2>2, GotoKeeps
  <1> QED
    BY <1>2, <1>3

LEMMA CountKeeps ==
    ASSUME NEW f \in Mark, CapInv(f), TypeOK', NEW c \in Client, CountAnchors(c)
    PROVE  CapInv(f)'
  <1>1. cl[c].pc = "count" /\ mem' = mem /\ Claim(f, c, cl[c])
    BY DEF CountAnchors, CapInv
  <1>2. CASE Return(c)
    BY <1>1, <1>2, SameMarked, ReturnKeeps
  <1>3. CASE ~Return(c)
    <2>1. Goto(c, "write") /\ quota' = quota
      BY <1>3 DEF CountAnchors
    <2>2. f \in cl[c].gain => Cardinality(Marked(f)) < Limit(f)
      BY <1>1 DEF Claim
    <2> QED
      BY <1>1, <2>1, <2>2, GotoKeeps
  <1> QED
    BY <1>2, <1>3

\* The writers without a request never set the mark.
LEMMA OneWriteKeeps ==
    ASSUME NEW f \in Mark, Ops \cap Bypass(f) = {}, CapInv(f), TypeOK', NEW b \in Bucket,
           \/ \E marks \in SUBSET Mark : Create(b, marks)
           \/ Archive(b) \/ Activate(b) \/ Delete(b)
    PROVE  CapInv(f)'
  <1>1. "directCreate" \notin Ops /\ "activate" \notin Ops
    BY DEF Bypass
  <1>2. UNCHANGED <<quota, turn, cl>>
    BY DEF Create, Archive, Activate, Delete, OneWrite
  <1>3. Cardinality(Marked(f)') <= Cardinality(Marked(f))
    <2>1. ASSUME NEW marks \in SUBSET Mark, Create(b, marks)
          PROVE  Cardinality(Marked(f)') <= Cardinality(Marked(f))
      <3>1. marks = {}
        BY <1>1, <2>1 DEF Create, OneWrite
      <3>2. Marked(f)' \subseteq Marked(f)
        BY <2>1, <3>1 DEF Create, Marked, CapInv, TypeOK
      <3> QED
        BY <3>2, FewerMarked
    <2>2. CASE Archive(b)
      BY <2>2, ArchivedFewer DEF Archive, CapInv
    <2>3. CASE Activate(b)
      BY <1>1, <2>3 DEF Activate, OneWrite
    <2>4. CASE Delete(b)
      <3>1. Marked(f)' \subseteq Marked(f)
        BY <2>4 DEF Delete, Marked, CapInv, TypeOK
      <3> QED
        BY <3>1, FewerMarked
    <2> QED
      BY <2>1, <2>2, <2>3, <2>4
  <1>4. Within(f)'
    BY <1>3, Counting DEF CapInv, Within
  <1>5. ASSUME NEW c \in Client PROVE Claim(f, c, cl[c])'
    <2>1. Claim(f, c, cl[c])
      BY DEF CapInv
    <2>2. Cardinality(Marked(f)) < Limit(f) => Cardinality(Marked(f)') < Limit(f)
      BY <1>3, Counting
    <2> QED
      BY <1>2, <2>1, <2>2 DEF Claim
  <1> QED
    BY <1>4, <1>5 DEF CapInv

LEMMA NextKeeps ==
    ASSUME NEW f \in Mark, Ops \cap Bypass(f) = {}, CapInv(f), [Next]_vars
    PROVE  CapInv(f)'
  <1>1. TypeOK'
    BY NextType DEF CapInv
  <1>2. ASSUME NEW c \in Client, ClientStep(c) PROVE CapInv(f)'
    BY <1>1, <1>2, TurnKeeps, LookKeeps, CheckKeeps, CountKeeps,
       UpdateKeeps, HoldKeeps, RestoreKeeps, DecayKeeps DEF ClientStep
  <1>3. ASSUME NEW c \in Client, TurnTimeout(c) PROVE CapInv(f)'
    BY <1>1, <1>3, SameMarked, ReturnKeeps DEF TurnTimeout
  <1>4. CASE UNCHANGED vars
    <2>1. Marked(f)' = Marked(f)
      BY <1>4 DEF vars, Marked
    <2> QED
      BY <1>1, <1>4, <2>1 DEF vars, CapInv, Within, Claim
  <1> QED
    BY <1>1, <1>2, <1>3, <1>4, BeginsKeep, OneWriteKeeps DEF Next

LEMMA InitCap ==
    ASSUME NEW f \in Mark, Init
    PROVE  CapInv(f)
  <1>1. Marked(f) = {}
    BY DEF Init, Marked, Absent
  <1>2. Within(f)
    BY <1>1, FS_EmptySet, Counting DEF Within
  <1>3. ASSUME NEW c \in Client PROVE Claim(f, c, cl[c])
    BY DEF Init, Idle, Claim
  <1> QED
    BY <1>2, <1>3, InitType DEF CapInv

\* hold(pinned=True), trace(pinned=1) and restore never pin more memories
\* than limits.max_pinned, in any order and any number of them.
THEOREM PinnedCapHolds ==
    ASSUME Ops \cap {"restate", "activate", "directCreate", "direct"} = {}
    PROVE  Spec => []PinnedCap
  <1>1. "pinned" \in Mark /\ Ops \cap Bypass("pinned") = {}
    BY DEF Mark, Bypass
  <1>2. Init => CapInv("pinned")
    BY <1>1, InitCap
  <1>3. CapInv("pinned") /\ [Next]_vars => CapInv("pinned")'
    BY <1>1, NextKeeps
  <1>4. CapInv("pinned") => PinnedCap
    BY DEF CapInv, Within, PinnedCap, Limit
  <1> QED
    BY <1>2, <1>3, <1>4, PTL DEF Spec

\* trace(protected=1) never protects more memories than limits.max_protected.
THEOREM ProtectedCapHolds ==
    ASSUME Ops \cap {"restate", "activate", "directCreate", "restore"} = {}
    PROVE  Spec => []ProtectedCap
  <1>1. "protected" \in Mark /\ Ops \cap Bypass("protected") = {}
    BY DEF Mark, Bypass
  <1>2. Init => CapInv("protected")
    BY <1>1, InitCap
  <1>3. CapInv("protected") /\ [Next]_vars => CapInv("protected")'
    BY <1>1, NextKeeps
  <1>4. CapInv("protected") => ProtectedCap
    BY DEF CapInv, Within, ProtectedCap, Limit
  <1> QED
    BY <1>2, <1>3, <1>4, PTL DEF Spec

\* set_anchor never anchors more memories than ANCHOR_LIMIT.
THEOREM AnchorCapHolds ==
    ASSUME Ops \cap {"restate", "activate", "directCreate", "direct", "restore"} = {}
    PROVE  Spec => []AnchorCap
  <1>1. "anchor" \in Mark /\ Ops \cap Bypass("anchor") = {}
    BY DEF Mark, Bypass
  <1>2. Init => CapInv("anchor")
    BY <1>1, InitCap
  <1>3. CapInv("anchor") /\ [Next]_vars => CapInv("anchor")'
    BY <1>1, NextKeeps
  <1>4. CapInv("anchor") => AnchorCap
    BY DEF CapInv, Within, AnchorCap, Limit
  <1> QED
    BY <1>2, <1>3, <1>4, PTL DEF Spec

-----------------------------------------------------------------------------
(* Exclusion.  No lease is needed: update() and restore_archived judge the *)
(* marks they are about to write under the lease of the bucket, and no     *)
(* other writer adds a mark to a memory that has one.                      *)

\* No memory at all, active or not, carries both marks.
Apart(f, g) == \A b \in Bucket : ~({f, g} \subseteq mem[b].marks)

\* The pairs that every writer among Ops keeps apart.
Guarded(f, g) == \/ <<f, g>> = <<"pinned", "protected">>
                 \/ <<f, g>> = <<"protected", "anchor">> /\ "directCreate" \notin Ops

\* A step that rewrites at most one memory.
LEMMA OneMemory ==
    ASSUME NEW f, NEW g, TypeOK, Apart(f, g), NEW b \in Bucket, NEW m,
           ~({f, g} \subseteq m.marks), mem' = [mem EXCEPT ![b] = m]
    PROVE  Apart(f, g)'
  <1>1. \A x \in Bucket : mem'[x] = IF x = b THEN m ELSE mem[x]
    BY DEF TypeOK
  <1> QED
    BY <1>1 DEF Apart

\* A step that changes at most the status of a memory.
LEMMA StatusOnly ==
    ASSUME NEW f, NEW g, TypeOK, Apart(f, g), NEW b \in Bucket, NEW s,
           mem' = mem \/ mem' = [mem EXCEPT ![b].status = s]
    PROVE  Apart(f, g)'
  <1>1. \A x \in Bucket : mem'[x].marks = mem[x].marks
    BY DEF TypeOK, Memory
  <1> QED
    BY <1>1 DEF Apart

LEMMA UpdateApart ==
    ASSUME NEW f, NEW g, Guarded(f, g), TypeOK, Apart(f, g),
           NEW c \in Client, WriteUpdate(c)
    PROVE  Apart(f, g)'
  <1> DEFINE b == cl[c].b
             final == (mem[b].marks \cup cl[c].set) \ cl[c].clear
             marks == IF "pinned" \in cl[c].set /\ "anchor" \notin cl[c].set
                      THEN final \ {"anchor"} ELSE final
  <1>1. b \in Bucket
    BY DEF WriteUpdate, MayWrite, TypeOK
  <1>2. CASE ~Allows(b, cl[c].set, cl[c].clear)
    BY <1>2 DEF WriteUpdate, Apart
  <1>3. CASE Allows(b, cl[c].set, cl[c].clear)
    <2>1. mem' = [mem EXCEPT ![b] = [mem[b] EXCEPT !.marks = marks]]
      BY <1>1, <1>3 DEF WriteUpdate, Updated, TypeOK
    <2>2. ~({f, g} \subseteq final)
      BY <1>3 DEF Allows, Guarded
    <2>3. marks \subseteq final
      OBVIOUS
    <2>4. [mem[b] EXCEPT !.marks = marks].marks = marks
      BY <1>1 DEF TypeOK, Memory
    <2> HIDE DEF b, final, marks
    <2> QED
      BY <1>1, <2>1, <2>2, <2>3, <2>4, OneMemory
  <1> QED
    BY <1>2, <1>3

LEMMA RestoreApart ==
    ASSUME NEW f, NEW g, Guarded(f, g), TypeOK, Apart(f, g),
           NEW c \in Client, WriteRestore(c)
    PROVE  Apart(f, g)'
  <1> DEFINE b == cl[c].b
             marks == mem[b].marks \ (cl[c].clear \cup {"pinned"})
             m == [status |-> "live", marks |-> marks]
  <1>1. b \in Bucket
    BY DEF WriteRestore, MayWrite, TypeOK
  <1>2. CASE mem' = mem
    BY <1>2 DEF Apart
  <1>3. CASE mem' # mem
    <2>1. /\ ~({"protected", "anchor"} \subseteq marks)
          /\ mem' = [mem EXCEPT ![b] = m]
      BY <1>3 DEF WriteRestore
    <2>2. ~({f, g} \subseteq m.marks)
      BY <2>1 DEF Guarded
    <2> HIDE DEF b, m
    <2> QED
      BY <1>1, <2>1, <2>2, OneMemory
  <1> QED
    BY <1>2, <1>3

LEMMA HoldApart ==
    ASSUME NEW f, NEW g, Guarded(f, g), TypeOK, Apart(f, g),
           NEW c \in Client, WriteHold(c)
    PROVE  Apart(f, g)'
  <1> DEFINE m == [status |-> "live", marks |-> {"pinned"}]
  <1>1. cl[c].b \in Bucket
    BY DEF WriteHold, MayWrite, TypeOK
  <1>2. mem' = mem \/ mem' = [mem EXCEPT ![cl[c].b] = m]
    BY DEF WriteHold
  <1>3. ~({f, g} \subseteq m.marks)
    BY DEF Guarded
  <1>4. CASE mem' = mem
    BY <1>4 DEF Apart
  <1> HIDE DEF m
  <1> QED
    BY <1>1, <1>2, <1>3, <1>4, OneMemory

LEMMA CreateApart ==
    ASSUME NEW f, NEW g, Guarded(f, g), TypeOK, Apart(f, g),
           NEW b \in Bucket, NEW marks \in SUBSET Mark, Create(b, marks)
    PROVE  Apart(f, g)'
  <1> DEFINE m == [status |-> "live", marks |-> marks]
  <1>1. ~({f, g} \subseteq m.marks)
    BY DEF Create, OneWrite, Guarded
  <1>2. mem' = [mem EXCEPT ![b] = m]
    BY DEF Create
  <1> HIDE DEF m
  <1> QED
    BY <1>1, <1>2, OneMemory

\* Whichever handlers race, the pair stays apart.
LEMMA NextApart ==
    ASSUME NEW f, NEW g, Guarded(f, g), TypeOK, Apart(f, g), [Next]_vars
    PROVE  Apart(f, g)'
  <1>1. CASE mem' = mem
    BY <1>1 DEF Apart
  <1>2. ASSUME NEW c \in Client, ClientBegins(c) PROVE Apart(f, g)'
    <2>1. mem' = mem
      BY <1>2 DEF ClientBegins, Trace, Hold, Restore, SetAnchor, ReleaseAnchor,
                  Direct, Decay, Begin
    <2> QED
      BY <1>1, <2>1
  <1>3. ASSUME NEW c \in Client, ClientStep(c) PROVE Apart(f, g)'
    <2>1. CASE TakeTurn(c) \/ Look(c) \/ Check(c) \/ CountAnchors(c)
      BY <1>1, <2>1 DEF TakeTurn, Look, Check, CountAnchors
    <2>2. CASE WriteDecay(c)
      <3>1. cl[c].b \in Bucket
        BY <2>2 DEF WriteDecay, MayWrite, TypeOK
      <3>2. mem' = mem \/ mem' = [mem EXCEPT ![cl[c].b].status = "archived"]
        BY <2>2 DEF WriteDecay, Archived
      <3> QED
        BY <3>1, <3>2, StatusOnly
    <2> QED
      BY <1>3, <2>1, <2>2, UpdateApart, HoldApart, RestoreApart DEF ClientStep
  <1>4. ASSUME NEW c \in Client, TurnTimeout(c) PROVE Apart(f, g)'
    BY <1>1, <1>4 DEF TurnTimeout
  <1>5. ASSUME NEW b \in Bucket, Archive(b) \/ Activate(b) \/ Delete(b)
        PROVE  Apart(f, g)'
    <2>1. \E s : mem' = mem \/ mem' = [mem EXCEPT ![b].status = s]
      BY <1>5 DEF Archive, Activate, Delete, Archived
    <2> QED
      BY <2>1, StatusOnly
  <1>6. CASE UNCHANGED vars
    BY <1>1, <1>6 DEF vars
  <1> QED
    BY <1>2, <1>3, <1>4, <1>5, <1>6, CreateApart DEF Next

LEMMA InitApart ==
    ASSUME NEW f, NEW g, Init
    PROVE  Apart(f, g)
  <1>1. \A b \in Bucket : mem[b].marks = {}
    BY DEF Init, Absent
  <1> QED
    BY <1>1 DEF Apart

\* Two requests that pin and protect one memory, each having read it without
\* the other's mark, never both succeed; no operation is excepted.
THEOREM PinnedNeverProtected == Spec => []PinnedProtectedExclusive
  <1> DEFINE Inv == TypeOK /\ Apart("pinned", "protected")
  <1>1. Init => Inv
    BY InitType, InitApart
  <1>2. Inv /\ [Next]_vars => Inv'
    <2>1. Guarded("pinned", "protected")
      BY DEF Guarded
    <2> QED
      BY <2>1, NextType, NextApart
  <1>3. Inv => PinnedProtectedExclusive
    BY DEF Apart, PinnedProtectedExclusive, Marked
  <1> QED
    BY <1>1, <1>2, <1>3, PTL DEF Spec

\* A protected memory is never an anchor: trace(protected=1) races set_anchor
\* under leases of other names.  Only create() accepts the two together.
THEOREM ProtectedNeverAnchor ==
    ASSUME "directCreate" \notin Ops
    PROVE  Spec => []ProtectedAnchorExclusive
  <1> DEFINE Inv == TypeOK /\ Apart("protected", "anchor")
  <1>1. Init => Inv
    BY InitType, InitApart
  <1>2. Inv /\ [Next]_vars => Inv'
    <2>1. Guarded("protected", "anchor")
      BY DEF Guarded
    <2> QED
      BY <2>1, NextType, NextApart
  <1>3. Inv => ProtectedAnchorExclusive
    BY DEF Apart, ProtectedAnchorExclusive, Marked
  <1> QED
    BY <1>1, <1>2, <1>3, PTL DEF Spec

-----------------------------------------------------------------------------
(* Waiting.  The quota lease of pinned comes before that of protected, the *)
(* one of anchor is never held with another, and whoever holds a bucket    *)
(* lease across an await is about to write and waits for nothing.          *)

\* What holding leases, among the quota leases q and the bucket leases t, says
\* of client c when its request is r.
Holds(c, r, q, t) ==
    /\ \A f \in Mark : q[f] = c =>
          /\ r.pc # "idle"
          /\ \A g \in r.need : f = "pinned" /\ g = "protected"
    /\ "anchor" \in r.need => r.need = {"anchor"}
    /\ \A b \in Bucket : t[b] = c => r.pc = "write" /\ r.b = b

LeaseInv == TypeOK /\ \A c \in Client : Holds(c, cl[c], quota, turn)

\* A step of client c that ends in request r and takes nothing from others.
LEMMA StepHolds ==
    ASSUME LeaseInv, TypeOK', NEW c \in Client, NEW r, cl' = [cl EXCEPT ![c] = r],
           \A f \in Mark : quota'[f] \in {quota[f], c, Nobody},
           \A b \in Bucket : turn'[b] \in {turn[b], c, Nobody},
           Holds(c, r, quota', turn')
    PROVE  LeaseInv'
  <1>1. ASSUME NEW d \in Client PROVE Holds(d, cl'[d], quota', turn')
    <2>1. CASE d = c
      <3>1. cl'[d] = r
        BY <2>1 DEF LeaseInv, TypeOK
      <3> QED
        BY <2>1, <3>1 DEF Holds
    <2>2. CASE d # c
      <3>1. cl'[d] = cl[d] /\ Holds(d, cl[d], quota, turn)
        BY <2>2 DEF LeaseInv, TypeOK
      <3>2. \A f \in Mark : quota'[f] = d => quota[f] = d
        BY <2>2, NobodyAssumption
      <3>3. \A b \in Bucket : turn'[b] = d => turn[b] = d
        BY <2>2, NobodyAssumption
      <3> QED
        BY <3>1, <3>2, <3>3 DEF Holds
    <2> QED
      BY <2>1, <2>2
  <1> QED
    BY <1>1 DEF LeaseInv

LEMMA ReturnHolds ==
    ASSUME LeaseInv, TypeOK', NEW c \in Client, Return(c)
    PROVE  LeaseInv'
  <1>1. cl' = [cl EXCEPT ![c] = Idle]
    BY DEF Return
  <1>2. /\ \A f \in Mark : quota'[f] \in {quota[f], c, Nobody} /\ quota'[f] # c
        /\ \A b \in Bucket : turn'[b] \in {turn[b], c, Nobody} /\ turn'[b] # c
    BY NobodyAssumption DEF Return
  <1>3. Idle.need = {}
    BY DEF Idle
  <1>4. Holds(c, Idle, quota', turn')
    BY <1>2, <1>3 DEF Holds
  <1> QED
    BY <1>1, <1>2, <1>4, StepHolds

\* A step that leaves the leases alone and does not interrupt a write.
LEMMA GotoHolds ==
    ASSUME LeaseInv, TypeOK', NEW c \in Client, NEW pc, Goto(c, pc),
           pc # "idle", cl[c].pc # "write", UNCHANGED <<quota, turn>>
    PROVE  LeaseInv'
  <1> DEFINE r == [cl[c] EXCEPT !.pc = pc]
  <1>1. Holds(c, cl[c], quota, turn) /\ cl[c] \in Request
    BY DEF LeaseInv, TypeOK, Request
  <1>2. r.pc = pc /\ r.need = cl[c].need /\ r.b = cl[c].b
    BY <1>1 DEF Request
  <1>3. cl' = [cl EXCEPT ![c] = r]
    BY DEF Goto
  <1> HIDE DEF r
  <1>4. Holds(c, r, quota', turn')
    BY <1>1, <1>2 DEF Holds
  <1> QED
    BY <1>3, <1>4, StepHolds

\* A client that starts a request holds nothing yet.
LEMMA BeginHolds ==
    ASSUME LeaseInv, TypeOK', NEW c \in Client,
           NEW op, NEW pc, NEW b, NEW set, NEW clear, NEW gain, NEW need,
           Begin(c, op, pc, b, set, clear, gain, need),
           "anchor" \in need => need = {"anchor"}
    PROVE  LeaseInv'
  <1> DEFINE r == [pc |-> pc, op |-> op, b |-> b, seen |-> mem[b],
                   set |-> set, clear |-> clear, gain |-> gain, need |-> need]
  <1>1. cl' = [cl EXCEPT ![c] = r] /\ UNCHANGED <<quota, turn>> /\ cl[c].pc = "idle"
    BY DEF Begin
  <1>2. Holds(c, cl[c], quota, turn)
    BY DEF LeaseInv
  <1>3. /\ \A f \in Mark : quota[f] # c
        /\ \A x \in Bucket : turn[x] # c
    BY <1>1, <1>2 DEF Holds
  <1>4. r.need = need
    OBVIOUS
  <1> HIDE DEF r
  <1>5. Holds(c, r, quota', turn')
    BY <1>1, <1>3, <1>4 DEF Holds
  <1> QED
    BY <1>1, <1>5, StepHolds

LEMMA BeginsHold ==
    ASSUME LeaseInv, TypeOK', NEW c \in Client, ClientBegins(c)
    PROVE  LeaseInv'
  <1>1. PICK b \in Bucket :
          \/ \E set, clear \in SUBSET {"pinned", "protected"} : Trace(c, b, set, clear)
          \/ Hold(c, b)
          \/ \E unprotect \in BOOLEAN : Restore(c, b, unprotect)
          \/ SetAnchor(c, b) \/ ReleaseAnchor(c, b)
          \/ \E set, clear \in SUBSET {"pinned", "anchor"} : Direct(c, b, set, clear)
          \/ Decay(c, b)
    BY DEF ClientBegins
  <1>2. ASSUME NEW set \in SUBSET {"pinned", "protected"},
               NEW clear \in SUBSET {"pinned", "protected"}, Trace(c, b, set, clear)
        PROVE  LeaseInv'
    <2> DEFINE need == (set \ mem[b].marks) \cup (clear \cap mem[b].marks)
    <2>1. Begin(c, "trace", IF need = {} THEN "write" ELSE "turns",
                b, set, clear, set \ mem[b].marks, need)
      BY <1>2 DEF Trace
    <2>2. "anchor" \notin need
      OBVIOUS
    <2> HIDE DEF need
    <2> QED
      BY <2>1, <2>2, BeginHolds
  <1>3. CASE Hold(c, b)
    BY <1>3, BeginHolds DEF Hold
  <1>4. ASSUME NEW unprotect \in BOOLEAN, Restore(c, b, unprotect)
        PROVE  LeaseInv'
    <2> DEFINE gain == IF unprotect THEN {} ELSE mem[b].marks \cap {"protected"}
    <2>1. Begin(c, "restore", IF gain = {} THEN "look" ELSE "turns",
                b, {}, IF unprotect THEN {"protected"} ELSE {}, gain, gain)
      BY <1>4 DEF Restore
    <2>2. "anchor" \notin gain
      OBVIOUS
    <2> HIDE DEF gain
    <2> QED
      BY <2>1, <2>2, BeginHolds
  <1>5. CASE SetAnchor(c, b)
    BY <1>5, BeginHolds DEF SetAnchor
  <1>6. CASE ReleaseAnchor(c, b)
    BY <1>6, BeginHolds DEF ReleaseAnchor
  <1>7. ASSUME NEW set \in SUBSET {"pinned", "anchor"},
               NEW clear \in SUBSET {"pinned", "anchor"}, Direct(c, b, set, clear)
        PROVE  LeaseInv'
    BY <1>7, BeginHolds DEF Direct
  <1>8. CASE Decay(c, b)
    BY <1>8, BeginHolds DEF Decay
  <1> QED
    BY <1>1, <1>2, <1>3, <1>4, <1>5, <1>6, <1>7, <1>8

\* The next lease in order: whoever has taken protected no longer wants pinned.
LEMMA TurnHolds ==
    ASSUME LeaseInv, TypeOK', NEW c \in Client, TakeTurn(c)
    PROVE  LeaseInv'
  <1> DEFINE g == NextTurn(c)
             rest == cl[c].need \ {g}
             next == IF rest # {} THEN "turns"
                     ELSE IF cl[c].op = "hold" THEN "check" ELSE "look"
             r == [cl[c] EXCEPT !.need = rest, !.pc = next]
  <1>1. /\ cl[c].pc = "turns"
        /\ quota' = [quota EXCEPT ![g] = c]
        /\ cl' = [cl EXCEPT ![c].need = rest, ![c].pc = next]
        /\ turn' = turn
    BY DEF TakeTurn
  <1>2. /\ cl[c] \in Request /\ cl[c].need # {} /\ Holds(c, cl[c], quota, turn)
        /\ quota \in [Mark -> Client \cup {Nobody}]
    BY <1>1 DEF LeaseInv, TypeOK, Request
  <1>3. g \in cl[c].need /\ g \in Mark
    BY <1>2, NextTurnNeeded DEF Request
  <1>4. /\ r.pc = next /\ r.need = rest /\ r.b = cl[c].b
        /\ cl' = [cl EXCEPT ![c] = r]
    BY <1>1, <1>2 DEF Request
  <1>5. next # "idle"
    OBVIOUS
  <1>6. \A x \in rest : g = "pinned" /\ x = "protected"
    <2> SUFFICES ASSUME NEW x \in rest PROVE g = "pinned" /\ x = "protected"
      OBVIOUS
    <2>1. x \in cl[c].need /\ g \in cl[c].need /\ x # g
      BY <1>3
    <2>2. "anchor" \notin cl[c].need
      BY <1>2, <2>1 DEF Holds
    <2>3. x \in {"pinned", "protected"} /\ g \in {"pinned", "protected"}
      BY <1>2, <2>1, <2>2 DEF Request, Mark
    <2>4. "pinned" \in cl[c].need => g = "pinned"
      BY DEF NextTurn
    <2> HIDE DEF g
    <2> QED
      BY <2>1, <2>3, <2>4
  <1>7. \A f \in Mark : quota'[f] = IF f = g THEN c ELSE quota[f]
    BY <1>1, <1>2
  <1>8. rest \subseteq cl[c].need
    OBVIOUS
  <1>9. "anchor" \notin rest
    BY <1>6
  <1>10. \A b \in Bucket : turn'[b] # c
    BY <1>1, <1>2 DEF Holds
  <1> HIDE DEF g, rest, next, r
  <1>11. Holds(c, r, quota', turn')
    BY <1>2, <1>4, <1>5, <1>6, <1>7, <1>8, <1>9, <1>10 DEF Holds
  <1>12. /\ \A f \in Mark : quota'[f] \in {quota[f], c, Nobody}
         /\ \A b \in Bucket : turn'[b] \in {turn[b], c, Nobody}
    BY <1>1, <1>7
  <1> QED
    BY <1>4, <1>11, <1>12, StepHolds

\* update(anchor=True) keeps the bucket lease from its count to its write.
LEMMA CountHolds ==
    ASSUME LeaseInv, TypeOK', NEW c \in Client, CountAnchors(c)
    PROVE  LeaseInv'
  <1> DEFINE b == cl[c].b
             r == [cl[c] EXCEPT !.pc = "write"]
  <1>1. cl[c].pc = "count"
    BY DEF CountAnchors
  <1>2. CASE Return(c)
    BY <1>2, ReturnHolds
  <1>3. CASE ~Return(c)
    <2>1. turn' = [turn EXCEPT ![b] = c] /\ Goto(c, "write") /\ quota' = quota
      BY <1>3 DEF CountAnchors
    <2>2. /\ Holds(c, cl[c], quota, turn) /\ cl[c] \in Request /\ b \in Bucket
          /\ turn \in [Bucket -> Client \cup {Nobody}]
      BY <1>1 DEF LeaseInv, TypeOK, Request
    <2>3. r.pc = "write" /\ r.need = cl[c].need /\ r.b = b
      BY <2>2 DEF Request
    <2>4. cl' = [cl EXCEPT ![c] = r]
      BY <2>1 DEF Goto
    <2>5. \A x \in Bucket : turn'[x] = IF x = b THEN c ELSE turn[x]
      BY <2>1, <2>2
    <2>6. \A x \in Bucket : turn[x] # c
      BY <1>1, <2>2 DEF Holds
    <2> HIDE DEF b, r
    <2>7. Holds(c, r, quota', turn')
      BY <2>1, <2>2, <2>3, <2>5, <2>6 DEF Holds
    <2> QED
      BY <2>1, <2>4, <2>5, <2>7, StepHolds
  <1> QED
    BY <1>2, <1>3

LEMMA NextHolds == LeaseInv /\ [Next]_vars => LeaseInv'
  <1> SUFFICES ASSUME LeaseInv, [Next]_vars PROVE LeaseInv'
    OBVIOUS
  <1>1. TypeOK'
    BY NextType DEF LeaseInv
  <1>2. ASSUME NEW c \in Client, ClientStep(c) PROVE LeaseInv'
    <2>1. CASE Look(c) \/ Check(c)
      BY <1>1, <2>1, GotoHolds, ReturnHolds DEF Look, Check
    <2>2. CASE WriteUpdate(c) \/ WriteHold(c) \/ WriteRestore(c) \/ WriteDecay(c)
      BY <1>1, <2>2, ReturnHolds DEF WriteUpdate, WriteHold, WriteRestore, WriteDecay
    <2> QED
      BY <1>1, <1>2, <2>1, <2>2, TurnHolds, CountHolds DEF ClientStep
  <1>3. ASSUME NEW c \in Client, TurnTimeout(c) PROVE LeaseInv'
    BY <1>1, <1>3, ReturnHolds DEF TurnTimeout
  <1>4. CASE UNCHANGED <<quota, turn, cl>>
    BY <1>1, <1>4 DEF LeaseInv, Holds
  <1>5. ASSUME NEW b \in Bucket,
               \/ \E marks \in SUBSET Mark : Create(b, marks)
               \/ Archive(b) \/ Activate(b) \/ Delete(b)
        PROVE  UNCHANGED <<quota, turn, cl>>
    BY <1>5 DEF Create, Archive, Activate, Delete, OneWrite
  <1> QED
    BY <1>1, <1>2, <1>3, <1>4, <1>5, BeginsHold DEF Next, vars

LEMMA InitHolds == Init => LeaseInv
  <1> SUFFICES ASSUME Init PROVE LeaseInv
    OBVIOUS
  <1>1. ASSUME NEW c \in Client PROVE Holds(c, cl[c], quota, turn)
    <2>1. /\ \A f \in Mark : quota[f] = Nobody
          /\ \A b \in Bucket : turn[b] = Nobody
          /\ cl[c].need = {}
      BY DEF Init, Idle
    <2> QED
      BY <2>1, NobodyAssumption DEF Holds
  <1> QED
    BY <1>1, InitType DEF LeaseInv

\* How far client c is from its write: each wait is for somebody nearer.
Distance(c) ==
    CASE cl[c].pc = "turns" /\ "pinned" \in cl[c].need -> 3
      [] cl[c].pc = "turns" /\ "pinned" \notin cl[c].need -> 2
      [] cl[c].pc # "turns" /\ ~(cl[c].pc = "write" /\ turn[cl[c].b] = c) -> 1
      [] OTHER -> 0

LEMMA WaitsForNearer ==
    ASSUME LeaseInv, NEW c \in Client, NEW d \in Client, WaitsFor(c, d)
    PROVE  Distance(d) < Distance(c)
  <1>1. /\ Holds(c, cl[c], quota, turn) /\ cl[c] \in Request
        /\ Holds(d, cl[d], quota, turn) /\ cl[d] \in Request
    BY DEF LeaseInv, TypeOK, Request
  <1>2. CASE cl[c].pc = "turns" /\ quota[NextTurn(c)] = d
    <2> DEFINE f == NextTurn(c)
    <2>1. cl[c].need # {}
      BY <1>2 DEF LeaseInv, TypeOK
    <2>2. f \in cl[c].need /\ f \in Mark
      BY <1>1, <2>1, NextTurnNeeded DEF Request
    <2>3. /\ f = "pinned" <=> "pinned" \in cl[c].need
          /\ quota[f] = d
      BY <1>2, <2>2 DEF NextTurn
    <2>4. \A g \in cl[d].need : f = "pinned" /\ g = "protected"
      BY <1>1, <2>2, <2>3 DEF Holds
    <2>5. cl[d].pc = "turns" => cl[d].need # {}
      BY DEF LeaseInv, TypeOK
    <2> HIDE DEF f
    <2>6. CASE f = "pinned"
      <3>1. "pinned" \notin cl[d].need
        BY <2>4
      <3>2. Distance(c) = 3
        BY <1>2, <2>3, <2>6 DEF Distance
      <3>3. Distance(d) \in {0, 1, 2}
        BY <3>1 DEF Distance
      <3> QED
        BY <3>2, <3>3
    <2>7. CASE f # "pinned"
      <3>1. cl[d].need = {}
        BY <2>4, <2>7
      <3>2. cl[d].pc # "turns"
        BY <2>5, <3>1
      <3>3. Distance(c) = 2
        BY <1>2, <2>3, <2>7 DEF Distance
      <3>4. Distance(d) \in {0, 1}
        BY <3>2 DEF Distance
      <3> QED
        BY <3>3, <3>4
    <2> QED
      BY <2>6, <2>7
  <1>3. CASE /\ cl[c].pc \in {"count", "write"} /\ turn[cl[c].b] = d
             /\ cl[c].pc = "write" => d # c
    <2>1. cl[c].b \in Bucket
      BY <1>3 DEF LeaseInv, TypeOK
    <2>2. cl[d].pc = "write" /\ cl[d].b = cl[c].b /\ turn[cl[d].b] = d
      BY <1>1, <1>3, <2>1 DEF Holds
    <2>3. Distance(d) = 0
      BY <2>2 DEF Distance
    <2>4. Distance(c) = 1
      BY <1>3, <2>2 DEF Distance
    <2> QED
      BY <2>3, <2>4
  <1> QED
    BY <1>2, <1>3 DEF WaitsFor

\* trace takes two quota leases and then a bucket lease, set_anchor one of
\* each, update(anchor=True) a bucket lease across its count: whatever requests
\* run, for any number of handlers, no set of them waits in a circle.
THEOREM NoRequestsDeadlock == Spec => []NoCircularWait
  <1>1. LeaseInv => NoCircularWait
    <2> SUFFICES ASSUME LeaseInv, NEW S \in (SUBSET Client) \ {{}}
                 PROVE  \E c \in S : \A d \in S : ~WaitsFor(c, d)
      BY DEF NoCircularWait
    <2>1. \A c \in S : Distance(c) \in {0, 1, 2, 3}
      BY DEF Distance
    <2>2. PICK c \in S : \A d \in S : Distance(c) <= Distance(d)
      <3>1. CASE \E c \in S : Distance(c) = 0
        BY <2>1, <3>1
      <3>2. CASE (\A c \in S : Distance(c) # 0) /\ \E c \in S : Distance(c) = 1
        BY <2>1, <3>2
      <3>3. CASE (\A c \in S : Distance(c) \notin {0, 1}) /\ \E c \in S : Distance(c) = 2
        BY <2>1, <3>3
      <3>4. CASE \A c \in S : Distance(c) = 3
        BY <3>4
      <3> QED
        BY <2>1, <3>1, <3>2, <3>3, <3>4
    <2>3. \A d \in S : ~(Distance(d) < Distance(c))
      BY <2>1, <2>2
    <2> QED
      BY <2>3, WaitsForNearer
  <1> QED
    BY <1>1, InitHolds, NextHolds, PTL DEF Spec

-----------------------------------------------------------------------------
(* The tools implement AtomicMarks: each write changes the marks of one    *)
(* active memory, and what it gains had room when it was written, because  *)
(* the handler's claim to that room still stood (CapInv).                  *)

LEMMA CarryingIsMarked ==
    ASSUME NEW f
    PROVE  Atomic!Carrying(f) = Marked(f)
  BY DEF Atomic!Carrying, Marked, Active

LEMMA CountsAlike ==
    ASSUME NEW S
    PROVE  Atomic!Cardinality(S) = Cardinality(S)
  BY DEF Atomic!Cardinality, Cardinality

\* A step that rewrites one memory to m.
LEMMA AssignsOne ==
    ASSUME TypeOK, NEW b \in Bucket, NEW m \in Memory, mem' = [mem EXCEPT ![b] = m],
           m.status = "live" =>
               /\ ~({"pinned", "protected"} \subseteq m.marks)
               /\ ~({"protected", "anchor"} \subseteq m.marks)
               /\ \A f \in m.marks \ Active(b) : Cardinality(Marked(f)) < Limit(f)
    PROVE  Atomic!Next
  <1> DEFINE marks == IF m.status = "live" THEN m.marks ELSE {}
  <1>1. marks \in SUBSET Mark
    BY DEF Memory
  <1>2. [x \in Bucket |-> Active(x)]' = [[x \in Bucket |-> Active(x)] EXCEPT ![b] = marks]
    BY DEF Active, TypeOK
  <1>3. \A pair \in {{"pinned", "protected"}, {"protected", "anchor"}} : ~(pair \subseteq marks)
    OBVIOUS
  <1>4. \A f \in marks \ Active(b) :
            Atomic!Cardinality(Atomic!Carrying(f)) < [g \in Mark |-> Limit(g)][f]
    BY <1>1, CarryingIsMarked, CountsAlike
  <1>5. [x \in Bucket |-> Active(x)][b] = Active(b)
    OBVIOUS
  <1> HIDE DEF marks
  <1>6. Atomic!Assign(b, marks)
    BY <1>2, <1>3, <1>4, <1>5 DEF Atomic!Assign
  <1> QED
    BY <1>1, <1>6 DEF Atomic!Next

LEMMA UpdateAssigns ==
    ASSUME \A f \in Mark : CapInv(f), NEW c \in Client, WriteUpdate(c)
    PROVE  mem' = mem \/ Atomic!Next
  <1> DEFINE b == cl[c].b
             final == (mem[b].marks \cup cl[c].set) \ cl[c].clear
             marks == IF "pinned" \in cl[c].set /\ "anchor" \notin cl[c].set
                      THEN final \ {"anchor"} ELSE final
             m == [mem[b] EXCEPT !.marks = marks]
  <1>1. TypeOK /\ \A f \in Mark : Claim(f, c, cl[c])
    BY DEF CapInv, Mark
  <1>2. cl[c].pc = "write" /\ b \in Bucket
    BY <1>1 DEF WriteUpdate, MayWrite, TypeOK
  <1>3. mem[b] \in Memory /\ cl[c].set \in SUBSET Mark
    BY <1>1, <1>2 DEF TypeOK
  <1>4. CASE ~Allows(b, cl[c].set, cl[c].clear)
    BY <1>4 DEF WriteUpdate
  <1>5. CASE Allows(b, cl[c].set, cl[c].clear)
    <2>1. mem' = [mem EXCEPT ![b] = m]
      BY <1>1, <1>2, <1>5 DEF WriteUpdate, Updated, TypeOK
    <2>2. /\ mem[b].status = "live"
          /\ ~({"pinned", "protected"} \subseteq final)
          /\ ~({"anchor", "protected"} \subseteq final)
      BY <1>5 DEF Allows
    <2>3. marks \subseteq final /\ marks \in SUBSET Mark
      BY <1>3 DEF Memory
    <2>4. m \in Memory /\ m.status = "live" /\ m.marks = marks
      BY <1>3, <2>2, <2>3 DEF Memory
    <2>5. Active(b) = mem[b].marks
      BY <2>2 DEF Active
    <2>6. ASSUME NEW f \in marks \ Active(b) PROVE Cardinality(Marked(f)) < Limit(f)
      <3>1. f \in cl[c].set /\ f \in Mark
        BY <2>3, <2>5
      <3> QED
        BY <1>1, <1>2, <3>1 DEF Claim
    <2> HIDE DEF b, final, marks, m
    <2> QED
      BY <1>1, <1>2, <2>1, <2>2, <2>3, <2>4, <2>6, AssignsOne
  <1> QED
    BY <1>4, <1>5

LEMMA HoldAssigns ==
    ASSUME \A f \in Mark : CapInv(f), NEW c \in Client, WriteHold(c)
    PROVE  mem' = mem \/ Atomic!Next
  <1> DEFINE m == [status |-> "live", marks |-> {"pinned"}]
  <1>1. TypeOK /\ Claim("pinned", c, cl[c]) /\ "pinned" \in Mark
    BY DEF CapInv, Mark
  <1>2. cl[c].pc = "write" /\ cl[c].op = "hold" /\ cl[c].b \in Bucket
    BY <1>1 DEF WriteHold, MayWrite, TypeOK
  <1>3. mem' = mem \/ mem' = [mem EXCEPT ![cl[c].b] = m]
    BY DEF WriteHold
  <1>4. Cardinality(Marked("pinned")) < Limit("pinned")
    BY <1>1, <1>2 DEF Claim
  <1>5. m \in Memory /\ m.marks = {"pinned"}
    BY DEF Memory, Mark
  <1> HIDE DEF m
  <1> QED
    BY <1>1, <1>2, <1>3, <1>4, <1>5, AssignsOne

\* A memory that leaves the active ones gives its marks up.
LEMMA LeavingAssigns ==
    ASSUME TypeOK, NEW b \in Bucket, NEW s \in {"archived", "deleted"},
           mem' = [mem EXCEPT ![b].status = s]
    PROVE  Atomic!Next
  <1> DEFINE m == [mem[b] EXCEPT !.status = s]
  <1>1. m \in Memory /\ m.status # "live"
    BY DEF TypeOK, Memory
  <1>2. mem' = [mem EXCEPT ![b] = m]
    BY DEF TypeOK
  <1> HIDE DEF m
  <1> QED
    BY <1>1, <1>2, AssignsOne

LEMMA NextAssigns ==
    ASSUME Ops \cap {"restate", "activate", "directCreate", "direct", "restore"} = {},
           \A f \in Mark : CapInv(f), [Next]_vars
    PROVE  mem' = mem \/ Atomic!Next
  <1>1. TypeOK
    BY DEF CapInv, Mark
  <1>2. ASSUME NEW c \in Client, ClientBegins(c) PROVE mem' = mem
    BY <1>2 DEF ClientBegins, Trace, Hold, Restore, SetAnchor, ReleaseAnchor,
                Direct, Decay, Begin
  <1>3. ASSUME NEW c \in Client, ClientStep(c) PROVE mem' = mem \/ Atomic!Next
    <2>1. CASE TakeTurn(c) \/ Look(c) \/ Check(c) \/ CountAnchors(c)
      BY <2>1 DEF TakeTurn, Look, Check, CountAnchors
    <2>2. CASE WriteRestore(c)
      <3>1. cl[c].op = "restore" /\ cl[c].pc = "write"
        BY <2>2 DEF WriteRestore, MayWrite
      <3>2. Claim("pinned", c, cl[c])
        BY DEF CapInv, Mark
      <3> QED
        BY <3>1, <3>2 DEF Claim
    <2>3. CASE WriteDecay(c)
      <3>1. cl[c].b \in Bucket
        BY <1>1, <2>3 DEF WriteDecay, MayWrite, TypeOK
      <3>2. mem' = mem \/ mem' = [mem EXCEPT ![cl[c].b].status = "archived"]
        BY <2>3 DEF WriteDecay, Archived
      <3> QED
        BY <1>1, <3>1, <3>2, LeavingAssigns
    <2> QED
      BY <1>3, <2>1, <2>2, <2>3, UpdateAssigns, HoldAssigns DEF ClientStep
  <1>4. ASSUME NEW c \in Client, TurnTimeout(c) PROVE mem' = mem
    BY <1>4 DEF TurnTimeout
  <1>5. ASSUME NEW b \in Bucket, NEW marks \in SUBSET Mark, Create(b, marks)
        PROVE  Atomic!Next
    <2> DEFINE m == [status |-> "live", marks |-> {}]
    <2>1. mem' = [mem EXCEPT ![b] = m]
      BY <1>5 DEF Create, OneWrite
    <2>2. m \in Memory /\ m.marks = {}
      BY DEF Memory
    <2> HIDE DEF m
    <2> QED
      BY <1>1, <2>1, <2>2, AssignsOne
  <1>6. ASSUME NEW b \in Bucket, Archive(b) \/ Delete(b) PROVE mem' = mem \/ Atomic!Next
    <2>1. \/ mem' = mem
          \/ mem' = [mem EXCEPT ![b].status = "archived"]
          \/ mem' = [mem EXCEPT ![b].status = "deleted"]
      BY <1>6 DEF Archive, Archived, Delete
    <2> QED
      BY <1>1, <2>1, LeavingAssigns
  <1>7. ASSUME NEW b \in Bucket, Activate(b) PROVE FALSE
    BY <1>7 DEF Activate, OneWrite
  <1> QED
    BY <1>2, <1>3, <1>4, <1>5, <1>6, <1>7 DEF Next, vars

\* MarksSetAtomically: for tools that count first and write several awaits
\* later, any number of them at once, the active memories' marks change as by
\* an atomic test for room and write, one memory at a time.
THEOREM ToolsSetMarksAtomically ==
    ASSUME Ops \cap {"restate", "activate", "directCreate", "direct", "restore"} = {}
    PROVE  Spec => MarksSetAtomically
  <1> DEFINE Inv == \A f \in Mark : CapInv(f)
  <1>1. Init => Inv
    BY InitCap
  <1>2. Inv /\ [Next]_vars => Inv'
    <2>1. \A f \in Mark : Ops \cap Bypass(f) = {}
      BY DEF Bypass
    <2> QED
      BY <2>1, NextKeeps
  <1>3. Init => Atomic!Init
    BY DEF Init, Atomic!Init, Active, Absent
  <1>4. Inv /\ [Next]_vars => [Atomic!Next]_([b \in Bucket |-> Active(b)])
    <2> SUFFICES ASSUME Inv, [Next]_vars
                 PROVE  Atomic!Next \/ UNCHANGED [b \in Bucket |-> Active(b)]
      OBVIOUS
    <2>1. mem' = mem => UNCHANGED [b \in Bucket |-> Active(b)]
      BY DEF Active
    <2> QED
      BY <2>1, NextAssigns
  <1> HIDE DEF Inv
  <1> QED
    BY <1>1, <1>2, <1>3, <1>4, PTL DEF Spec, MarksSetAtomically, Atomic!Spec
=============================================================================

-------------------------- MODULE OAuthGrantsProofs --------------------------
(***************************************************************************)
(* Proofs about OAuthGrants, for any number of requests, clients, codes    *)
(* and tokens: types, and that no grant outlives its password, no code is  *)
(* late, nothing is used twice, granted clients are kept and no change of  *)
(* a password or an answer is lost, through failed writes, restarts and    *)
(* passwords that come and go with the environment.                        *)
(*                                                                         *)
(* The argument.  Memory and files say the same between any two steps      *)
(* (Mirrored), so a restart loses codes and requests only.  What a request *)
(* has verified is still true if its generation is the current one         *)
(* (Knows).  What was granted is of the password in force or of one that   *)
(* only a restart replaced (Good).  The holder of the guard has emptied the registries that it    *)
(* has passed, and nobody else fills them (Cleared).  Ids are given out    *)
(* once (Fresh), and what grants tokens belongs to an active client, or    *)
(* one whose time is over (Consented).                                     *)
(***************************************************************************)
EXTENDS OAuthGrants, TLAPS

Verifying == {"verify", "login", "authorize", "change", "recover", "answer"}
Changing == {"revoke", "save", "session"}

Request == [pc : {"idle", "activate", "exchange", "refresh"} \cup Verifying \cup Changing,
            kind : {"none", "login", "authorize", "change", "recover"},
            source : {"none", "environment", "password", "answer"}, value : Nat, generation : Nat,
            item : Nat, under : Nat, over : Nat, late : BOOLEAN]
Code == [id : 1..MaxIds, client : Client, given : BOOLEAN, generation : Nat, under : Nat,
         late : BOOLEAN]

-----------------------------------------------------------------------------
(* The inductive invariant *)

\* Every file says what memory says.
Mirrored == disk = [hash |-> disk.hash, answer |-> disk.answer, sessions |-> sessions,
                    access |-> access, refresh |-> refresh, clients |-> clients]

TypedData ==
    /\ disk.hash \in Nat /\ disk.answer \in Nat
    /\ sessions \subseteq Nat /\ access \subseteq Nat
    /\ refresh \subseteq Refresh /\ codes \subseteq Code
    /\ clients = [c \in DOMAIN clients |-> clients[c]]
    /\ generation \in Nat /\ ids \in 1..MaxIds
    /\ used \in [1..MaxIds -> Nat]
    /\ env \in Nat /\ left \subseteq Nat

\* The passwords whose grants may be good.
Good == {Password} \cup left

\* Everything granted is of one of the passwords P.
Current(P, ss, as, cs, rs) ==
    /\ ss \subseteq P /\ as \subseteq P
    /\ \A c \in cs : c.under \in P
    /\ \A r \in rs : r.under \in P

\* Codes cs, refresh tokens rs and clients ks have ids up to n, all different,
\* and those of codes and tokens are not used up.
Fresh(cs, rs, ks, n, u) ==
    /\ \A c \in cs : c.id <= n /\ u[c.id] = 0
    /\ \A r \in rs : r.id <= n /\ u[r.id] = 0
    /\ \A c, d \in cs : c.id = d.id => c = d
    /\ \A r, q \in rs : r.id = q.id => r = q
    /\ \A c \in cs, r \in rs : c.id # r.id
    /\ DOMAIN ks \subseteq 1..n
    /\ \A i \in 1..MaxIds : u[i] <= 1 /\ (i > n => u[i] = 0)

\* Client c is active among the clients ks, or one of those that are gone.
Active(ks, gone, c) == c \in gone \/ (c \in DOMAIN ks /\ ks[c] = "active")

\* Codes that were handed out, and refresh tokens, belong to active clients.
Consented(cs, rs, ks, gone) ==
    /\ \A c \in cs : c.given => Active(ks, gone, c.client)
    /\ \A r \in rs : Active(ks, gone, r.client)

\* No client comes back after its time.
Departed(gone, ks, n) == gone \subseteq (1..n) \ DOMAIN ks

DataOK ==
    /\ Mirrored
    /\ TypedData
    /\ Current(Good, sessions, access, codes, refresh)
    /\ Fresh(codes, refresh, clients, ids, used)
    /\ Consented(codes, refresh, clients, expired)
    /\ Departed(expired, clients, ids)
    /\ \A c \in codes : ~c.late

\* The password and the answer in their file.
InFile == <<disk.hash, disk.answer>>

\* What request r has verified holds in generation g, with s in the file.
Knows(r, g, s) ==
    /\ r.generation <= g
    /\ r.late => r.generation < g
    /\ r.pc \in {"revoke", "save"} => <<r.under, r.over>> = s
    /\ r.pc \in Verifying /\ r.generation = g => <<r.under, r.over>> = s
    /\ r.pc = "verify" => r.kind # "none"
    /\ r.pc = "authorize" => r.kind = "authorize"
    /\ r.kind = "authorize" => r.item \in 1..MaxIds

\* What it has in hand, when the codes are cs and n ids are given out.
Hand(r, cs, n) ==
    /\ r.pc = "activate" => r.value <= n /\ \A c \in cs : c.id = r.value => c.client = r.item
    /\ r.pc = "exchange" => r.item <= n /\ \A c \in cs : c.id = r.item => c.given

\* What it has emptied.
Cleared(r, ss, as, cs, rs) ==
    /\ r.pc \in {"revoke", "save"} => ss = {}
    /\ r.pc = "save" => as = {} /\ cs = {} /\ rs = {}

IInv ==
    /\ DataOK
    /\ guard \in Handler \cup {Nobody}
    /\ req \in [Handler -> Request]
    /\ \A h \in Handler :
         /\ req[h].pc \in Changing <=> guard = h
         /\ Knows(req[h], generation, InFile)
         /\ Hand(req[h], codes, ids)
         /\ Cleared(req[h], sessions, access, codes, refresh)
         /\ req[h].pc = "save" => \A x \in Handler : req[x].generation < generation

-----------------------------------------------------------------------------
(* Frames *)

LEMMA IdleOK ==
    /\ Idle \in Request /\ Idle.pc = "idle" /\ Idle.generation = 0
    /\ \A g \in Nat : \A s : Knows(Idle, g, s)
    /\ \A cs, n : Hand(Idle, cs, n)
    /\ \A ss, as, cs, rs : Cleared(Idle, ss, as, cs, rs)
  BY DEF Idle, Request, Verifying, Changing, Knows, Hand, Cleared

LEMMA GoodKept ==
    ASSUME InFile' = InFile, env' = env, left' = left
    PROVE  Good' = Good /\ disk'.hash = disk.hash /\ disk'.answer = disk.answer
  <1>1. disk'.hash = disk.hash /\ disk'.answer = disk.answer
    BY DEF InFile
  <1> QED
    BY <1>1 DEF Good, Password

LEMMA PasswordGood == TypedData => Password \in Good /\ Good \subseteq Nat
  BY DEF TypedData, Good, Password

\* Ids may be given out to others.
LEMMA FreshGrows ==
    ASSUME NEW cs \in SUBSET Code, NEW rs \in SUBSET Refresh, NEW ks, NEW n \in Nat, NEW m \in Nat,
           n <= m, NEW u \in [1..MaxIds -> Nat], Fresh(cs, rs, ks, n, u)
    PROVE  Fresh(cs, rs, ks, m, u)
  <1>1. \A c \in cs : c.id \in Nat /\ c.id <= m
    BY BoundAssumption DEF Fresh, Code
  <1>2. \A x \in rs : x.id \in Nat /\ x.id <= m
    BY BoundAssumption DEF Fresh, Refresh
  <1>3. DOMAIN ks \subseteq 1..m /\ \A i \in 1..MaxIds : u[i] <= 1 /\ (i > m => u[i] = 0)
    BY BoundAssumption DEF Fresh
  <1> QED
    BY <1>1, <1>2, <1>3 DEF Fresh

\* Codes are made, handed out and dropped: what others have in hand stays true.
Follows(cs, n, ds) ==
    \A d \in ds : \/ d.id > n
                  \/ \E c \in cs : c.id = d.id /\ c.client = d.client /\ (c.given => d.given)

LEMMA HandKept ==
    ASSUME NEW r \in Request, NEW cs \in SUBSET Code, NEW ds \in SUBSET Code,
           NEW n \in Nat, NEW m \in Nat, n <= m, Follows(cs, n, ds), Hand(r, cs, n)
    PROVE  Hand(r, ds, m)
  <1>1. r.value \in Nat /\ r.item \in Nat
    BY DEF Request
  <1>2. \A d \in ds : d.id \in Nat
    BY DEF Code
  <1>3. r.pc = "activate" => r.value <= m /\ \A d \in ds : d.id = r.value => d.client = r.item
    BY <1>1, <1>2 DEF Hand, Follows
  <1>4. r.pc = "exchange" => r.item <= m /\ \A d \in ds : d.id = r.item => d.given
    BY <1>1, <1>2 DEF Hand, Follows
  <1> QED
    BY <1>3, <1>4 DEF Hand

\* Registries only shrink while somebody else holds the guard.
Shrinks ==
    /\ sessions' \subseteq sessions /\ access' \subseteq access /\ refresh' \subseteq refresh
    /\ codes = {} => codes' = {}

\* What a request knows and has survives a step in which it takes no part.
LEMMA OthersKeep ==
    ASSUME IInv, DataOK', NEW x \in Handler, req'[x] = req[x], generation' = generation,
           InFile' = InFile, ids <= ids', Follows(codes, ids, codes'),
           guard = x => Shrinks
    PROVE  /\ Knows(req'[x], generation', InFile')
           /\ Hand(req'[x], codes', ids')
           /\ Cleared(req'[x], sessions', access', codes', refresh')
  <1>1. /\ req[x] \in Request /\ Knows(req[x], generation, InFile)
        /\ Hand(req[x], codes, ids) /\ Cleared(req[x], sessions, access, codes, refresh)
        /\ req[x].pc \in Changing <=> guard = x
    BY DEF IInv
  <1>2. codes \in SUBSET Code /\ codes' \in SUBSET Code /\ ids \in Nat /\ ids' \in Nat
    BY DEF IInv, DataOK, TypedData
  <1>3. Hand(req[x], codes', ids')
    BY <1>1, <1>2, HandKept
  <1>4. Cleared(req[x], sessions', access', codes', refresh')
    <2>1. CASE guard = x
      BY <1>1, <2>1 DEF Cleared, Shrinks
    <2>2. CASE guard # x
      BY <1>1, <2>2 DEF Cleared, Changing
    <2> QED
      BY <2>1, <2>2
  <1> QED
    BY <1>1, <1>3, <1>4

\* A step of request h, which becomes r.
LEMMA RequestStep ==
    ASSUME IInv, DataOK', NEW h \in Handler, NEW r \in Request, req' = [req EXCEPT ![h] = r],
           generation' = generation, InFile' = InFile, ids <= ids',
           Follows(codes, ids, codes'),
           guard \notin {h, Nobody} => Shrinks,
           Knows(r, generation, InFile), Hand(r, codes', ids'),
           Cleared(r, sessions', access', codes', refresh'),
           r.pc \in Changing <=> guard' = h,
           guard' = guard \/ (guard \in {h, Nobody} /\ guard' \in {h, Nobody}),
           r.pc = "save" => req[h].pc = "save",
           r.generation \in {0, req[h].generation} \/ guard = Nobody
    PROVE  IInv'
  <1>1. /\ req \in [Handler -> Request] /\ guard \in Handler \cup {Nobody}
        /\ \A x \in Handler : req[x].pc \in Changing <=> guard = x
        /\ Nobody \notin Handler
    BY GuardAssumption DEF IInv
  <1>2. req' \in [Handler -> Request] /\ guard' \in Handler \cup {Nobody}
    BY <1>1
  <1>3. req'[h] = r /\ \A x \in Handler : x # h => req'[x] = req[x]
    BY <1>1
  <1>4. ASSUME NEW x \in Handler
        PROVE  /\ req'[x].pc \in Changing <=> guard' = x
               /\ Knows(req'[x], generation', InFile')
               /\ Hand(req'[x], codes', ids')
               /\ Cleared(req'[x], sessions', access', codes', refresh')
    <2>1. CASE x = h
      BY <1>3, <2>1
    <2>2. CASE x # h
      <3>1. guard = x => Shrinks
        BY <1>1, <2>2
      <3>2. req'[x].pc \in Changing <=> guard' = x
        BY <1>1, <1>3, <2>2
      <3> QED
        BY <1>3, <2>2, <3>1, <3>2, OthersKeep
    <2> QED
      BY <2>1, <2>2
  <1>5. ASSUME NEW y \in Handler, req'[y].pc = "save", NEW x \in Handler
        PROVE  req'[x].generation < generation'
    <2>1. req[y].pc = "save" /\ guard = y
      BY <1>1, <1>3, <1>5 DEF Changing
    <2>2. \A z \in Handler : req[z].generation < generation
      BY <2>1 DEF IInv
    <2>3. guard # Nobody /\ generation \in Nat /\ \A z \in Handler : req[z].generation \in Nat
      BY <1>1, <2>1 DEF IInv, DataOK, TypedData, Request
    <2>4. CASE x # h
      BY <1>3, <2>2, <2>4
    <2>5. CASE x = h
      <3>1. r.generation \in {0, req[h].generation}
        BY <2>3
      <3>2. req[h].generation < generation /\ req[h].generation \in Nat
        BY <2>2, <2>3
      <3> QED
        BY <1>3, <2>3, <2>5, <3>1, <3>2
    <2> QED
      BY <2>4, <2>5
  <1> QED
    BY <1>2, <1>4, <1>5 DEF IInv

\* A step in which no request takes part.
LEMMA WorldStep ==
    ASSUME IInv, DataOK', UNCHANGED <<req, guard, generation>>, InFile' = InFile,
           ids <= ids', Follows(codes, ids, codes'), Shrinks
    PROVE  IInv'
  <1>1. ASSUME NEW x \in Handler
        PROVE  /\ Knows(req'[x], generation', InFile')
               /\ Hand(req'[x], codes', ids')
               /\ Cleared(req'[x], sessions', access', codes', refresh')
    BY OthersKeep
  <1> QED
    BY <1>1 DEF IInv

\* A request that ends, also one that gives the guard back.
LEMMA EndStep ==
    ASSUME IInv, DataOK', NEW h \in Handler, Done(h), generation' = generation,
           InFile' = InFile, ids <= ids', Follows(codes, ids, codes'),
           guard \in {h, Nobody} \/ Shrinks,
           guard' = IF guard = h THEN Nobody ELSE guard
    PROVE  IInv'
  <1>1. generation \in Nat /\ Nobody # h /\ guard' # h
    BY GuardAssumption DEF IInv, DataOK, TypedData
  <1>2. Idle.pc \notin Changing /\ Idle.pc # "save"
    BY IdleOK DEF Changing
  <1>3. guard' = guard \/ (guard \in {h, Nobody} /\ guard' \in {h, Nobody})
    OBVIOUS
  <1> QED
    BY <1>1, <1>2, <1>3, IdleOK, RequestStep DEF Done

\* Nothing but requests changes.
LEMMA SameData ==
    ASSUME IInv, UNCHANGED <<disk, memory, env, ids, used, left, expired>>
    PROVE  /\ DataOK' /\ InFile' = InFile /\ generation' = generation
           /\ ids <= ids' /\ Follows(codes, ids, codes') /\ Shrinks
  <1>1. ids \in Nat /\ InFile' = InFile
    BY DEF IInv, DataOK, TypedData, InFile
  <1>2. Good' = Good
    BY <1>1, GoodKept
  <1> QED
    BY <1>1, <1>2 DEF IInv, DataOK, Mirrored, TypedData, memory, Follows, Shrinks

-----------------------------------------------------------------------------
(* Verification *)

LEMMA BeginStep ==
    ASSUME IInv, NEW h \in Handler, NEW kind \in {"login", "authorize", "change", "recover"},
           NEW item \in 0..MaxIds, Begin(h, kind, item)
    PROVE  IInv'
  <1> DEFINE source == IF kind = "recover" THEN "answer"
                       ELSE IF env # 0 THEN "environment" ELSE "password"
             r == [pc |-> "verify", kind |-> kind, source |-> source, value |-> Secret(source),
                   generation |-> generation, item |-> item,
                   under |-> disk.hash, over |-> disk.answer, late |-> FALSE]
  <1>1. /\ disk.hash \in Nat /\ disk.answer \in Nat /\ generation \in Nat /\ env \in Nat
        /\ DOMAIN clients \subseteq 1..ids /\ ids \in 1..MaxIds /\ MaxIds \in Nat
    BY BoundAssumption DEF IInv, DataOK, TypedData, Fresh
  <1>2. r \in Request
    BY <1>1 DEF Request, Verifying, Secret
  <1>3. kind = "authorize" => item \in 1..MaxIds
    BY <1>1 DEF Begin
  <1>4. Knows(r, generation, InFile)
    BY <1>1, <1>3 DEF Knows, InFile
  <1>5. Hand(r, codes', ids') /\ Cleared(r, sessions', access', codes', refresh')
    BY DEF Hand, Cleared
  <1>6. r.pc \notin Changing /\ r.pc # "save"
    BY DEF Changing
  <1>7. guard = Nobody /\ guard' = guard /\ req' = [req EXCEPT ![h] = r] /\ h # Nobody
    BY GuardAssumption DEF Begin, GuardFree
  <1>8. UNCHANGED <<disk, memory, env, ids, used, left, expired>>
    BY DEF Begin
  <1> HIDE DEF r
  <1> QED
    BY <1>2, <1>4, <1>5, <1>6, <1>7, <1>8, SameData, RequestStep

LEMMA VerifyStep ==
    ASSUME IInv, NEW h \in Handler, Verify(h)
    PROVE  IInv'
  <1>1. /\ UNCHANGED <<disk, memory, env, ids, used, left, expired>> /\ guard = Nobody /\ guard' = guard
        /\ req[h].pc = "verify" /\ h # Nobody
    BY GuardAssumption DEF Verify, GuardFree
  <1>2. CASE Done(h)
    BY <1>1, <1>2, SameData, EndStep
  <1>3. CASE ProofMatches(h) /\ Goto(h, req[h].kind)
    <2> DEFINE r == [req[h] EXCEPT !.pc = req[h].kind]
    <2>1. req[h] \in Request /\ Knows(req[h], generation, InFile) /\ req[h].generation = generation
      BY <1>3 DEF IInv, ProofMatches
    <2>2. req[h].kind \in {"login", "authorize", "change", "recover"} /\ <<req[h].under, req[h].over>> = InFile
      BY <1>1, <2>1 DEF Knows, Request, Verifying
    <2>3. r \in Request /\ r.pc = req[h].kind
      BY <2>1, <2>2 DEF Request, Verifying
    <2>4. Knows(r, generation, InFile)
      BY <2>1, <2>2, <2>3 DEF Knows, Request
    <2>5. Hand(r, codes', ids') /\ Cleared(r, sessions', access', codes', refresh')
      BY <2>2, <2>3 DEF Hand, Cleared
    <2>6. r.pc \notin Changing /\ r.pc # "save"
      BY <2>2, <2>3 DEF Changing
    <2>7. req' = [req EXCEPT ![h] = r]
      BY <1>3 DEF Goto
    <2> HIDE DEF r
    <2> QED
      BY <1>1, <2>3, <2>4, <2>5, <2>6, <2>7, SameData, RequestStep
  <1> QED
    BY <1>2, <1>3 DEF Verify

LEMMA BeginAnswerStep ==
    ASSUME IInv, NEW h \in Handler, BeginAnswer(h)
    PROVE  IInv'
  <1> DEFINE r == [Idle EXCEPT !.pc = "answer", !.generation = generation, !.under = disk.hash,
                            !.over = disk.answer]
  <1>1. disk.hash \in Nat /\ disk.answer \in Nat /\ generation \in Nat
    BY DEF IInv, DataOK, TypedData
  <1>2. r \in Request /\ r.pc = "answer"
    BY <1>1 DEF Idle, Request, Verifying
  <1>3. Knows(r, generation, InFile)
    BY <1>1 DEF Idle, Knows, InFile
  <1>4. Hand(r, codes', ids') /\ Cleared(r, sessions', access', codes', refresh')
    BY <1>2 DEF Hand, Cleared
  <1>5. r.pc \notin Changing /\ r.pc # "save"
    BY <1>2 DEF Changing
  <1>6. /\ guard = Nobody /\ guard' = guard /\ req' = [req EXCEPT ![h] = r] /\ h # Nobody
        /\ UNCHANGED <<disk, memory, env, ids, used, left, expired>>
    BY GuardAssumption DEF BeginAnswer, GuardFree
  <1> HIDE DEF r
  <1> QED
    BY <1>2, <1>3, <1>4, <1>5, <1>6, SameData, RequestStep

LEMMA PresentStep ==
    ASSUME IInv, NEW h \in Handler, NEW kind \in {"exchange", "refresh"}, NEW id \in 1..MaxIds,
           Present(h, kind, id)
    PROVE  IInv'
  <1> DEFINE r == [Idle EXCEPT !.pc = kind, !.item = id]
  <1>1. MaxIds \in Nat /\ generation \in Nat /\ ids \in Nat
    BY BoundAssumption DEF IInv, DataOK, TypedData
  <1>2. r \in Request /\ r.pc = kind /\ r.item = id /\ r.generation = 0
    <2>1. Idle \in Request
      BY IdleOK
    <2>2. r.pc = kind /\ r.item = id /\ r.generation = 0 /\ r.value = 0 /\ r.under = 0
      BY DEF Idle
    <2>3. id \in Nat /\ kind \in {"exchange", "refresh"}
      BY <1>1
    <2>4. r \in Request
      BY <2>1, <2>3 DEF Request
    <2> QED
      BY <2>2, <2>4
  <1>3. Knows(r, generation, InFile)
    BY <1>1 DEF Idle, Knows, Verifying
  <1>4. Hand(r, codes, ids)
    <2>1. CASE kind = "exchange"
      <3>1. PICK c \in codes : c.id = id /\ c.given
        BY <2>1 DEF Present
      <3>2. c.id <= ids /\ \A d \in codes : d.id = id => d = c
        BY <3>1 DEF IInv, DataOK, Fresh
      <3> QED
        BY <1>2, <2>1, <3>1, <3>2 DEF Hand
    <2>2. CASE kind = "refresh"
      BY <1>2, <2>2 DEF Hand
    <2> QED
      BY <2>1, <2>2
  <1>5. Cleared(r, sessions', access', codes', refresh')
    BY <1>2 DEF Cleared
  <1>6. r.pc \notin Changing /\ r.pc # "save"
    BY <1>2 DEF Changing
  <1>7. /\ req[h].pc = "idle" /\ guard' = guard /\ req' = [req EXCEPT ![h] = r]
        /\ UNCHANGED <<disk, memory, env, ids, used, left, expired>>
    BY DEF Present
  <1>8. guard # h /\ codes' = codes
    BY <1>7 DEF IInv, Changing, memory
  <1> HIDE DEF r
  <1> QED
    BY <1>2, <1>3, <1>4, <1>5, <1>6, <1>7, <1>8, SameData, RequestStep

-----------------------------------------------------------------------------
(* Sessions *)

\* Sessions become ss, in memory and in their file.
LEMMA SessionData ==
    ASSUME IInv, sessions' \subseteq Good, disk' = [disk EXCEPT !.sessions = sessions'],
           UNCHANGED <<access, refresh, clients, codes, generation, env, ids, used, left, expired>>
    PROVE  /\ DataOK' /\ InFile' = InFile /\ ids <= ids' /\ Follows(codes, ids, codes')
           /\ generation' = generation
  <1>1. Mirrored /\ TypedData
    BY DEF IInv, DataOK
  <1>2. Mirrored' /\ InFile' = InFile
    BY <1>1 DEF Mirrored, InFile
  <1>3. Good' = Good /\ disk'.hash = disk.hash /\ disk'.answer = disk.answer /\ Good \subseteq Nat
    BY <1>1, <1>2, GoodKept, PasswordGood
  <1>4. TypedData'
    BY <1>1, <1>3 DEF TypedData
  <1>5. ids <= ids' /\ Follows(codes, ids, codes')
    BY <1>1 DEF TypedData, Follows
  <1> QED
    BY <1>2, <1>3, <1>4, <1>5 DEF IInv, DataOK, Current

LEMMA LoginStep ==
    ASSUME IInv, NEW h \in Handler, Login(h)
    PROVE  IInv'
  <1>1. /\ guard = Nobody /\ guard' = guard /\ Done(h) /\ h # Nobody
        /\ UNCHANGED <<access, refresh, clients, codes, generation, env, ids, used, left, expired>>
    BY GuardAssumption DEF Login, GuardFree
  <1>2. sessions \subseteq Good
    BY DEF IInv, DataOK, Current
  <1>3. /\ DataOK' /\ InFile' = InFile /\ ids <= ids' /\ Follows(codes, ids, codes')
        /\ generation' = generation
    <2>1. CASE UNCHANGED <<disk, sessions>>
      BY <1>1, <2>1, SameData DEF memory
    <2>2. CASE /\ \E kept \in SUBSET sessions : sessions' = kept \cup {Password}
               /\ disk' = [disk EXCEPT !.sessions = sessions']
      <3>1. sessions' \subseteq Good
        BY <1>2, <2>2, PasswordGood DEF IInv, DataOK
      <3> QED
        BY <1>1, <2>2, <3>1, SessionData
    <2> QED
      BY <2>1, <2>2 DEF Login
  <1> QED
    BY <1>1, <1>3, EndStep

LEMMA LogoutStep ==
    ASSUME IInv, Logout
    PROVE  IInv'
  <1>1. sessions \subseteq Good
    BY DEF IInv, DataOK, Current
  <1>2. /\ sessions' \subseteq sessions /\ disk' = [disk EXCEPT !.sessions = sessions']
        /\ UNCHANGED <<access, refresh, clients, codes, generation, guard, req, env, ids, used, left, expired>>
    BY DEF Logout
  <1>3. Shrinks
    BY <1>2 DEF Shrinks
  <1>4. /\ DataOK' /\ InFile' = InFile /\ ids <= ids' /\ Follows(codes, ids, codes')
    BY <1>1, <1>2, SessionData
  <1> QED
    BY <1>2, <1>3, <1>4, WorldStep

-----------------------------------------------------------------------------
(* A password change *)

LEMMA RevokeSessionsStep ==
    ASSUME IInv, NEW h \in Handler, RevokeSessions(h)
    PROVE  IInv'
  <1>1. /\ guard = Nobody /\ req[h].pc \in {"change", "recover"} /\ h # Nobody
        /\ UNCHANGED <<access, refresh, clients, codes, generation, env, ids, used, left, expired>>
    BY GuardAssumption DEF RevokeSessions, GuardFree
  <1>2. CASE Done(h) /\ UNCHANGED <<disk, sessions, guard>>
    BY <1>1, <1>2, SameData, EndStep DEF memory
  <1>3. CASE /\ ProofMatches(h)
             /\ sessions' = {} /\ disk' = [disk EXCEPT !.sessions = {}]
             /\ guard' = h /\ Goto(h, "revoke")
    <2> DEFINE r == [req[h] EXCEPT !.pc = "revoke"]
    <2>1. req[h] \in Request /\ Knows(req[h], generation, InFile) /\ req[h].generation = generation
      BY <1>3 DEF IInv, ProofMatches
    <2>2. r \in Request /\ r.pc = "revoke"
      BY <2>1 DEF Request, Changing
    <2>3. Knows(r, generation, InFile)
      BY <1>1, <2>1 DEF Knows, Request, Verifying
    <2>4. Hand(r, codes', ids') /\ Cleared(r, sessions', access', codes', refresh')
      BY <1>3, <2>2 DEF Hand, Cleared
    <2>5. r.pc \in Changing /\ r.pc # "save" /\ req' = [req EXCEPT ![h] = r]
      BY <1>3, <2>2 DEF Changing, Goto
    <2>6. /\ DataOK' /\ InFile' = InFile /\ ids <= ids' /\ Follows(codes, ids, codes')
          /\ generation' = generation
      BY <1>1, <1>3, SessionData
    <2> HIDE DEF r
    <2> QED
      BY <1>1, <1>3, <2>2, <2>3, <2>4, <2>5, <2>6, RequestStep
  <1> QED
    BY <1>2, <1>3 DEF RevokeSessions

\* The holder of the guard in its last step.
LEMMA NewSessionStep ==
    ASSUME IInv, NEW h \in Handler, NewSession(h)
    PROVE  IInv'
  <1>1. /\ req[h].pc = "session" /\ Release(h) /\ guard = h
        /\ UNCHANGED <<access, refresh, clients, codes, generation, env, ids, used, left, expired>>
    BY DEF NewSession, IInv, Changing
  <1>2. sessions \subseteq Good
    BY DEF IInv, DataOK, Current
  <1>3. /\ DataOK' /\ InFile' = InFile /\ ids <= ids' /\ Follows(codes, ids, codes')
        /\ generation' = generation
    <2>1. CASE UNCHANGED <<disk, sessions>>
      BY <1>1, <2>1, SameData DEF memory
    <2>2. CASE sessions' = sessions \cup {Password} /\ disk' = [disk EXCEPT !.sessions = sessions']
      <3>1. sessions' \subseteq Good
        BY <1>2, <2>2, PasswordGood DEF IInv, DataOK
      <3> QED
        BY <1>1, <2>2, <3>1, SessionData
    <2> QED
      BY <2>1, <2>2 DEF NewSession
  <1> QED
    BY <1>1, <1>3, EndStep DEF Release

\* A record with another field late.
LEMMA LateRequest ==
    ASSUME NEW r \in Request, NEW g \in Nat, NEW s, Knows(r, g, s)
    PROVE  LET q == [r EXCEPT !.late = TRUE] IN
           /\ q \in Request /\ q.pc = r.pc /\ q.generation = r.generation
           /\ Knows(r, g + 1, s) /\ Knows(q, g + 1, s)
  <1> DEFINE q == [r EXCEPT !.late = TRUE]
  <1>1. r.generation \in Nat /\ r.generation < g + 1 /\ r.generation # g + 1 /\ r.generation <= g + 1
    BY DEF Request, Knows
  <1>2. /\ q \in Request /\ q.pc = r.pc /\ q.generation = r.generation /\ q.under = r.under
        /\ q.over = r.over /\ q.kind = r.kind /\ q.item = r.item
    BY DEF Request
  <1> HIDE DEF q
  <1>3. Knows(r, g + 1, s) /\ Knows(q, g + 1, s)
    BY <1>1, <1>2 DEF Knows
  <1> QED
    BY <1>2, <1>3 DEF q

LEMMA LateKeeps ==
    ASSUME IInv, NEW h \in Handler, NEW x \in Handler
    PROVE  /\ Late(h)[x] \in Request /\ Late(h)[x].pc = req[x].pc
           /\ Late(h)[x].generation = req[x].generation
           /\ Knows(Late(h)[x], generation + 1, InFile)
           /\ Late(h)[h] = req[h]
  <1>1. req[x] \in Request /\ Knows(req[x], generation, InFile) /\ generation \in Nat
    BY DEF IInv, DataOK, TypedData
  <1> QED
    BY <1>1, LateRequest DEF Late

\* Codes go, and tokens with their file or not at all.
LEMMA RevokedData ==
    ASSUME IInv, generation' = generation + 1, codes' = {},
           \/ /\ access' = {} /\ refresh' = {} /\ left' = {} /\ sessions = {}
              /\ disk' = [disk EXCEPT !.access = {}, !.refresh = {}]
           \/ UNCHANGED <<disk, access, refresh, left>>,
           UNCHANGED <<sessions, clients, env, ids, used, expired>>
    PROVE  DataOK' /\ InFile' = InFile
  <1>1. DataOK /\ Mirrored
    BY DEF IInv, DataOK
  <1>2. Mirrored' /\ InFile' = InFile
    <2>1. CASE UNCHANGED <<disk, access, refresh, left>>
      BY <1>1, <2>1 DEF Mirrored, InFile
    <2>2. CASE access' = {} /\ refresh' = {} /\ disk' = [disk EXCEPT !.access = {}, !.refresh = {}]
      <3>1. disk' = [[disk EXCEPT !.access = {}] EXCEPT !.refresh = {}]
        BY <2>2
      <3>2. [disk EXCEPT !.access = {}] =
              [hash |-> disk.hash, answer |-> disk.answer, sessions |-> sessions,
               access |-> {}, refresh |-> refresh, clients |-> clients]
        BY <1>1 DEF Mirrored
      <3>3. disk' = [hash |-> disk.hash, answer |-> disk.answer, sessions |-> sessions,
                     access |-> {}, refresh |-> {}, clients |-> clients]
        BY <3>1, <3>2
      <3> QED
        BY <2>2, <3>3 DEF Mirrored, InFile
    <2> QED
      BY <2>1, <2>2
  <1>3. refresh' \subseteq refresh /\ access' \subseteq access /\ left' \subseteq left
    OBVIOUS
  <1>4. TypedData'
    BY <1>1, <1>2, <1>3 DEF DataOK, TypedData, InFile
  <1>5. Current(Good, sessions, access, codes, refresh)'
    <2>1. CASE left' = left
      BY <1>1, <1>2, <1>3, <2>1, GoodKept DEF DataOK, Current
    <2>2. CASE access' = {} /\ refresh' = {} /\ sessions = {}
      BY <2>2 DEF Current
    <2> QED
      BY <2>1, <2>2
  <1>6. Fresh(codes, refresh, clients, ids, used)'
    BY <1>1, <1>3 DEF DataOK, Fresh
  <1>7. Consented(codes, refresh, clients, expired)'
    BY <1>1, <1>3 DEF DataOK, Consented, Active
  <1>8. Departed(expired, clients, ids)' /\ \A c \in codes' : ~c.late
    BY <1>1 DEF DataOK, Departed
  <1> QED
    BY <1>2, <1>4, <1>5, <1>6, <1>7, <1>8 DEF DataOK

LEMMA RevokeGrantsStep ==
    ASSUME IInv, NEW h \in Handler, RevokeGrants(h)
    PROVE  IInv'
  <1>1. /\ req[h].pc = "revoke" /\ guard = h /\ h # Nobody
        /\ generation' = generation + 1 /\ codes' = {}
        /\ UNCHANGED <<sessions, clients, env, ids, used, expired>>
    BY GuardAssumption DEF RevokeGrants, IInv, Changing
  <1>2. DataOK' /\ InFile' = InFile
    <2>1. sessions = {}
      BY <1>1 DEF IInv, Cleared
    <2> QED
      BY <1>1, <2>1, RevokedData DEF RevokeGrants
  <1>3. /\ generation \in Nat /\ ids' = ids /\ sessions = {}
        /\ \A x \in Handler : /\ req[x] \in Request /\ req[x].generation \in Nat
                              /\ req[x].generation <= generation
                              /\ Hand(req[x], codes, ids)
                              /\ req[x].pc \in Changing => x = h
    BY <1>1 DEF IInv, DataOK, TypedData, Knows, Request, Cleared
  <1>4. ASSUME NEW x \in Handler, x # h
        PROVE  /\ Late(h)[x] \in Request /\ Late(h)[x].pc \notin Changing
               /\ Knows(Late(h)[x], generation', InFile')
               /\ Hand(Late(h)[x], codes', ids')
               /\ Cleared(Late(h)[x], sessions', access', codes', refresh')
               /\ Late(h)[x].generation < generation'
    <2>1. /\ Late(h)[x] \in Request /\ Late(h)[x].pc \notin Changing
          /\ Knows(Late(h)[x], generation', InFile')
          /\ Late(h)[x].generation < generation'
      BY <1>1, <1>2, <1>3, <1>4, LateKeeps
    <2>2. Late(h)[x].value = req[x].value /\ Late(h)[x].item = req[x].item /\ Late(h)[x].pc = req[x].pc
      BY <1>3, <1>4 DEF Late, Request
    <2>3. Hand(Late(h)[x], codes', ids')
      BY <1>1, <1>3, <2>2 DEF Hand
    <2>4. Cleared(Late(h)[x], sessions', access', codes', refresh')
      BY <2>1 DEF Cleared, Changing
    <2> QED
      BY <2>1, <2>3, <2>4
  <1>5. Late(h)[h] = req[h] /\ Knows(req[h], generation + 1, InFile)
    BY LateKeeps
  <1>6. CASE /\ access' = {} /\ refresh' = {} /\ req' = [Late(h) EXCEPT ![h].pc = "save"]
             /\ UNCHANGED guard
    <2> DEFINE r == [req[h] EXCEPT !.pc = "save"]
    <2>1. req'[h] = r /\ \A x \in Handler : x # h => req'[x] = Late(h)[x]
      BY <1>5, <1>6 DEF Late
    <2>2. r \in Request /\ r.pc = "save" /\ r.generation = req[h].generation
      BY <1>3 DEF Request, Changing
    <2>3. Knows(r, generation', InFile')
      BY <1>1, <1>2, <1>3, <1>5 DEF Knows, Request, Verifying
    <2>4. Hand(r, codes', ids') /\ Cleared(r, sessions', access', codes', refresh')
      BY <1>1, <1>3, <1>6, <2>2 DEF Hand, Cleared
    <2> HIDE DEF r
    <2>5. req' \in [Handler -> Request]
      <3>1. req' = [x \in Handler |-> req'[x]]
        BY <1>6 DEF Late
      <3> QED
        BY <1>4, <2>1, <2>2, <3>1
    <2>6. \A x \in Handler : req'[x].generation < generation'
      BY <1>1, <1>3, <1>4, <2>1, <2>2
    <2>7. r.pc \in Changing /\ guard' = h
      BY <1>1, <1>6, <2>2 DEF Changing
    <2> QED
      BY <1>2, <1>4, <2>1, <2>2, <2>3, <2>4, <2>5, <2>6, <2>7 DEF IInv
  <1>7. CASE req' = [Late(h) EXCEPT ![h] = Idle] /\ guard' = Nobody
    <2>1. req'[h] = Idle /\ \A x \in Handler : x # h => req'[x] = Late(h)[x]
      BY <1>7 DEF Late
    <2>2. generation' \in Nat
      BY <1>1, <1>3
    <2>3. req' \in [Handler -> Request]
      <3>1. req' = [x \in Handler |-> req'[x]]
        BY <1>7 DEF Late
      <3> QED
        BY <1>4, <2>1, <3>1, IdleOK
    <2>4. \A x \in Handler : req'[x].pc \notin Changing /\ x # guard'
      BY <1>4, <1>7, <2>1, IdleOK, GuardAssumption DEF Changing
    <2>5. \A x \in Handler : req'[x].pc # "save"
      BY <2>4 DEF Changing
    <2> QED
      BY <1>2, <1>4, <1>7, <2>1, <2>2, <2>3, <2>4, <2>5, IdleOK DEF IInv
  <1> QED
    BY <1>6, <1>7 DEF RevokeGrants

LEMMA SavePasswordStep ==
    ASSUME IInv, NEW h \in Handler, SavePassword(h)
    PROVE  IInv'
  <1>1. /\ req[h].pc = "save" /\ guard = h /\ h # Nobody
        /\ UNCHANGED <<memory, env, used, left, expired>>
    BY GuardAssumption DEF SavePassword, IInv, Changing
  <1>2. CASE Release(h) /\ UNCHANGED <<disk, ids>>
    BY <1>1, <1>2, SameData, EndStep DEF Release, memory
  <1>3. CASE /\ ids + 1 < MaxIds /\ disk' = [disk EXCEPT !.hash = ids + 1] /\ ids' = ids + 1
             /\ Goto(h, "session") /\ UNCHANGED guard
    <2> DEFINE r == [req[h] EXCEPT !.pc = "session"]
    <2>1. /\ sessions = {} /\ access = {} /\ codes = {} /\ refresh = {} /\ DataOK
          /\ req \in [Handler -> Request] /\ generation \in Nat
          /\ ids \in 1..MaxIds /\ MaxIds \in Nat
          /\ \A x \in Handler : /\ req[x].generation < generation /\ req[x] \in Request
                                /\ Knows(req[x], generation, InFile)
                                /\ Hand(req[x], codes, ids)
                                /\ req[x].pc \in Changing <=> x = h
      BY <1>1, BoundAssumption DEF IInv, Cleared, DataOK, TypedData
    <2>2. /\ sessions' = sessions /\ access' = access /\ codes' = codes /\ refresh' = refresh
          /\ clients' = clients /\ generation' = generation /\ used' = used
          /\ env' = env /\ left' = left /\ expired' = expired
      BY <1>1 DEF memory
    <2>3. DataOK'
      <3>1. Mirrored' /\ disk'.hash = ids + 1 /\ disk'.answer = disk.answer
        <4>1. Mirrored
          BY <2>1 DEF DataOK
        <4> QED
          BY <1>3, <2>2, <4>1 DEF Mirrored
      <3>2. TypedData'
        BY <1>3, <2>1, <2>2, <3>1 DEF DataOK, TypedData
      <3>3. Current(Good, sessions, access, codes, refresh)'
        BY <2>1, <2>2 DEF Current
      <3>4. ids' \in Nat /\ ids \in Nat /\ ids <= ids' /\ used \in [1..MaxIds -> Nat]
        BY <1>3, <2>1 DEF DataOK, TypedData
      <3>5. Fresh(codes, refresh, clients, ids, used)'
        <4>1. Fresh(codes, refresh, clients, ids, used) /\ codes \in SUBSET Code /\ refresh \in SUBSET Refresh
          BY <2>1 DEF DataOK, TypedData
        <4>2. Fresh(codes, refresh, clients, ids', used)
          BY <3>4, <4>1, FreshGrows
        <4> QED
          BY <2>2, <4>2
      <3>6. Departed(expired, clients, ids)'
        BY <2>1, <2>2, <3>4 DEF DataOK, Departed
      <3>7. Consented(codes, refresh, clients, expired)'
        BY <2>1, <2>2 DEF Consented
      <3> QED
        BY <2>1, <2>2, <3>1, <3>2, <3>3, <3>5, <3>6, <3>7 DEF DataOK
    <2>4. r \in Request /\ r.pc = "session" /\ r.generation = req[h].generation
      BY <2>1 DEF Request, Changing
    <2>5. req' = [req EXCEPT ![h] = r] /\ guard' = guard
      BY <1>3 DEF Goto
    <2>6. \A g : Knows(req[h], generation, InFile) => Knows(r, generation, g)
      BY <2>1 DEF Knows, Request, Verifying
    <2>7. Hand(r, codes, ids) /\ Cleared(r, sessions, access, codes, refresh)
      BY <2>4 DEF Hand, Cleared
    <2> HIDE DEF r
    <2>8. ASSUME NEW x \in Handler
          PROVE  /\ req'[x].pc \in Changing <=> x = h
                 /\ req'[x].pc # "save"
                 /\ Knows(req'[x], generation, InFile')
                 /\ Hand(req'[x], codes, ids)
                 /\ Cleared(req'[x], sessions, access, codes, refresh)
      <3>1. CASE x = h
        BY <2>1, <2>4, <2>5, <2>6, <2>7, <3>1 DEF Changing
      <3>2. CASE x # h
        <4>1. req'[x] = req[x] /\ req[x].pc \notin Changing
          BY <2>1, <2>5, <3>2
        <4>2. req[x].generation < generation /\ req[x].generation \in Nat
          BY <2>1 DEF Request
        <4>3. Knows(req[x], generation, InFile')
          BY <2>1, <4>1, <4>2 DEF Knows, Changing
        <4> QED
          BY <2>1, <3>2, <4>1, <4>3 DEF Changing, Cleared
      <3> QED
        BY <3>1, <3>2
    <2>9. req' \in [Handler -> Request]
      BY <2>1, <2>4, <2>5
    <2>10. ASSUME NEW x \in Handler
           PROVE  Hand(req'[x], codes', ids')
      <3>1. codes \in SUBSET Code /\ codes' = codes /\ ids \in Nat /\ ids' \in Nat /\ ids <= ids'
        BY <1>3, <2>1, <2>2 DEF DataOK, TypedData
      <3>2. Follows(codes, ids, codes')
        BY <2>1, <2>2 DEF Follows
      <3>3. req'[x] \in Request /\ Hand(req'[x], codes, ids)
        BY <2>8, <2>9
      <3> QED
        BY <3>1, <3>2, <3>3, HandKept
    <2> QED
      BY <1>1, <2>2, <2>3, <2>5, <2>8, <2>9, <2>10 DEF IInv
  <1> QED
    BY <1>2, <1>3 DEF SavePassword, Room

LEMMA SaveAnswerStep ==
    ASSUME IInv, NEW h \in Handler, SaveAnswer(h)
    PROVE  IInv'
  <1>1. /\ guard = Nobody /\ guard' = guard /\ h # Nobody /\ Done(h) /\ Nobody \notin Handler
        /\ UNCHANGED <<sessions, access, refresh, clients, codes, env, used, left, expired>>
    BY GuardAssumption DEF SaveAnswer, GuardFree
  <1>2. CASE UNCHANGED <<disk, ids, generation>>
    BY <1>1, <1>2, SameData, EndStep DEF memory
  <1>3. CASE /\ ids + 1 < MaxIds /\ disk' = [disk EXCEPT !.answer = ids + 1] /\ ids' = ids + 1
             /\ generation' = generation + 1
    <2>1. /\ DataOK /\ Mirrored /\ req \in [Handler -> Request] /\ generation \in Nat
          /\ ids \in 1..MaxIds /\ MaxIds \in Nat
          /\ \A x \in Handler : /\ req[x] \in Request
                                /\ Knows(req[x], generation, InFile)
                                /\ Hand(req[x], codes, ids)
                                /\ req[x].pc \notin Changing
      BY <1>1, BoundAssumption DEF IInv, DataOK, TypedData
    <2>2. Mirrored' /\ disk'.hash = disk.hash /\ disk'.answer = ids + 1
      BY <1>1, <1>3, <2>1 DEF Mirrored
    <2>3. TypedData'
      BY <1>1, <1>3, <2>1, <2>2 DEF DataOK, TypedData
    <2>4. DataOK'
      <3>1. Good' = Good /\ ids' \in Nat /\ ids \in Nat /\ ids <= ids'
        BY <1>1, <1>3, <2>1, <2>2 DEF Good, Password
      <3>2. Fresh(codes, refresh, clients, ids, used)'
        <4>1. /\ Fresh(codes, refresh, clients, ids, used) /\ used \in [1..MaxIds -> Nat]
              /\ codes \in SUBSET Code /\ refresh \in SUBSET Refresh
          BY <2>1 DEF DataOK, TypedData
        <4>2. Fresh(codes, refresh, clients, ids', used)
          BY <3>1, <4>1, FreshGrows
        <4> QED
          BY <1>1, <4>2
      <3>3. Departed(expired, clients, ids)'
        BY <1>1, <2>1, <3>1 DEF DataOK, Departed
      <3> QED
        BY <1>1, <2>1, <2>2, <2>3, <3>1, <3>2, <3>3 DEF DataOK, Current, Consented
    <2>5. ASSUME NEW x \in Handler
          PROVE  /\ req'[x] \in Request /\ req'[x].pc \notin Changing
                 /\ Knows(req'[x], generation', InFile')
                 /\ Hand(req'[x], codes', ids')
                 /\ Cleared(req'[x], sessions', access', codes', refresh')
      <3>1. CASE x = h
        <4>1. req'[x] = Idle /\ generation' \in Nat
          BY <1>1, <1>3, <2>1, <3>1 DEF Done
        <4> QED
          BY <4>1, IdleOK DEF Changing
      <3>2. CASE x # h
        <4>1. req'[x] = req[x]
          BY <1>1, <2>1, <3>2 DEF Done
        <4>2. req[x] \in Request /\ Knows(req[x], generation, InFile)
          BY <2>1
        <4>3. Knows(req[x], generation + 1, InFile')
          <5>1. req[x].generation \in Nat /\ req[x].generation <= generation
            BY <4>2 DEF Request, Knows
          <5> QED
            BY <2>1, <4>2, <5>1 DEF Knows, Changing
        <4>4. Hand(req[x], codes', ids')
          <5>1. /\ codes \in SUBSET Code /\ codes' = codes /\ ids \in Nat /\ ids' \in Nat
                /\ ids <= ids' /\ Hand(req[x], codes, ids)
            BY <1>1, <1>3, <2>1 DEF DataOK, TypedData
          <5>2. Follows(codes, ids, codes')
            BY <5>1 DEF Follows
          <5> QED
            BY <4>2, <5>1, <5>2, HandKept
        <4> QED
          BY <1>1, <1>3, <2>1, <4>1, <4>3, <4>4 DEF Changing, Cleared
      <3> QED
        BY <3>1, <3>2
    <2>6. req' \in [Handler -> Request]
      BY <1>1, <2>1, IdleOK DEF Done
    <2>7. \A x \in Handler : req'[x].pc # "save" /\ x # guard'
      BY <1>1, <2>5 DEF Changing
    <2> QED
      BY <1>1, <2>4, <2>5, <2>6, <2>7 DEF IInv
  <1> QED
    BY <1>2, <1>3 DEF SaveAnswer, Room

-----------------------------------------------------------------------------
(* Clients *)

\* Clients become others, none of the active ones lost, and codes ones that
\* only active clients have in hand.
LEMMA ClientData ==
    ASSUME IInv, DOMAIN clients' \subseteq 1..ids', clients' = [c \in DOMAIN clients' |-> clients'[c]],
           disk' = [disk EXCEPT !.clients = clients'],
           ids \in 1..ids', ids' \in 1..MaxIds, codes' \subseteq Code,
           Departed(expired', clients', ids'),
           \A c \in 1..MaxIds : Active(clients, expired, c) => Active(clients', expired', c),
           \A c \in codes' : /\ ~c.late /\ c.under \in Good /\ c.id <= ids' /\ used[c.id] = 0
                             /\ c.given => Active(clients', expired', c.client)
                             /\ \A r \in refresh : c.id # r.id
                             /\ \A d \in codes' : c.id = d.id => c = d,
           UNCHANGED <<sessions, access, refresh, generation, env, used, left>>
    PROVE  DataOK' /\ InFile' = InFile
  <1>1. DataOK /\ Mirrored /\ MaxIds \in Nat /\ ids \in Nat
    BY BoundAssumption DEF IInv, DataOK, TypedData
  <1>2. Mirrored' /\ InFile' = InFile
    BY <1>1 DEF Mirrored, InFile
  <1>3. TypedData'
    BY <1>1, <1>2, GoodKept DEF DataOK, TypedData
  <1>4. Current(Good, sessions, access, codes, refresh)'
    BY <1>1, <1>2, GoodKept DEF DataOK, Current
  <1>5. Fresh(codes, refresh, clients, ids, used)'
    <2>1. refresh \subseteq Refresh /\ Fresh(codes, refresh, clients, ids, used)
      BY <1>1 DEF DataOK, TypedData
    <2>2. \A r \in refresh : r.id \in Nat
      BY <1>1, <2>1 DEF Refresh
    <2>3. ids \in Nat /\ ids' \in Nat /\ ids <= ids'
      BY <1>1
    <2>4. \A r \in refresh : r.id <= ids' /\ used[r.id] = 0
      BY <2>1, <2>2, <2>3 DEF Fresh
    <2>5. \A i \in 1..MaxIds : used[i] <= 1 /\ (i > ids' => used[i] = 0)
      BY <1>1, <2>1, <2>3 DEF Fresh
    <2> QED
      BY <2>1, <2>4, <2>5 DEF Fresh
  <1>6. Consented(codes, refresh, clients, expired)'
    BY <1>1 DEF DataOK, TypedData, Consented, Refresh, Client
  <1> QED
    BY <1>2, <1>3, <1>4, <1>5, <1>6 DEF DataOK

\* The codes as they are satisfy what ClientData asks of them.
LEMMA CodesAsTheyAre ==
    ASSUME IInv, NEW c \in codes
    PROVE  /\ ~c.late /\ c.under \in Good /\ c.id <= ids /\ used[c.id] = 0
           /\ c.id \in 1..MaxIds /\ c.client \in 1..MaxIds /\ c \in Code
           /\ c.given => Active(clients, expired, c.client)
           /\ \A r \in refresh : c.id # r.id
           /\ \A d \in codes : c.id = d.id => c = d
  <1>1. c \in Code
    BY DEF IInv, DataOK, TypedData
  <1>2. c.id \in 1..MaxIds /\ c.client \in 1..MaxIds
    BY <1>1 DEF Code, Client
  <1> QED
    BY <1>1, <1>2 DEF IInv, DataOK, Current, Fresh, Consented

LEMMA WithoutFacts ==
    ASSUME NEW f, NEW S
    PROVE  /\ DOMAIN Without(f, S) = DOMAIN f \ S
           /\ Without(f, S) = [z \in DOMAIN Without(f, S) |-> Without(f, S)[z]]
           /\ \A z \in DOMAIN f \ S : Without(f, S)[z] = f[z]
  BY DEF Without

LEMMA ExpireClientStep ==
    ASSUME IInv, ExpireClient
    PROVE  IInv'
  <1>1. PICK p \in DOMAIN clients :
           /\ clients' = Without(clients, {p})
           /\ expired' = IF clients[p] = "active" THEN expired \cup {p} ELSE expired
    BY DEF ExpireClient
  <1>2. /\ disk' = [disk EXCEPT !.clients = clients']
        /\ UNCHANGED <<sessions, access, refresh, codes, generation, guard, req, env, ids, used, left>>
    BY DEF ExpireClient
  <1>3. /\ DOMAIN clients \subseteq 1..ids /\ ids \in 1..MaxIds /\ MaxIds \in Nat /\ codes \subseteq Code
    BY BoundAssumption DEF IInv, DataOK, TypedData, Fresh
  <1>4. /\ DOMAIN clients' = DOMAIN clients \ {p}
        /\ clients' = [c \in DOMAIN clients' |-> clients'[c]]
        /\ \A z \in DOMAIN clients \ {p} : clients'[z] = clients[z]
    <2>1. clients' = Without(clients, {p})
      BY <1>1
    <2>2. /\ DOMAIN Without(clients, {p}) = DOMAIN clients \ {p}
          /\ Without(clients, {p}) =
               [z \in DOMAIN Without(clients, {p}) |-> Without(clients, {p})[z]]
          /\ \A z \in DOMAIN clients \ {p} : Without(clients, {p})[z] = clients[z]
      BY WithoutFacts
    <2> QED
      BY <2>1, <2>2
  <1>5. Departed(expired', clients', ids')
    <2>1. Departed(expired, clients, ids) /\ p \in 1..ids
      BY <1>1, <1>3 DEF IInv, DataOK
    <2> QED
      BY <1>1, <1>2, <1>4, <2>1 DEF Departed
  <1>6. \A c : Active(clients, expired, c) => Active(clients', expired', c)
    BY <1>1, <1>4 DEF Active
  <1>7. DataOK' /\ InFile' = InFile
    <2>1. ids \in 1..ids' /\ ids' \in 1..MaxIds /\ codes' \subseteq Code /\ DOMAIN clients' \subseteq 1..ids'
      BY <1>2, <1>3, <1>4
    <2>2. \A c \in codes' : /\ ~c.late /\ c.under \in Good /\ c.id <= ids' /\ used[c.id] = 0
                            /\ c.given => Active(clients', expired', c.client)
                            /\ \A r \in refresh : c.id # r.id
                            /\ \A d \in codes' : c.id = d.id => c = d
      BY <1>2, <1>6, CodesAsTheyAre
    <2> QED
      BY <1>2, <1>4, <1>5, <1>6, <2>1, <2>2, ClientData
  <1>8. ids <= ids' /\ Follows(codes, ids, codes') /\ Shrinks
    BY <1>2, <1>3 DEF Follows, Shrinks
  <1> QED
    BY <1>2, <1>7, <1>8, WorldStep

LEMMA RegisterStep ==
    ASSUME IInv, Register
    PROVE  IInv'
  <1>1. /\ clients' = With(Without(clients, Evicted), ids + 1, "pending")
        /\ disk' = [disk EXCEPT !.clients = clients'] /\ ids' = ids + 1 /\ ids < MaxIds
        /\ UNCHANGED <<sessions, access, refresh, codes, generation, guard, req, env, used, left, expired>>
    BY DEF Register
  <1>2. /\ DOMAIN clients \subseteq 1..ids /\ ids \in 1..MaxIds /\ MaxIds \in Nat /\ codes \subseteq Code
    BY BoundAssumption DEF IInv, DataOK, TypedData, Fresh
  <1>3. Evicted \subseteq Pending
    BY DEF Evicted
  <1> DEFINE kept == Without(clients, Evicted)
  <1>4. DOMAIN kept = DOMAIN clients \ Evicted /\ \A z \in DOMAIN kept : kept[z] = clients[z]
    <2>1. /\ DOMAIN Without(clients, Evicted) = DOMAIN clients \ Evicted
          /\ \A z \in DOMAIN clients \ Evicted : Without(clients, Evicted)[z] = clients[z]
      BY WithoutFacts
    <2> QED
      BY <2>1
  <1> HIDE DEF kept
  <1>5. /\ DOMAIN clients' = DOMAIN kept \cup {ids + 1}
        /\ clients' = [c \in DOMAIN clients' |-> clients'[c]]
        /\ \A z \in DOMAIN kept : z # ids + 1 => clients'[z] = kept[z]
    <2>1. clients' = [z \in DOMAIN kept \cup {ids + 1} |->
                        IF z = ids + 1 THEN "pending" ELSE kept[z]]
      BY <1>1 DEF kept, With
    <2> QED
      BY <2>1
  <1>6. \A c : Active(clients, expired, c) => Active(clients', expired', c)
    <2>1. \A c \in Evicted : clients[c] = "pending"
      BY <1>3 DEF Pending
    <2>2. ids + 1 \notin DOMAIN clients
      BY <1>2
    <2> QED
      BY <1>1, <1>4, <1>5, <2>1, <2>2 DEF Active
  <1>7. DataOK' /\ InFile' = InFile
    <2>1. ids \in 1..ids' /\ ids' \in 1..MaxIds /\ codes' \subseteq Code /\ DOMAIN clients' \subseteq 1..ids'
      BY <1>1, <1>2, <1>4, <1>5
    <2>2. ASSUME NEW c \in codes'
          PROVE  /\ ~c.late /\ c.under \in Good /\ c.id <= ids' /\ used[c.id] = 0
                 /\ c.given => Active(clients', expired', c.client)
                 /\ \A r \in refresh : c.id # r.id
                 /\ \A d \in codes' : c.id = d.id => c = d
      <3>1. c \in codes /\ codes' = codes /\ ids \in Nat
        BY <1>1, <1>2
      <3>2. c.id \in 1..MaxIds /\ c.id <= ids
        BY <3>1, CodesAsTheyAre
      <3>3. c.id <= ids'
        BY <1>1, <1>2, <3>1, <3>2
      <3> QED
        BY <1>6, <3>1, <3>3, CodesAsTheyAre
    <2>3. Departed(expired', clients', ids')
      <3>1. Departed(expired, clients, ids)
        BY DEF IInv, DataOK
      <3> QED
        BY <1>1, <1>2, <1>4, <1>5, <3>1 DEF Departed
    <2> QED
      BY <1>1, <1>5, <1>6, <2>1, <2>2, <2>3, ClientData
  <1>8. ids <= ids' /\ Follows(codes, ids, codes') /\ Shrinks
    BY <1>1, <1>2 DEF Follows, Shrinks
  <1> QED
    BY <1>1, <1>7, <1>8, WorldStep

-----------------------------------------------------------------------------
(* Codes *)

\* Only codes and ids change.
LEMMA CodeData ==
    ASSUME IInv, ids \in 1..ids', ids' \in 1..MaxIds, codes' \subseteq Code,
           \A c \in codes' : \/ c \in codes
                             \/ /\ ~c.late /\ c.under \in Good /\ c.id = ids' /\ ids' = ids + 1
                                /\ ~c.given
                                /\ \A d \in codes' : d \in codes \/ d = c,
           UNCHANGED <<disk, sessions, access, refresh, clients, generation, env, used, left, expired>>
    PROVE  DataOK' /\ InFile' = InFile
  <1>1. /\ DataOK /\ Mirrored /\ MaxIds \in Nat /\ ids \in Nat /\ ids' \in Nat /\ ids <= ids'
        /\ DOMAIN clients \subseteq 1..ids /\ clients = [c \in DOMAIN clients |-> clients[c]]
        /\ refresh \subseteq Refresh
    BY BoundAssumption DEF IInv, DataOK, TypedData, Fresh
  <1>2. disk' = [disk EXCEPT !.clients = clients']
    BY <1>1 DEF Mirrored
  <1>3. ASSUME NEW c \in codes'
        PROVE  /\ ~c.late /\ c.under \in Good /\ c.id <= ids' /\ used[c.id] = 0
               /\ c.given => Active(clients', expired', c.client)
               /\ \A r \in refresh : c.id # r.id
               /\ \A d \in codes' : c.id = d.id => c = d
    <2>1. \A d \in codes : d.id \in 1..MaxIds /\ d.id <= ids
      BY CodesAsTheyAre
    <2>2. CASE c \in codes
      <3>1. /\ ~c.late /\ c.under \in Good /\ c.id <= ids /\ used[c.id] = 0
            /\ c.given => Active(clients, expired, c.client)
            /\ \A r \in refresh : c.id # r.id
            /\ \A d \in codes : c.id = d.id => c = d
        BY <2>2, CodesAsTheyAre
      <3>2. c.id \in 1..MaxIds
        BY <2>1, <2>2
      <3>3. \A d \in codes' : c.id = d.id => c = d
        BY <1>1, <3>1, <3>2
      <3> QED
        BY <1>1, <3>1, <3>2, <3>3
    <2>3. CASE c \notin codes
      <3>1. /\ ~c.late /\ c.under \in Good /\ c.id = ids' /\ ids' = ids + 1 /\ ~c.given
            /\ \A d \in codes' : d \in codes \/ d = c
        BY <2>3
      <3>2. used[c.id] = 0 /\ \A r \in refresh : r.id <= ids
        BY <1>1, <3>1 DEF DataOK, Fresh
      <3>3. \A r \in refresh : c.id # r.id
        BY <1>1, <3>1, <3>2 DEF Refresh
      <3>4. \A d \in codes' : c.id = d.id => c = d
        BY <1>1, <2>1, <3>1
      <3> QED
        BY <1>1, <3>1, <3>2, <3>3, <3>4
    <2> QED
      BY <2>2, <2>3
  <1>4. DOMAIN clients' \subseteq 1..ids' /\ clients' = [c \in DOMAIN clients' |-> clients'[c]]
    BY <1>1
  <1>5. /\ \A c \in 1..MaxIds : Active(clients, expired, c) => Active(clients', expired', c)
        /\ Departed(expired', clients', ids')
    BY <1>1 DEF DataOK, Departed
  <1> QED
    BY <1>2, <1>3, <1>4, <1>5, ClientData

LEMMA DropCodes ==
    ASSUME IInv, codes' \subseteq codes,
           UNCHANGED <<disk, sessions, access, refresh, clients, generation, env, ids, used, left, expired>>
    PROVE  /\ DataOK' /\ InFile' = InFile
           /\ ids <= ids' /\ Follows(codes, ids, codes') /\ Shrinks
  <1>1. codes \subseteq Code /\ ids \in 1..MaxIds /\ MaxIds \in Nat
    BY BoundAssumption DEF IInv, DataOK, TypedData
  <1>2. ids \in 1..ids' /\ ids' \in 1..MaxIds /\ codes' \subseteq Code
    BY <1>1
  <1>3. DataOK' /\ InFile' = InFile
    BY <1>2, CodeData
  <1> QED
    BY <1>1, <1>3 DEF Follows, Shrinks

LEMMA ExpireCodeStep ==
    ASSUME IInv, ExpireCode
    PROVE  IInv'
  <1>1. /\ codes' \subseteq codes
        /\ UNCHANGED <<disk, sessions, access, refresh, clients, generation, guard, req, env, ids, used, left, expired>>
    BY DEF ExpireCode
  <1> QED
    BY <1>1, DropCodes, WorldStep

LEMMA StoreCodeStep ==
    ASSUME IInv, NEW h \in Handler, StoreCode(h)
    PROVE  IInv'
  <1>1. /\ guard = Nobody /\ guard' = guard /\ h # Nobody /\ req[h].pc = "authorize"
        /\ UNCHANGED <<disk, sessions, access, refresh, clients, generation, env, used, left, expired>>
    BY GuardAssumption DEF StoreCode, GuardFree
  <1>2. CASE Done(h) /\ UNCHANGED <<codes, ids>>
    BY <1>1, <1>2, SameData, EndStep DEF memory
  <1> DEFINE new == [id |-> ids + 1, client |-> req[h].item, given |-> FALSE,
                     generation |-> generation, under |-> Password, late |-> req[h].late]
             r == [[req[h] EXCEPT !.pc = "activate"] EXCEPT !.value = ids + 1]
  <1>3. CASE /\ ProofMatches(h) /\ ids + 1 < MaxIds
             /\ codes' = codes \cup {new} /\ ids' = ids + 1
             /\ req' = [req EXCEPT ![h].pc = "activate", ![h].value = ids + 1]
    <2>1. /\ req[h] \in Request /\ Knows(req[h], generation, InFile)
          /\ req[h].generation = generation /\ codes \subseteq Code
          /\ ids \in 1..MaxIds /\ MaxIds \in Nat /\ Password \in Nat /\ Password \in Good /\ generation \in Nat
      BY <1>3, BoundAssumption, PasswordGood DEF IInv, DataOK, TypedData, ProofMatches
    <2>2. req[h].item \in 1..MaxIds /\ req[h].late = FALSE
      BY <1>1, <2>1 DEF Knows, Request
    <2>3. /\ new \in Code /\ ~new.late /\ new.under \in Good /\ new.id = ids + 1 /\ ~new.given
          /\ new.client = req[h].item
      <3>1. ids + 1 \in 1..MaxIds
        BY <1>3, <2>1
      <3>2. new = [id |-> ids + 1, client |-> req[h].item, given |-> FALSE,
                   generation |-> generation, under |-> Password, late |-> FALSE]
        BY <2>2
      <3> HIDE DEF new
      <3> QED
        BY <2>1, <2>2, <3>1, <3>2 DEF Code, Client
    <2> HIDE DEF new
    <2>4. DataOK' /\ InFile' = InFile
      <3>1. ids \in 1..ids' /\ ids' \in 1..MaxIds /\ codes' \subseteq Code
        BY <1>3, <2>1, <2>3
      <3>2. \A c \in codes' : \/ c \in codes
                              \/ /\ ~c.late /\ c.under \in Good /\ c.id = ids' /\ ids' = ids + 1
                                 /\ ~c.given
                                 /\ \A d \in codes' : d \in codes \/ d = c
        BY <1>3, <2>3
      <3> QED
        BY <1>1, <3>1, <3>2, CodeData
    <2>5. /\ r \in Request /\ r.pc = "activate" /\ r.value = ids + 1 /\ r.item = req[h].item
          /\ r.generation = req[h].generation /\ r.late = req[h].late /\ r.kind = req[h].kind
      <3> DEFINE q == [req[h] EXCEPT !.pc = "activate"]
      <3>1. /\ q \in Request /\ q.pc = "activate" /\ q.item = req[h].item
            /\ q.generation = req[h].generation /\ q.late = req[h].late /\ q.kind = req[h].kind
        BY <2>1 DEF Request
      <3> HIDE DEF q
      <3>2. r = [q EXCEPT !.value = ids + 1]
        BY DEF q
      <3>3. ids + 1 \in Nat
        BY <2>1
      <3> QED
        BY <3>1, <3>2, <3>3 DEF Request
    <2>6. req' = [req EXCEPT ![h] = r]
      BY <1>3, <2>1 DEF Request
    <2> HIDE DEF r
    <2>7. Knows(r, generation, InFile)
      BY <2>1, <2>5 DEF Knows, Verifying
    <2>8. Hand(r, codes', ids')
      <3>1. \A c \in codes : c.id \in 1..MaxIds /\ c.id <= ids
        BY CodesAsTheyAre
      <3> QED
        BY <1>3, <2>1, <2>3, <2>5, <3>1 DEF Hand
    <2>9. Cleared(r, sessions', access', codes', refresh') /\ r.pc \notin Changing /\ r.pc # "save"
      BY <2>5 DEF Cleared, Changing
    <2>10. ids <= ids' /\ Follows(codes, ids, codes')
      BY <1>3, <2>1, <2>3 DEF Follows
    <2> QED
      BY <1>1, <2>4, <2>5, <2>6, <2>7, <2>8, <2>9, <2>10, RequestStep
  <1> QED
    BY <1>2, <1>3 DEF StoreCode, Room

\* A code that is handed out keeps the rest of what it says.
LEMMA GivenCode ==
    ASSUME NEW c \in Code
    PROVE  LET d == [c EXCEPT !.given = TRUE] IN
           d \in Code /\ d.id = c.id /\ d.client = c.client /\ d.under = c.under /\ d.late = c.late
  BY DEF Code

LEMMA ActivateClientStep ==
    ASSUME IInv, NEW h \in Handler, ActivateClient(h)
    PROVE  IInv'
  <1>1. /\ req[h].pc = "activate" /\ Done(h) /\ guard' = guard
        /\ UNCHANGED <<sessions, access, refresh, generation, env, ids, used, left, expired>>
    BY DEF ActivateClient
  <1>2. /\ Hand(req[h], codes, ids) /\ guard # h /\ codes \subseteq Code /\ MaxIds \in Nat
        /\ ids \in 1..MaxIds /\ DOMAIN clients \subseteq 1..ids
        /\ clients = [c \in DOMAIN clients |-> clients[c]]
    BY <1>1, BoundAssumption DEF IInv, Changing, DataOK, TypedData, Fresh
  <1>3. \A c \in CodeOf(h) : c \in codes /\ c.client = req[h].item
    BY <1>1, <1>2 DEF Hand, CodeOf
  <1>4. CASE codes' = codes \ CodeOf(h) /\ UNCHANGED <<clients, disk>>
    <2>1. codes' \subseteq codes
      BY <1>4
    <2> QED
      BY <1>1, <1>2, <1>4, <2>1, DropCodes, EndStep
  <1>5. CASE /\ req[h].item \in DOMAIN clients
             /\ clients' = With(clients, req[h].item, "active")
             /\ disk' = [disk EXCEPT !.clients = clients']
             /\ codes' = (codes \ CodeOf(h)) \cup {[c EXCEPT !.given = TRUE] : c \in CodeOf(h)}
    <2>1. clients' = [z \in DOMAIN clients |-> IF z = req[h].item THEN "active" ELSE clients[z]]
      <3>1. DOMAIN clients \cup {req[h].item} = DOMAIN clients
        BY <1>5
      <3> QED
        BY <1>5, <3>1 DEF With
    <2>2. /\ DOMAIN clients' = DOMAIN clients
          /\ clients' = [c \in DOMAIN clients' |-> clients'[c]]
          /\ \A c : Active(clients, expired, c) => Active(clients', expired', c)
          /\ Active(clients', expired', req[h].item)
      BY <1>1, <1>5, <2>1 DEF Active
    <2>3. \A c \in codes' : \E b \in codes :
             /\ c \in Code /\ c.id = b.id /\ c.client = b.client /\ c.under = b.under /\ c.late = b.late
             /\ c = IF b \in CodeOf(h) THEN [b EXCEPT !.given = TRUE] ELSE b
      <3> TAKE c \in codes'
      <3>1. CASE c \in codes /\ c \notin CodeOf(h)
        BY <1>2, <3>1
      <3>2. CASE \E b \in CodeOf(h) : c = [b EXCEPT !.given = TRUE]
        <4>1. PICK b \in CodeOf(h) : c = [b EXCEPT !.given = TRUE]
          BY <3>2
        <4>2. b \in codes /\ b \in Code
          BY <1>2, <1>3
        <4>3. c \in Code /\ c.id = b.id /\ c.client = b.client /\ c.under = b.under /\ c.late = b.late
          BY <4>1, <4>2, GivenCode
        <4> QED
          BY <4>1, <4>2, <4>3
      <3> QED
        BY <1>5, <3>1, <3>2
    <2>4. ASSUME NEW c \in codes'
          PROVE  /\ ~c.late /\ c.under \in Good /\ c.id <= ids' /\ used[c.id] = 0
                 /\ c.given => Active(clients', expired', c.client)
                 /\ \A r \in refresh : c.id # r.id
                 /\ \A d \in codes' : c.id = d.id => c = d
      <3>1. PICK b \in codes :
             /\ c \in Code /\ c.id = b.id /\ c.client = b.client /\ c.under = b.under /\ c.late = b.late
             /\ c = IF b \in CodeOf(h) THEN [b EXCEPT !.given = TRUE] ELSE b
        BY <2>3
      <3>2. /\ ~c.late /\ c.under \in Good /\ c.id <= ids' /\ used[c.id] = 0
            /\ \A r \in refresh : c.id # r.id
            /\ \A d \in codes : b.id = d.id => b = d
            /\ b.given => Active(clients, expired, b.client)
        BY <1>1, <3>1, CodesAsTheyAre
      <3>3. c.given => Active(clients', expired', c.client)
        BY <1>3, <2>2, <3>1, <3>2
      <3>4. \A d \in codes' : c.id = d.id => c = d
        BY <2>3, <3>1, <3>2
      <3> QED
        BY <3>2, <3>3, <3>4
    <2>5. DataOK' /\ InFile' = InFile
      <3>1. ids \in 1..ids' /\ ids' \in 1..MaxIds /\ codes' \subseteq Code /\ DOMAIN clients' \subseteq 1..ids'
        BY <1>1, <1>2, <2>2, <2>3
      <3>2. \A c \in 1..MaxIds : Active(clients, expired, c) => Active(clients', expired', c)
        BY <2>2
      <3>3. clients' = [c \in DOMAIN clients' |-> clients'[c]]
        BY <2>2
      <3>4. Departed(expired', clients', ids')
        BY <1>1, <2>2 DEF IInv, DataOK, Departed
      <3> HIDE <1>5, <2>1
      <3> QED
        BY <1>1, <1>5, <2>4, <3>1, <3>2, <3>3, <3>4, ClientData
    <2>6. ids <= ids' /\ Follows(codes, ids, codes')
      <3>1. \A c \in codes' : \E b \in codes : b.id = c.id /\ b.client = c.client /\ (b.given => c.given)
        <4> TAKE c \in codes'
        <4>1. PICK b \in codes :
               /\ c \in Code /\ c.id = b.id /\ c.client = b.client
               /\ c = IF b \in CodeOf(h) THEN [b EXCEPT !.given = TRUE] ELSE b
          BY <2>3
        <4>2. b \in Code
          BY <1>2
        <4>3. b.given => c.given
          BY <4>1, <4>2 DEF Code
        <4> QED
          BY <4>1, <4>3
      <3> QED
        BY <1>1, <1>2, <3>1 DEF Follows
    <2>7. Shrinks
      <3>1. codes = {} => codes' = {}
        BY <2>3
      <3> QED
        BY <1>1, <3>1 DEF Shrinks
    <2> QED
      BY <1>1, <1>2, <2>5, <2>6, <2>7, EndStep
  <1> QED
    BY <1>4, <1>5 DEF ActivateClient

-----------------------------------------------------------------------------
(* Tokens *)

LEMMA TokenMirror ==
    ASSUME Mirrored, disk' = [disk EXCEPT !.access = access', !.refresh = refresh'],
           UNCHANGED <<sessions, clients>>
    PROVE  Mirrored' /\ InFile' = InFile
  <1>1. disk' = [[disk EXCEPT !.access = access'] EXCEPT !.refresh = refresh']
    OBVIOUS
  <1>2. [disk EXCEPT !.access = access'] =
          [hash |-> disk.hash, answer |-> disk.answer, sessions |-> sessions,
           access |-> access', refresh |-> refresh, clients |-> clients]
    BY DEF Mirrored
  <1>3. disk' = [hash |-> disk.hash, answer |-> disk.answer, sessions |-> sessions,
                 access |-> access', refresh |-> refresh', clients |-> clients]
    BY <1>1, <1>2
  <1> QED
    BY <1>3 DEF Mirrored, InFile

\* A grant for a code or refresh token that goes with it.
LEMMA IssueData ==
    ASSUME IInv, NEW from, NEW spent, Issue(from, spent),
           from.id \in 1..ids, used[from.id] = 0, from.under \in Good, from.client \in Client,
           Active(clients, expired, from.client), codes' \subseteq codes,
           \A c \in codes' : c.id # from.id,
           \A r \in refresh \ spent : r.id # from.id,
           UNCHANGED <<sessions, clients, generation, env, left, expired>>
    PROVE  /\ DataOK' /\ InFile' = InFile /\ generation' = generation
           /\ ids <= ids' /\ Follows(codes, ids, codes')
  <1> DEFINE new == [id |-> ids + 1, client |-> from.client, under |-> from.under]
  <1>1. /\ ids < MaxIds /\ ids' = ids + 1
        /\ access' = access \cup {from.under} /\ refresh' = (refresh \ spent) \cup {new}
        /\ disk' = [disk EXCEPT !.access = access', !.refresh = refresh']
        /\ used' = [used EXCEPT ![from.id] = @ + 1]
    BY DEF Issue
  <1>2. /\ DataOK /\ Mirrored /\ TypedData /\ Fresh(codes, refresh, clients, ids, used)
        /\ Consented(codes, refresh, clients, expired) /\ Current(Good, sessions, access, codes, refresh)
        /\ MaxIds \in Nat /\ ids \in 1..MaxIds /\ Good \subseteq Nat /\ codes \subseteq Code
        /\ refresh \subseteq Refresh /\ used \in [1..MaxIds -> Nat] /\ access \subseteq Nat
    BY BoundAssumption, PasswordGood DEF IInv, DataOK, TypedData
  <1>3. new \in Refresh /\ new.id = ids + 1 /\ new.client = from.client /\ new.under \in Good
    BY <1>1, <1>2 DEF Refresh
  <1> HIDE DEF new
  <1>4. Mirrored' /\ InFile' = InFile
    BY <1>1, <1>2, TokenMirror
  <1>5. Good' = Good /\ disk'.hash = disk.hash /\ disk'.answer = disk.answer
    BY <1>4, GoodKept
  <1>6. /\ used' \in [1..MaxIds -> Nat] /\ used'[from.id] = 1
        /\ \A i \in 1..MaxIds : i # from.id => used'[i] = used[i]
    BY <1>1, <1>2
  <1>7. refresh' \subseteq Refresh /\ access' \subseteq Nat /\ ids' \in 1..MaxIds
    BY <1>1, <1>2, <1>3
  <1>8. TypedData'
    BY <1>2, <1>5, <1>6, <1>7 DEF TypedData
  <1>9. Current(Good, sessions, access, codes, refresh)'
    BY <1>1, <1>2, <1>3, <1>5 DEF Current
  <1>10. Fresh(codes, refresh, clients, ids, used)'
    <2>1. \A c \in codes : c.id \in 1..MaxIds /\ c.id <= ids
      BY <1>2 DEF Fresh, Code
    <2>2. \A r \in refresh : r.id \in 1..MaxIds /\ r.id <= ids
      BY <1>2 DEF Fresh, Refresh
    <2>3. \A c \in codes' : c.id <= ids' /\ used'[c.id] = 0
      BY <1>1, <1>2, <1>6, <2>1 DEF Fresh
    <2>4. \A r \in refresh' : r.id <= ids' /\ used'[r.id] = 0
      <3>1. \A r \in refresh \ spent : r.id <= ids' /\ used'[r.id] = 0
        BY <1>1, <1>2, <1>6, <2>2 DEF Fresh
      <3>2. new.id <= ids' /\ used'[new.id] = 0
        BY <1>1, <1>2, <1>3, <1>6 DEF Fresh
      <3> QED
        BY <1>1, <3>1, <3>2
    <2>5. \A r, q \in refresh' : r.id = q.id => r = q
      BY <1>1, <1>2, <1>3, <2>2 DEF Fresh
    <2>6. \A c \in codes', r \in refresh' : c.id # r.id
      BY <1>1, <1>2, <1>3, <2>1 DEF Fresh
    <2>7. \A c, d \in codes' : c.id = d.id => c = d
      BY <1>2 DEF Fresh
    <2>8. DOMAIN clients' \subseteq 1..ids'
      BY <1>1, <1>2 DEF Fresh
    <2>9. \A i \in 1..MaxIds : used'[i] <= 1 /\ (i > ids' => used'[i] = 0)
      BY <1>1, <1>2, <1>6 DEF Fresh
    <2> QED
      BY <2>3, <2>4, <2>5, <2>6, <2>7, <2>8, <2>9 DEF Fresh
  <1>11. Consented(codes, refresh, clients, expired)'
    BY <1>1, <1>2, <1>3 DEF Consented, Active
  <1>12. \A c \in codes' : ~c.late
    BY <1>2 DEF DataOK
  <1>13. Departed(expired, clients, ids)'
    BY <1>1, <1>2 DEF DataOK, Departed
  <1>14. ids <= ids' /\ Follows(codes, ids, codes')
    BY <1>1, <1>2 DEF Follows
  <1> QED
    BY <1>4, <1>8, <1>9, <1>10, <1>11, <1>12, <1>14, <1>13 DEF DataOK

LEMMA ExchangeCodeStep ==
    ASSUME IInv, NEW h \in Handler, ExchangeCode(h)
    PROVE  IInv'
  <1>1. /\ guard = Nobody /\ guard' = guard /\ h # Nobody /\ req[h].pc = "exchange" /\ Done(h)
        /\ UNCHANGED <<sessions, clients, generation, env, left, expired>>
    BY GuardAssumption DEF ExchangeCode, GuardFree
  <1>2. CASE UNCHANGED <<disk, access, refresh, codes, ids, used>>
    BY <1>1, <1>2, SameData, EndStep DEF memory
  <1>3. CASE /\ \E c \in codes : c.id = req[h].item /\ codes' = codes \ {c}
             /\ UNCHANGED <<disk, access, refresh, ids, used>>
    <2>1. codes' \subseteq codes
      BY <1>3
    <2> QED
      BY <1>1, <1>3, <2>1, DropCodes, EndStep
  <1>4. ASSUME NEW c \in codes, c.id = req[h].item, Issue(c, {}), codes' = codes \ {c}
        PROVE  IInv'
    <2>1. /\ c.id <= ids /\ used[c.id] = 0 /\ c.under \in Good /\ c.id \in 1..MaxIds
          /\ c.client \in 1..MaxIds
          /\ c.given => Active(clients, expired, c.client)
          /\ \A r \in refresh : c.id # r.id
          /\ \A d \in codes : c.id = d.id => c = d
      BY CodesAsTheyAre
    <2>2. c.given /\ ids \in 1..MaxIds /\ MaxIds \in Nat
      BY <1>1, <1>4, BoundAssumption DEF IInv, Hand, DataOK, TypedData
    <2>3. c.id \in 1..ids /\ c.client \in Client
      BY <2>1, <2>2 DEF Client
    <2>4. /\ DataOK' /\ InFile' = InFile /\ generation' = generation
          /\ ids <= ids' /\ Follows(codes, ids, codes')
      <3>1. codes' \subseteq codes /\ \A d \in codes' : d.id # c.id
        BY <1>4, <2>1
      <3>2. \A r \in refresh \ {} : r.id # c.id
        BY <2>1
      <3> QED
        BY <1>1, <1>4, <2>1, <2>2, <2>3, <3>1, <3>2, IssueData
    <2> QED
      BY <1>1, <2>4, EndStep
  <1> QED
    BY <1>2, <1>3, <1>4 DEF ExchangeCode

LEMMA RotateRefreshStep ==
    ASSUME IInv, NEW h \in Handler, RotateRefresh(h)
    PROVE  IInv'
  <1>1. /\ guard = Nobody /\ guard' = guard /\ h # Nobody /\ Done(h)
        /\ UNCHANGED <<sessions, clients, codes, generation, env, left, expired>>
    BY GuardAssumption DEF RotateRefresh, GuardFree
  <1>2. CASE UNCHANGED <<disk, access, refresh, ids, used>>
    BY <1>1, <1>2, SameData, EndStep DEF memory
  <1>3. ASSUME NEW r \in refresh, Issue(r, {r})
        PROVE  IInv'
    <2>1. /\ r \in Refresh /\ r.id <= ids /\ used[r.id] = 0 /\ r.under \in Good
          /\ Active(clients, expired, r.client)
          /\ \A c \in codes : c.id # r.id
          /\ \A q \in refresh : q.id = r.id => q = r
          /\ ids \in 1..MaxIds /\ MaxIds \in Nat
      BY BoundAssumption DEF IInv, DataOK, TypedData, Current, Fresh, Consented
    <2>2. r.id \in 1..ids /\ r.client \in Client
      BY <2>1 DEF Refresh
    <2>3. /\ DataOK' /\ InFile' = InFile /\ generation' = generation
          /\ ids <= ids' /\ Follows(codes, ids, codes')
      <3>1. codes' \subseteq codes /\ \A c \in codes' : c.id # r.id
        BY <1>1, <2>1
      <3>2. \A q \in refresh \ {r} : q.id # r.id
        BY <2>1
      <3> QED
        BY <1>1, <1>3, <2>1, <2>2, <3>1, <3>2, IssueData
    <2> QED
      BY <1>1, <2>3, EndStep
  <1> QED
    BY <1>2, <1>3 DEF RotateRefresh

-----------------------------------------------------------------------------
(* A restart, the start, and every step *)

\* Memory is read back as it was: clients with tokens are active already.
LEMMA RestartStep ==
    ASSUME IInv, Restart
    PROVE  IInv'
  <1>1. /\ DataOK /\ Mirrored /\ TypedData /\ Consented(codes, refresh, clients, expired)
        /\ Departed(expired, clients, ids) /\ MaxIds \in Nat
    BY BoundAssumption DEF IInv, DataOK
  <1>2. /\ disk.sessions = sessions /\ disk.access = access /\ disk.refresh = refresh
        /\ disk.clients = clients /\ clients = [c \in DOMAIN clients |-> clients[c]]
    BY <1>1 DEF Mirrored, TypedData
  <1>3. /\ sessions' = sessions /\ access' = access /\ refresh' = refresh
        /\ UNCHANGED <<disk, used, expired>>
        /\ codes' = {} /\ generation' = 0 /\ guard' = Nobody /\ req' = [h \in Handler |-> Idle]
    BY <1>2 DEF Restart
  <1>4. clients' = clients
    <2>1. \A c \in DOMAIN clients :
            (IF \E r \in refresh : r.client = c THEN "active" ELSE clients[c]) = clients[c]
      BY <1>1 DEF Consented, Active, Departed
    <2>2. clients' = [c \in DOMAIN clients |->
                        IF \E r \in refresh : r.client = c THEN "active" ELSE clients[c]]
      BY <1>2 DEF Restart
    <2> QED
      BY <1>2, <2>1, <2>2
  <1>5. DataOK'
    <2>1. /\ env' \in Nat /\ left' \subseteq Nat /\ Good \subseteq Good'
          /\ ids' \in 1..MaxIds /\ ids \in Nat /\ ids' \in Nat /\ ids <= ids'
      <3>1. ids \in 1..MaxIds /\ env \in Nat /\ left \subseteq Nat /\ disk.hash \in Nat
        BY <1>1 DEF TypedData
      <3>2. env' \in Nat /\ ids' \in 1..MaxIds /\ ids <= ids'
        BY <1>1, <3>1 DEF Restart, NewEnvironment, Room
      <3>3. Password \in Nat
        BY <3>1 DEF Password
      <3>4. left' = IF Password' = Password THEN left ELSE left \cup {Password}
        BY DEF Restart
      <3>5. left' \subseteq Nat /\ Good \subseteq Good'
        BY <3>1, <3>3, <3>4 DEF Good
      <3> QED
        BY <1>1, <3>1, <3>2, <3>5
    <2>2. Mirrored' /\ TypedData'
      BY <1>1, <1>3, <1>4, <2>1 DEF Mirrored, TypedData
    <2>3. Current(Good, sessions, access, codes, refresh)'
      BY <1>1, <1>3, <2>1 DEF DataOK, Current
    <2>4. Fresh(codes, refresh, clients, ids, used)'
      <3>1. /\ Fresh({}, refresh, clients, ids, used) /\ used \in [1..MaxIds -> Nat]
            /\ {} \in SUBSET Code /\ refresh \in SUBSET Refresh
        BY <1>1 DEF DataOK, TypedData, Fresh
      <3>2. Fresh({}, refresh, clients, ids', used)
        BY <2>1, <3>1, FreshGrows
      <3> QED
        BY <1>3, <1>4, <3>2
    <2>5. Consented(codes, refresh, clients, expired)' /\ Departed(expired, clients, ids)'
      BY <1>1, <1>3, <1>4, <2>1 DEF Consented, Departed
    <2> QED
      BY <1>3, <2>2, <2>3, <2>4, <2>5 DEF DataOK
  <1>6. \A h \in Handler : req'[h] = Idle /\ h # guard'
    BY <1>3, GuardAssumption
  <1>7. req' \in [Handler -> Request] /\ generation' \in Nat
    BY <1>3, IdleOK
  <1> QED
    BY <1>3, <1>5, <1>6, <1>7, IdleOK DEF IInv, Changing

LEMMA InitIInv == Init => IInv
  <1> SUFFICES ASSUME Init PROVE IInv
    OBVIOUS
  <1>1. /\ disk = [hash |-> 1, answer |-> 1, sessions |-> {}, access |-> {}, refresh |-> {},
                   clients |-> [c \in {1} |-> "pending"]]
        /\ sessions = {} /\ access = {} /\ refresh = {} /\ codes = {}
        /\ clients = [c \in {1} |-> "pending"]
        /\ generation = 0 /\ guard = Nobody /\ req = [h \in Handler |-> Idle]
        /\ ids = 1 /\ used = [i \in 1..MaxIds |-> 0]
        /\ env = 0 /\ left = {} /\ expired = {}
    BY DEF Init
  <1>2. Mirrored /\ disk.hash = 1 /\ disk.answer = 1
    BY <1>1 DEF Mirrored
  <1>3. TypedData
    BY <1>1, <1>2, BoundAssumption DEF TypedData
  <1>4. Fresh(codes, refresh, clients, ids, used)
    BY <1>1, BoundAssumption DEF Fresh
  <1>5. DataOK
    BY <1>1, <1>2, <1>3, <1>4 DEF DataOK, Current, Consented, Departed
  <1>6. \A h \in Handler : req[h] = Idle /\ h # guard
    BY <1>1, GuardAssumption
  <1>7. req \in [Handler -> Request] /\ generation \in Nat
    BY <1>1, IdleOK
  <1> QED
    BY <1>1, <1>5, <1>6, <1>7, IdleOK DEF IInv, Changing

LEMMA StepIInv ==
    ASSUME IInv, NEW h \in Handler, Step(h)
    PROVE  IInv'
  BY VerifyStep, LoginStep, RevokeSessionsStep, RevokeGrantsStep, SavePasswordStep, NewSessionStep,
     SaveAnswerStep, StoreCodeStep, ActivateClientStep, ExchangeCodeStep, RotateRefreshStep DEF Step

LEMMA NextIInv == IInv /\ [Next]_vars => IInv'
  <1> SUFFICES ASSUME IInv, [Next]_vars PROVE IInv'
    OBVIOUS
  <1>1. CASE UNCHANGED vars
    <2>1. UNCHANGED <<disk, memory, env, ids, used, left, expired>> /\ UNCHANGED <<req, guard, generation>>
      BY <1>1 DEF vars, memory
    <2> QED
      BY <2>1, SameData, WorldStep
  <1>2. ASSUME NEW h \in Handler, Step(h) \/ BeginAnswer(h)
        PROVE  IInv'
    BY <1>2, StepIInv, BeginAnswerStep
  <1>3. CASE Logout \/ Register \/ ExpireClient \/ ExpireCode \/ Restart
    BY <1>3, LogoutStep, RegisterStep, ExpireClientStep, ExpireCodeStep, RestartStep
  <1> QED
    BY <1>1, <1>2, <1>3, BeginStep, PresentStep DEF Next

LEMMA SpecIInv == Spec => []IInv
  BY InitIInv, NextIInv, PTL DEF Spec

-----------------------------------------------------------------------------
(* Theorems *)

\* Registries, files, requests and ids have their types, and the guard is
\* held in the middle of a password change and at no other time.
THEOREM GrantsTypeCorrect == Spec => []TypeOK
  <1>1. IInv => TypeOK
    <2> SUFFICES ASSUME IInv PROVE TypeOK
      OBVIOUS
    <2>1. /\ TypedData /\ Mirrored /\ DOMAIN clients \subseteq 1..ids /\ ids \in 1..MaxIds
          /\ MaxIds \in Nat /\ guard \in Handler \cup {Nobody}
          /\ \A h \in Handler : req[h].pc \in {"revoke", "save", "session"} <=> guard = h
      BY BoundAssumption DEF IInv, DataOK, TypedData, Fresh, Changing
    <2>2. /\ disk.sessions = sessions /\ disk.access = access /\ disk.refresh = refresh
          /\ disk.clients = clients
      BY <2>1 DEF Mirrored
    <2>3. DOMAIN clients \subseteq Client /\ ids \in Nat /\ expired \subseteq Client
      BY <2>1 DEF Client, IInv, DataOK, Departed
    <2>4. \A c \in codes : c.id \in 1..MaxIds /\ c.client \in Client
      BY <2>1 DEF TypedData, Code
    <2> QED
      BY <2>1, <2>2, <2>3, <2>4 DEF TypeOK, TypedData
  <1> QED
    BY <1>1, SpecIInv, PTL

\* Wherever a password change fails or is cut off, nothing that was granted
\* under another password than the one in force is good, unless a restart with
\* another environment has replaced that password since the last revocation.
THEOREM GrantsEndWithPassword == Spec => []NoGrantOutlivesPassword
  <1>1. IInv => NoGrantOutlivesPassword
    <2> SUFFICES ASSUME IInv PROVE NoGrantOutlivesPassword
      OBVIOUS
    <2>1. Mirrored /\ Current(Good, sessions, access, codes, refresh)
      BY DEF IInv, DataOK
    <2>2. disk.sessions = sessions /\ disk.access = access /\ disk.refresh = refresh
      BY <2>1 DEF Mirrored
    <2> QED
      BY <2>1, <2>2 DEF NoGrantOutlivesPassword, Current, Good
  <1> QED
    BY <1>1, SpecIInv, PTL

\* A verification that a revocation has overtaken never yields a code.
THEOREM RevocationEndsProofs == Spec => []NoLateCode
  <1>1. IInv => NoLateCode
    BY DEF IInv, DataOK, NoLateCode
  <1> QED
    BY <1>1, SpecIInv, PTL

\* Two requests with one code or refresh token get one grant between them.
THEOREM GrantsAreSingle == Spec => []SingleUse
  <1>1. IInv => SingleUse
    BY DEF IInv, DataOK, Fresh, SingleUse
  <1> QED
    BY <1>1, SpecIInv, PTL

\* Until its year is over, neither eviction nor a restart forgets a client that
\* holds a refresh token.
THEOREM ClientsWithTokensStay == Spec => []GrantedClientKept
  <1>1. IInv => GrantedClientKept
    <2> SUFFICES ASSUME IInv PROVE GrantedClientKept
      OBVIOUS
    <2>1. Mirrored /\ Consented(codes, refresh, clients, expired)
      BY DEF IInv, DataOK
    <2>2. disk.refresh = refresh /\ disk.clients = clients
      BY <2>1 DEF Mirrored
    <2> QED
      BY <2>1, <2>2 DEF GrantedClientKept, Consented, Active
  <1> QED
    BY <1>1, SpecIInv, PTL

-----------------------------------------------------------------------------
(* Changes of the secrets *)

SecretsKept == disk'.hash = disk.hash /\ disk'.answer = disk.answer

Replaced ==
    /\ disk'.hash # disk.hash => \E h \in Handler : req[h].pc = "save" /\ BegunUnder(h)
    /\ disk'.answer # disk.answer => \E h \in Handler : req[h].pc = "answer" /\ BegunUnder(h)

\* A registry that changes leaves the secrets in the file alone.
LEMMA RegistryWrites ==
    ASSUME Mirrored, NEW S, \/ disk' = disk
                            \/ disk' = [disk EXCEPT !.sessions = S]
                            \/ disk' = [disk EXCEPT !.clients = S]
    PROVE  SecretsKept
  BY DEF Mirrored, SecretsKept

LEMMA TokenWrites ==
    ASSUME Mirrored, NEW A, NEW R, disk' = [disk EXCEPT !.access = A, !.refresh = R]
    PROVE  SecretsKept
  <1>1. disk' = [[disk EXCEPT !.access = A] EXCEPT !.refresh = R]
    OBVIOUS
  <1>2. [disk EXCEPT !.access = A] =
          [hash |-> disk.hash, answer |-> disk.answer, sessions |-> sessions,
           access |-> A, refresh |-> refresh, clients |-> clients]
    BY DEF Mirrored
  <1> QED
    BY <1>1, <1>2 DEF SecretsKept

LEMMA IssueWrites ==
    ASSUME Mirrored, NEW from, NEW spent, Issue(from, spent)
    PROVE  SecretsKept
  <1>1. disk' = [disk EXCEPT !.access = access', !.refresh = refresh']
    BY DEF Issue
  <1> QED
    BY <1>1, TokenWrites

LEMMA StepReplaces ==
    ASSUME IInv, NEW h \in Handler, Step(h)
    PROVE  Replaced
  <1>1. Mirrored
    BY DEF IInv, DataOK
  <1>2. CASE Verify(h) \/ StoreCode(h)
    BY <1>2 DEF Verify, StoreCode, Replaced
  <1>3. CASE Login(h) \/ NewSession(h)
    <2>1. disk' = disk \/ disk' = [disk EXCEPT !.sessions = sessions']
      BY <1>3 DEF Login, NewSession
    <2> QED
      BY <1>1, <2>1, RegistryWrites DEF SecretsKept, Replaced
  <1>4. CASE RevokeSessions(h)
    <2>1. disk' = disk \/ disk' = [disk EXCEPT !.sessions = {}]
      BY <1>4 DEF RevokeSessions
    <2> QED
      BY <1>1, <2>1, RegistryWrites DEF SecretsKept, Replaced
  <1>5. CASE RevokeGrants(h)
    <2>1. disk' = disk \/ disk' = [disk EXCEPT !.access = {}, !.refresh = {}]
      BY <1>5 DEF RevokeGrants
    <2> QED
      BY <1>1, <2>1, TokenWrites DEF SecretsKept, Replaced
  <1>6. CASE SavePassword(h)
    <2>1. req[h].pc = "save" /\ Knows(req[h], generation, InFile)
      BY <1>6 DEF SavePassword, IInv
    <2>2. BegunUnder(h)
      BY <2>1 DEF Knows, InFile, BegunUnder
    <2>3. disk'.answer = disk.answer
      BY <1>1, <1>6 DEF SavePassword, Mirrored
    <2> QED
      BY <2>1, <2>2, <2>3 DEF Replaced
  <1>7. CASE SaveAnswer(h)
    <2>1. CASE disk' = disk
      BY <2>1 DEF Replaced
    <2>2. CASE req[h].generation = generation /\ disk' = [disk EXCEPT !.answer = ids + 1]
      <3>1. req[h].pc = "answer" /\ Knows(req[h], generation, InFile)
        BY <1>7 DEF SaveAnswer, IInv
      <3>2. BegunUnder(h)
        BY <2>2, <3>1 DEF Knows, Verifying, InFile, BegunUnder
      <3>3. disk'.hash = disk.hash
        BY <1>1, <2>2 DEF Mirrored
      <3> QED
        BY <3>1, <3>2, <3>3 DEF Replaced
    <2> QED
      BY <1>7, <2>1, <2>2 DEF SaveAnswer
  <1>8. CASE ActivateClient(h)
    <2>1. disk' = disk \/ disk' = [disk EXCEPT !.clients = clients']
      BY <1>8 DEF ActivateClient
    <2> QED
      BY <1>1, <2>1, RegistryWrites DEF SecretsKept, Replaced
  <1>9. CASE ExchangeCode(h)
    <2>1. disk' = disk \/ \E c \in codes : Issue(c, {})
      BY <1>9 DEF ExchangeCode
    <2> QED
      BY <1>1, <2>1, IssueWrites DEF SecretsKept, Replaced
  <1>10. CASE RotateRefresh(h)
    <2>1. disk' = disk \/ \E r \in refresh : Issue(r, {r})
      BY <1>10 DEF RotateRefresh
    <2> QED
      BY <1>1, <2>1, IssueWrites DEF SecretsKept, Replaced
  <1> QED
    BY <1>2, <1>3, <1>4, <1>5, <1>6, <1>7, <1>8, <1>9, <1>10 DEF Step

LEMMA NextReplaces == IInv /\ [Next]_vars => Replaced
  <1> SUFFICES ASSUME IInv, [Next]_vars PROVE Replaced
    OBVIOUS
  <1>1. Mirrored
    BY DEF IInv, DataOK
  <1>2. CASE UNCHANGED vars
    BY <1>2 DEF vars, Replaced
  <1>3. ASSUME NEW h \in Handler, Step(h) \/ BeginAnswer(h)
        PROVE  Replaced
    BY <1>3, StepReplaces DEF BeginAnswer, Replaced
  <1>4. ASSUME NEW h \in Handler, NEW kind, NEW item, Begin(h, kind, item) \/ Present(h, kind, item)
        PROVE  Replaced
    BY <1>4 DEF Begin, Present, Replaced
  <1>5. CASE ExpireCode \/ Restart
    BY <1>5 DEF ExpireCode, Restart, Replaced
  <1>6. CASE Logout \/ Register \/ ExpireClient
    <2>1. disk' = [disk EXCEPT !.sessions = sessions'] \/ disk' = [disk EXCEPT !.clients = clients']
      BY <1>6 DEF Logout, Register, ExpireClient
    <2> QED
      BY <1>1, <2>1, RegistryWrites DEF SecretsKept, Replaced
  <1> QED
    BY <1>2, <1>3, <1>4, <1>5, <1>6 DEF Next

\* Of two changes of the password or the answer that overlap, the second to be
\* written is refused.
THEOREM ChangesAreNotLost == Spec => NoLostChange
  <1>1. IInv /\ [Next]_vars =>
          [/\ disk'.hash # disk.hash => \E h \in Handler : req[h].pc = "save" /\ BegunUnder(h)
           /\ disk'.answer # disk.answer => \E h \in Handler : req[h].pc = "answer" /\ BegunUnder(h)]_vars
    BY NextReplaces DEF Replaced
  <1> QED
    BY <1>1, SpecIInv, PTL DEF Spec, NoLostChange
=============================================================================

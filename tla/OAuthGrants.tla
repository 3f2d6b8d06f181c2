----------------------------- MODULE OAuthGrants -----------------------------
(***************************************************************************)
(* The credentials of the dashboard and what is granted by them: sessions, *)
(* authorization codes, access and refresh tokens, registered clients.     *)
(* Every registry is kept in memory and in a file of its own, and changes  *)
(* file first, under its own lock.  A credential is verified outside all   *)
(* locks, because that takes long; what the verification is for is done    *)
(* later, under the credential guard.  A password change replaces four     *)
(* files, and a write may fail or the process die between any two.  A       *)
(* password in the environment goes before the one in the file as long as  *)
(* the process lives; the next process may find another one, or none, and  *)
(* nothing is revoked for that.                                            *)
(*                                                                         *)
(* Sessions and access tokens are kept as the passwords they were issued   *)
(* under: nothing here depends on how many there are.                      *)
(***************************************************************************)
EXTENDS Naturals, FiniteSets

CONSTANTS
    Handler,       \* requests handled at the same time
    Nobody,        \* nobody holds the credential guard
    Kinds,         \* kinds of requests that occur
    MaxClients,    \* _MAX_OAUTH_CLIENTS
    MaxPending,    \* _MAX_PENDING_OAUTH_CLIENTS
    MaxCodes,      \* _MAX_OAUTH_CODES
    MaxGeneration, \* bound on the credential generation
    MaxIds         \* bound on the passwords and answers ever set, and on the
                   \* clients, codes and refresh tokens ever made

ASSUME GuardAssumption == Nobody \notin Handler
ASSUME LimitAssumption == MaxClients \in Nat \ {0} /\ MaxPending \in Nat \ {0} /\ MaxCodes \in Nat \ {0}
ASSUME BoundAssumption == MaxGeneration \in Nat /\ MaxIds \in Nat \ {0}

VARIABLES
    disk,          \* the files: hash, answer, sessions, access, refresh, clients
    sessions, access, refresh, clients,   \* the same registries in memory
    codes,         \* authorization codes, in memory only
    generation,    \* _credential_generation
    env,           \* the password in the environment of the process; 0: none
    guard,         \* holder of _auth_mutation_lock across steps
    req,           \* the requests
    ids,           \* secrets set and ids given out so far: each is new
    used,          \* history: grants made for each code and refresh token
    left,          \* history: passwords that were in force before a restart with
                   \* another environment, since the last revocation
    expired        \* history: clients whose time was over after a consent

memory == <<sessions, access, refresh, clients, codes, generation>>
vars == <<disk, memory, env, guard, req, ids, used, left, expired>>

Idle == [pc |-> "idle", kind |-> "none", source |-> "none", value |-> 0, generation |-> 0,
         item |-> 0, under |-> 0, over |-> 0, late |-> FALSE]

\* A server with a password, a security question and a client waiting for consent.
Init ==
    /\ disk = [hash |-> 1, answer |-> 1, sessions |-> {}, access |-> {}, refresh |-> {},
               clients |-> [c \in {1} |-> "pending"]]
    /\ sessions = {} /\ access = {} /\ refresh = {} /\ codes = {}
    /\ clients = [c \in {1} |-> "pending"]
    /\ generation = 0 /\ env = 0 /\ guard = Nobody
    /\ req = [h \in Handler |-> Idle]
    /\ ids = 1
    /\ used = [i \in 1..MaxIds |-> 0]
    /\ left = {} /\ expired = {}

GuardFree == guard = Nobody

Done(h) == req' = [req EXCEPT ![h] = Idle]
Goto(h, pc) == req' = [req EXCEPT ![h].pc = pc]

\* (Bound) Secrets and codes leave room for a token to be granted afterwards.
Room == ids + 1 < MaxIds

-----------------------------------------------------------------------------
(* Verification of a password or an answer, outside the guard *)

\* The password in force: the environment goes before the file.
Password == IF env # 0 THEN env ELSE disk.hash

Secret(source) ==
    CASE source = "environment" -> env
      [] source = "answer" -> disk.answer
      [] OTHER -> disk.hash

\* (Mutant) The file is compared, not the generation.
ProofMatchesFile(h) == req[h].value = Secret(req[h].source)

\* The proof is about the secret in force, and nothing has changed since.
ProofMatches(h) ==
    /\ req[h].generation = generation
    /\ req[h].value = Secret(req[h].source)

\* _verify_..._for_rotation, first half: what is in force, and the generation.
\* A password of the environment can neither be changed nor recovered.
Begin(h, kind, item) ==
    /\ GuardFree /\ req[h].pc = "idle" /\ kind \in Kinds
    /\ \/ kind = "login" /\ item = 0
       \/ kind = "authorize" /\ item \in DOMAIN clients
       \/ kind = "change" /\ item = 0 /\ env = 0 /\ sessions # {} /\ generation < MaxGeneration
       \/ kind = "recover" /\ item = 0 /\ env = 0 /\ disk.answer # 0 /\ generation < MaxGeneration
    /\ LET source == IF kind = "recover" THEN "answer"
                     ELSE IF env # 0 THEN "environment" ELSE "password" IN
       req' = [req EXCEPT ![h] = [pc |-> "verify", kind |-> kind, source |-> source,
                                  value |-> Secret(source), generation |-> generation, item |-> item,
                                  under |-> disk.hash, over |-> disk.answer, late |-> FALSE]]
    /\ UNCHANGED <<disk, memory, env, guard, ids, used, left, expired>>

\* Second half: the secret was wrong, or has changed meanwhile, or is proved.
Verify(h) ==
    /\ GuardFree /\ req[h].pc = "verify"
    /\ \/ Done(h)
       \/ ProofMatches(h) /\ Goto(h, req[h].kind)
    /\ UNCHANGED <<disk, memory, env, guard, ids, used, left, expired>>

-----------------------------------------------------------------------------
(* Sessions *)

\* _create_session, which drops sessions that have expired or are too many.
Login(h) ==
    /\ GuardFree /\ req[h].pc = "login"
    /\ \/ /\ ProofMatches(h)
          /\ \E kept \in SUBSET sessions : sessions' = kept \cup {Password}
          /\ disk' = [disk EXCEPT !.sessions = sessions']
       \/ UNCHANGED <<disk, sessions>>
    /\ Done(h)
    /\ UNCHANGED <<access, refresh, clients, codes, generation, env, guard, ids, used, left, expired>>

\* A session is closed or expires; another of the same password may remain.
Logout ==
    /\ \E s \in sessions : sessions' = sessions \ {s}
    /\ disk' = [disk EXCEPT !.sessions = sessions']
    /\ UNCHANGED <<access, refresh, clients, codes, generation, env, guard, req, ids, used, left, expired>>

-----------------------------------------------------------------------------
(* A password change *)

\* Whatever was verified before a revocation began is late afterwards.
Late(h) == [x \in Handler |-> IF x # h /\ req[x].pc # "idle" THEN [req[x] EXCEPT !.late = TRUE]
                                                           ELSE req[x]]

\* (Mutant) The guard stays locked.
Abandon(h) == UNCHANGED guard /\ Done(h)

Release(h) == guard' = Nobody /\ Done(h)

\* _commit_password_rotation: first no session is left ...
RevokeSessions(h) ==
    /\ GuardFree /\ req[h].pc \in {"change", "recover"}
    /\ \/ /\ ProofMatches(h)
          /\ sessions' = {} /\ disk' = [disk EXCEPT !.sessions = {}]
          /\ guard' = h /\ Goto(h, "revoke")
       \/ Done(h) /\ UNCHANGED <<disk, sessions, guard>>
    /\ UNCHANGED <<access, refresh, clients, codes, generation, env, ids, used, left, expired>>

\* (Mutant) A file that cannot be written does not stop the change.
RevokeGrantsIfPossible(h) ==
    /\ req[h].pc = "revoke"
    /\ generation' = generation + 1 /\ codes' = {}
    /\ \/ /\ access' = {} /\ refresh' = {} /\ left' = {}
          /\ disk' = [disk EXCEPT !.access = {}, !.refresh = {}]
       \/ UNCHANGED <<disk, access, refresh, left>>
    /\ req' = [Late(h) EXCEPT ![h].pc = "save"]
    /\ UNCHANGED <<sessions, clients, env, guard, ids, used, expired>>

\* ... then no grant.  Codes go, and proofs end, whether or not the file can be
\* written.
RevokeGrants(h) ==
    /\ req[h].pc = "revoke"
    /\ generation' = generation + 1 /\ codes' = {}
    /\ \/ /\ access' = {} /\ refresh' = {} /\ left' = {}
          /\ disk' = [disk EXCEPT !.access = {}, !.refresh = {}]
          /\ req' = [Late(h) EXCEPT ![h].pc = "save"] /\ UNCHANGED guard
       \/ /\ req' = [Late(h) EXCEPT ![h] = Idle] /\ guard' = Nobody
          /\ UNCHANGED <<disk, access, refresh, left>>
    /\ UNCHANGED <<sessions, clients, env, ids, used, expired>>

\* ... then the new password ...
SavePassword(h) ==
    /\ req[h].pc = "save"
    /\ \/ /\ Room
          /\ disk' = [disk EXCEPT !.hash = ids + 1] /\ ids' = ids + 1
          /\ Goto(h, "session") /\ UNCHANGED guard
       \/ Release(h) /\ UNCHANGED <<disk, ids>>
    /\ UNCHANGED <<memory, env, used, left, expired>>

\* ... and a session for who changed it.
NewSession(h) ==
    /\ req[h].pc = "session"
    /\ \/ /\ sessions' = sessions \cup {Password}
          /\ disk' = [disk EXCEPT !.sessions = sessions']
       \/ UNCHANGED <<disk, sessions>>
    /\ Release(h)
    /\ UNCHANGED <<access, refresh, clients, codes, generation, env, ids, used, left, expired>>

\* The security question: who is logged in, and the generation, first ...
BeginAnswer(h) ==
    /\ GuardFree /\ req[h].pc = "idle" /\ "answer" \in Kinds
    /\ sessions # {} /\ generation < MaxGeneration
    /\ req' = [req EXCEPT ![h] = [Idle EXCEPT !.pc = "answer", !.generation = generation,
                                              !.under = disk.hash, !.over = disk.answer]]
    /\ UNCHANGED <<disk, memory, env, guard, ids, used, left, expired>>

\* (Mutant) The generation is not compared: the last answer to be hashed wins.
SaveAnswerBlindly(h) ==
    /\ GuardFree /\ req[h].pc = "answer"
    /\ \/ /\ Room
          /\ disk' = [disk EXCEPT !.answer = ids + 1] /\ ids' = ids + 1
          /\ generation' = generation + 1
       \/ UNCHANGED <<disk, ids, generation>>
    /\ Done(h)
    /\ UNCHANGED <<sessions, access, refresh, clients, codes, env, guard, used, left, expired>>

\* ... and the file after the answer has been hashed, unless a password or an
\* answer has changed since.
SaveAnswer(h) ==
    /\ GuardFree /\ req[h].pc = "answer"
    /\ \/ /\ req[h].generation = generation /\ Room
          /\ disk' = [disk EXCEPT !.answer = ids + 1] /\ ids' = ids + 1
          /\ generation' = generation + 1
       \/ UNCHANGED <<disk, ids, generation>>
    /\ Done(h)
    /\ UNCHANGED <<sessions, access, refresh, clients, codes, env, guard, used, left, expired>>

-----------------------------------------------------------------------------
(* Clients *)

With(f, x, y) == [z \in DOMAIN f \cup {x} |-> IF z = x THEN y ELSE f[z]]
Without(f, S) == [z \in DOMAIN f \ S |-> f[z]]
Pending == {c \in DOMAIN clients : clients[c] = "pending"}

\* (Mutant) A full registry forgets its oldest client.
EvictOldest ==
    IF Cardinality(DOMAIN clients) < MaxClients THEN {}
    ELSE {c \in DOMAIN clients : \A d \in DOMAIN clients : c <= d}

\* A full registry forgets the oldest client nobody has consented to.
Evicted ==
    IF Cardinality(DOMAIN clients) < MaxClients THEN {}
    ELSE {c \in Pending : \A d \in Pending : c <= d}

\* oauth_register: ids are given out in the order of time.
Register ==
    /\ "register" \in Kinds /\ ids < MaxIds
    /\ Cardinality(Pending) < MaxPending
    /\ Cardinality(DOMAIN clients) < MaxClients \/ Pending # {}
    /\ clients' = With(Without(clients, Evicted), ids + 1, "pending")
    /\ disk' = [disk EXCEPT !.clients = clients']
    /\ ids' = ids + 1
    /\ UNCHANGED <<sessions, access, refresh, codes, generation, env, guard, req, used, left, expired>>

\* A registration nobody consented to in time is dropped by every reader, and so
\* is a client when its year since the last consent is over, whatever tokens it
\* still renews.
ExpireClient ==
    /\ \E c \in DOMAIN clients :
         /\ clients' = Without(clients, {c})
         /\ expired' = IF clients[c] = "active" THEN expired \cup {c} ELSE expired
    /\ disk' = [disk EXCEPT !.clients = clients']
    /\ UNCHANGED <<sessions, access, refresh, codes, generation, env, guard, req, ids, used, left>>

-----------------------------------------------------------------------------
(* Codes *)

\* _store_authorization_code: refused when a revocation came first.
StoreCode(h) ==
    /\ GuardFree /\ req[h].pc = "authorize"
    /\ IF ProofMatches(h) /\ Cardinality(codes) < MaxCodes /\ Room
       THEN /\ codes' = codes \cup {[id |-> ids + 1, client |-> req[h].item, given |-> FALSE,
                                     generation |-> generation, under |-> Password,
                                     late |-> req[h].late]}
            /\ ids' = ids + 1
            /\ req' = [req EXCEPT ![h].pc = "activate", ![h].value = ids + 1]
       ELSE Done(h) /\ UNCHANGED <<codes, ids>>
    /\ UNCHANGED <<disk, sessions, access, refresh, clients, generation, env, guard, used, left, expired>>

CodeOf(h) == {c \in codes : c.id = req[h].value}

\* _activate_oauth_client, after which the code is redirected to the client;
\* or the client is gone or cannot be saved, and the code is taken back.
ActivateClient(h) ==
    /\ req[h].pc = "activate"
    /\ \/ /\ req[h].item \in DOMAIN clients
          /\ clients' = With(clients, req[h].item, "active")
          /\ disk' = [disk EXCEPT !.clients = clients']
          /\ codes' = (codes \ CodeOf(h)) \cup {[c EXCEPT !.given = TRUE] : c \in CodeOf(h)}
       \/ codes' = codes \ CodeOf(h) /\ UNCHANGED <<clients, disk>>
    /\ Done(h)
    /\ UNCHANGED <<sessions, access, refresh, generation, env, guard, ids, used, left, expired>>

ExpireCode ==
    /\ \E c \in codes : codes' = codes \ {c}
    /\ UNCHANGED <<disk, sessions, access, refresh, clients, generation, env, guard, req, ids, used, left, expired>>

-----------------------------------------------------------------------------
(* Tokens *)

\* oauth_token reads the code or the refresh token before it checks the request.
Present(h, kind, id) ==
    /\ req[h].pc = "idle" /\ kind \in Kinds
    /\ \/ kind = "exchange" /\ \E c \in codes : c.id = id /\ c.given
       \/ kind = "refresh" /\ \E r \in refresh : r.id = id
    /\ req' = [req EXCEPT ![h] = [Idle EXCEPT !.pc = kind, !.item = id]]
    /\ UNCHANGED <<disk, memory, env, guard, ids, used, left, expired>>

\* A new access and a new refresh token for what a code or refresh token granted.
Issue(from, spent) ==
    /\ ids < MaxIds
    /\ access' = access \cup {from.under}
    /\ refresh' = (refresh \ spent) \cup {[id |-> ids + 1, client |-> from.client, under |-> from.under]}
    /\ disk' = [disk EXCEPT !.access = access', !.refresh = refresh']
    /\ ids' = ids + 1
    /\ used' = [used EXCEPT ![from.id] = @ + 1]

\* _commit_authorization_code_exchange: the code must still be there, and of the
\* current generation; it is consumed with the grant.
ExchangeCode(h) ==
    /\ GuardFree /\ req[h].pc = "exchange"
    /\ \/ \E c \in codes : /\ c.id = req[h].item /\ c.generation = generation
                           /\ Issue(c, {}) /\ codes' = codes \ {c}
       \/ /\ \E c \in codes : c.id = req[h].item /\ codes' = codes \ {c}
          /\ UNCHANGED <<disk, access, refresh, ids, used>>
       \/ UNCHANGED <<disk, access, refresh, codes, ids, used>>
    /\ Done(h)
    /\ UNCHANGED <<sessions, clients, generation, env, guard, left, expired>>

\* (Mutant) The old refresh token is dropped after the new one has been saved.
RotateLate(h) ==
    /\ GuardFree /\ req[h].pc = "refresh"
    /\ \/ \E r \in refresh : r.id = req[h].item /\ Issue(r, {})
       \/ UNCHANGED <<disk, access, refresh, ids, used>>
    /\ Done(h)
    /\ UNCHANGED <<sessions, clients, codes, generation, env, guard, left, expired>>

\* _commit_refresh_token_rotation: the token must still be there, and is replaced.
RotateRefresh(h) ==
    /\ GuardFree /\ req[h].pc = "refresh"
    /\ \/ \E r \in refresh : r.id = req[h].item /\ Issue(r, {r})
       \/ UNCHANGED <<disk, access, refresh, ids, used>>
    /\ Done(h)
    /\ UNCHANGED <<sessions, clients, codes, generation, env, guard, left, expired>>

-----------------------------------------------------------------------------
(* The process dies and starts again: memory is what the files say. *)

\* The new process has the password of the old environment, or none, or another.
NewEnvironment ==
    \/ UNCHANGED <<env, ids>>
    \/ "environment" \in Kinds /\ env # 0 /\ env' = 0 /\ UNCHANGED ids
    \/ "environment" \in Kinds /\ Room /\ env' = ids + 1 /\ ids' = ids + 1

Restart ==
    /\ sessions' = disk.sessions /\ access' = disk.access /\ refresh' = disk.refresh
    /\ clients' = [c \in DOMAIN disk.clients |->
                      IF \E r \in disk.refresh : r.client = c THEN "active" ELSE disk.clients[c]]
    /\ codes' = {} /\ generation' = 0 /\ guard' = Nobody
    /\ req' = [h \in Handler |-> Idle]
    /\ UNCHANGED <<disk, used, expired>>
    /\ NewEnvironment
    /\ left' = IF Password' = Password THEN left ELSE left \cup {Password}

Step(h) ==
    \/ Verify(h) \/ Login(h)
    \/ RevokeSessions(h) \/ RevokeGrants(h) \/ SavePassword(h) \/ NewSession(h) \/ SaveAnswer(h)
    \/ StoreCode(h) \/ ActivateClient(h) \/ ExchangeCode(h) \/ RotateRefresh(h)

Next ==
    \/ \E h \in Handler : Step(h) \/ BeginAnswer(h)
    \/ \E h \in Handler, kind \in {"login", "authorize", "change", "recover"}, item \in 0..MaxIds :
         Begin(h, kind, item)
    \/ \E h \in Handler, kind \in {"exchange", "refresh"}, id \in 1..MaxIds : Present(h, kind, id)
    \/ Logout \/ Register \/ ExpireClient \/ ExpireCode \/ Restart

Spec == Init /\ [][Next]_vars

-----------------------------------------------------------------------------
(* Properties *)

Client == 1..MaxIds
Refresh == [id : 1..MaxIds, client : Client, under : Nat]

TypeOK ==
    /\ disk.hash \in Nat /\ disk.answer \in Nat
    /\ sessions \subseteq Nat /\ access \subseteq Nat /\ refresh \subseteq Refresh
    /\ disk.sessions \subseteq Nat /\ disk.access \subseteq Nat /\ disk.refresh \subseteq Refresh
    /\ DOMAIN clients \subseteq Client /\ DOMAIN disk.clients \subseteq Client
    /\ \A c \in codes : c.id \in 1..MaxIds /\ c.client \in Client
    /\ generation \in Nat /\ ids \in Nat
    /\ guard \in Handler \cup {Nobody}
    /\ \A h \in Handler : req[h].pc \in {"revoke", "save", "session"} <=> guard = h
    /\ used \in [1..MaxIds -> Nat]
    /\ env \in Nat /\ left \subseteq Nat /\ expired \subseteq Client

\* Nothing granted under an earlier password is good under one that was set by
\* a change or a recovery, in memory or on disk, wherever that failed or was cut
\* off.  (A password that came into force with the environment of a new process
\* revokes nothing: what was granted under those before it stays good until the
\* next change.)
NoGrantOutlivesPassword ==
    /\ sessions \cup disk.sessions \subseteq {Password} \cup left
    /\ access \cup disk.access \subseteq {Password} \cup left
    /\ \A g \in codes \cup refresh \cup disk.refresh : g.under \in {Password} \cup left

\* No code comes of a verification that began before the last revocation, even
\* when the revocation could not be written down.
NoLateCode == \A c \in codes : ~c.late

\* A code or a refresh token is good for one grant, over restarts too.
SingleUse == \A i \in 1..MaxIds : used[i] <= 1

\* Whoever holds a refresh token is registered, in memory and on disk: no full
\* registry, restart or expiry of a request for consent takes the client away.
\* (But its year since the consent may be over: renewing the token does not
\* extend it.)
GrantedClientKept ==
    \A r \in refresh \cup disk.refresh : r.client \notin expired =>
        /\ r.client \in DOMAIN clients /\ clients[r.client] = "active"
        /\ r.client \in DOMAIN disk.clients /\ disk.clients[r.client] = "active"

\* The password and the answer in force are those that h began under.
BegunUnder(h) == req[h].under = disk.hash /\ req[h].over = disk.answer

\* Of two changes of a password or an answer that overlap, the second does not
\* undo the first: whoever replaces either has begun under both.
NoLostChange ==
    [][/\ disk'.hash # disk.hash => \E h \in Handler : req[h].pc = "save" /\ BegunUnder(h)
       /\ disk'.answer # disk.answer => \E h \in Handler : req[h].pc = "answer" /\ BegunUnder(h)]_vars
=============================================================================

----------------------------- MODULE GatewayTurns -----------------------------
(***************************************************************************)
(* The turns of the chat gateway and the reminders they carry.  A turn     *)
(* reads what to inject before the upstream model is asked, and does its   *)
(* bookkeeping - a round of the session, then a mark per reminder - after  *)
(* the answer, in one stretch of the event loop.  Requests of all sessions *)
(* overlap; the server changes reminders from its own process at any time; *)
(* the gateway may die between any two steps.                              *)
(***************************************************************************)
EXTENDS ReminderStore

CONSTANTS
    Turn,          \* requests the gateway handles at the same time
    Free,          \* nobody holds the event loop
    InjectLimit,   \* active_reminder_inject_limit
    Ops,           \* what the server is asked to do
    MaxRounds,     \* bound on the rounds of a session
    MaxEdits       \* bound on the calls of the server

ASSUME TurnAssumption == IsFiniteSet(Turn) /\ Free \notin Turn
ASSUME InjectAssumption == InjectLimit \in Nat \ {0}

VARIABLES
    rounds,        \* rounds recorded per session, in the gateway's own database
    turn,          \* the requests
    loop,          \* the turn that holds the event loop while it records
    edits,         \* calls of the server so far
    marks,         \* history: times the gateway marked a reminder
    had,           \* history: marks when its limit on all appearances was set
    shown,         \* history: marks today, since its daily limit was set
    seen,          \* history: shown, when the server's mark_reminded read the row
    lost,          \* history: those of shown that a mark of the server overwrote
    foreign        \* history: reminders stamped by the server, or for another session

turnVars == <<rounds, turn, loop>>
history == <<marks, had, shown, seen, lost, foreign>>
vars == <<storeVars, turnVars, edits, history>>

Idle == [pc |-> "idle", s |-> Free, asks |-> FALSE, persist |-> FALSE, ids |-> {}, round |-> 0,
         cur |-> Free, read |-> Free, at |-> 0]

Init ==
    /\ StoreInit
    /\ rounds = [s \in Session |-> 0]
    /\ turn = [t \in Turn |-> Idle]
    /\ loop = Free
    /\ edits = 0
    /\ marks = [r \in Reminder |-> 0]
    /\ had = [r \in Reminder |-> 0]
    /\ shown = [r \in Reminder |-> 0]
    /\ seen = 0
    /\ lost = [r \in Reminder |-> 0]
    /\ foreign = {}

-----------------------------------------------------------------------------
(* A request, up to the answer *)

LoopFree == loop = Free

\* handle_chat: a message of the user, the continuation of a tool call, or a
\* diagnostic probe, whose turn is never persisted.
HandleChat(t, s, kind) ==
    /\ LoopFree /\ turn[t].pc = "idle" /\ rounds[s] < MaxRounds
    /\ turn' = [turn EXCEPT ![t] = [Idle EXCEPT !.pc = "prepare", !.s = s,
                                                !.asks = (kind # "continuation"),
                                                !.persist = (kind = "user")]]
    /\ UNCHANGED <<storeVars, rounds, loop, edits, history>>

\* (Mutant) reminders are stamped when they are put into the prompt.
StampActiveReminders(t) ==
    LET s == turn[t].s
        due == DueIds(s, rounds[s] + 1) IN
    /\ LoopFree /\ turn[t].pc = "prepare" /\ turn[t].asks
    /\ \E ids \in SUBSET due :
         /\ \/ ids = due /\ Cardinality(due) <= InjectLimit
            \/ Cardinality(ids) = InjectLimit
         /\ turn' = [turn EXCEPT ![t].pc = "upstream", ![t].asks = FALSE, ![t].ids = ids]
         /\ row' = [r \in DOMAIN row |-> IF r \in ids THEN [Swept[r] EXCEPT !.lastRound = rounds[s] + 1]
                                                      ELSE Swept[r]]
    /\ UNCHANGED <<now, hand, rounds, loop, edits, history>>

\* _build_active_reminders_block: what is due in the round this turn hopes to
\* be, cut to the limit.  Only a new message of the user asks for reminders.
BuildActiveReminders(t) ==
    LET due == DueIds(turn[t].s, rounds[turn[t].s] + 1) IN
    /\ LoopFree /\ turn[t].pc = "prepare" /\ turn[t].asks
    /\ \E ids \in SUBSET due :
         /\ \/ ids = due /\ Cardinality(due) <= InjectLimit
            \/ Cardinality(ids) = InjectLimit
         /\ turn' = [turn EXCEPT ![t].pc = "upstream", ![t].asks = FALSE, ![t].ids = ids]
    /\ row' = Swept
    /\ UNCHANGED <<now, hand, rounds, loop, edits, history>>

\* No reminders: a continuation, reminders switched off, or a failed lookup.
SkipReminders(t) ==
    /\ LoopFree /\ turn[t].pc = "prepare"
    /\ turn' = [turn EXCEPT ![t].pc = "upstream", ![t].asks = FALSE]
    /\ UNCHANGED <<storeVars, rounds, loop, edits, history>>

\* The upstream fails, answers nothing, or the client goes away first.
NoAnswer(t) ==
    /\ LoopFree /\ turn[t].pc = "upstream"
    /\ turn' = [turn EXCEPT ![t] = Idle]
    /\ UNCHANGED <<storeVars, rounds, loop, edits, history>>

-----------------------------------------------------------------------------
(* The bookkeeping after an answer *)

\* An answer to a turn that is not to be persisted leaves no trace.
SkipRound(t) == turn[t].pc = "upstream" /\ ~turn[t].persist /\ NoAnswer(t)

\* record_success: the next round of the session, in one transaction.
RecordSuccess(t) ==
    LET s == turn[t].s IN
    /\ LoopFree /\ turn[t].pc = "upstream" /\ turn[t].persist
    /\ rounds' = [rounds EXCEPT ![s] = @ + 1]
    /\ turn' = [turn EXCEPT ![t].pc = "marking", ![t].round = rounds[s] + 1]
    /\ loop' = t
    /\ UNCHANGED <<storeVars, edits, history>>

\* mark_reminded reads the row ...
MarkRead(t, r) ==
    /\ turn[t].pc = "marking" /\ r \in turn[t].ids
    /\ turn' = [turn EXCEPT ![t].pc = "writing", ![t].cur = r, ![t].read = row[r], ![t].at = now]
    /\ UNCHANGED <<storeVars, rounds, loop, edits, history>>

\* ... and updates it.
MarkWrite(t) ==
    LET r == turn[t].cur
        ours == row[r].session \in {Anyone, turn[t].s} IN
    /\ turn[t].pc = "writing"
    /\ row' = [row EXCEPT ![r] = Marked(@, turn[t].read, turn[t].at, turn[t].round)]
    /\ turn' = [turn EXCEPT ![t].pc = "marking", ![t].cur = Free, ![t].read = Free, ![t].at = 0,
                            ![t].ids = @ \ {r}]
    /\ marks' = [marks EXCEPT ![r] = @ + 1]
    /\ shown' = [shown EXCEPT ![r] = IF Day(turn[t].at) = Day(now) THEN @ + 1 ELSE @]
    /\ foreign' = IF ours THEN foreign \ {r} ELSE foreign \cup {r}
    /\ UNCHANGED <<now, hand, rounds, loop, edits, had, seen, lost>>

\* A mark that fails (a locked database) is logged and forgotten.
MarkFails(t, r) ==
    /\ \/ turn[t].pc = "marking" /\ r \in turn[t].ids
       \/ turn[t].pc = "writing" /\ r = turn[t].cur
    /\ turn' = [turn EXCEPT ![t].pc = "marking", ![t].cur = Free, ![t].read = Free, ![t].at = 0,
                            ![t].ids = @ \ {r}]
    /\ UNCHANGED <<storeVars, rounds, loop, edits, history>>

Finish(t) ==
    /\ turn[t].pc = "marking" /\ turn[t].ids = {}
    /\ turn' = [turn EXCEPT ![t] = Idle]
    /\ loop' = Free
    /\ UNCHANGED <<storeVars, rounds, edits, history>>

\* The gateway dies; its databases stay.
Restart ==
    /\ \E t \in Turn : turn[t].pc # "idle"
    /\ turn' = [t \in Turn |-> Idle]
    /\ loop' = Free
    /\ UNCHANGED <<storeVars, rounds, edits, history>>

-----------------------------------------------------------------------------
(* The server and the clock *)

Edit(op) == op \in Ops /\ edits < MaxEdits /\ edits' = edits + 1

Serve ==
    /\ \/ Edit("create") /\ \E r \in Reminder, d \in Draft : Create(r, d)
       \/ Edit("status") /\ \E r \in Reminder, st \in {"active", "done", "archived"} : SetStatus(r, st)
       \/ Edit("snooze") /\ \E r \in Reminder : Snooze(r)
       \/ UNCHANGED edits /\ List
    /\ UNCHANGED <<turnVars, history>>

Change(r, d) ==
    /\ Edit("update") /\ Update(r, d)
    /\ had' = IF TotalLimit(row'[r]) = TotalLimit(row[r]) THEN had ELSE [had EXCEPT ![r] = marks[r]]
    /\ foreign' = IF row'[r].session = row[r].session THEN foreign ELSE foreign \cup {r}
    /\ UNCHANGED <<turnVars, marks, shown, seen, lost>>

Relimit(r, n) ==
    /\ Edit("limit") /\ SetDailyLimit(r, n)
    /\ shown' = [shown EXCEPT ![r] = 0]
    /\ lost' = [lost EXCEPT ![r] = 0]
    /\ UNCHANGED <<turnVars, marks, had, seen, foreign>>

MarkByHandReads(r, round) ==
    /\ Edit("mark") /\ HandRead(r, round)
    /\ seen' = shown[r]
    /\ UNCHANGED <<turnVars, marks, had, shown, lost, foreign>>

\* What the gateway marked since the read is no longer counted for the day.
MarkByHandWrites ==
    LET r == hand.r IN
    /\ HandWrite
    /\ lost' = [lost EXCEPT ![r] = IF Day(hand.at) = Day(now) THEN @ + (shown[r] - seen) ELSE shown[r]]
    /\ foreign' = foreign \cup {r}
    /\ seen' = 0
    /\ UNCHANGED <<turnVars, edits, marks, had, shown>>

MarkByHandFails ==
    /\ HandFails
    /\ seen' = 0
    /\ UNCHANGED <<turnVars, edits, marks, had, shown, lost, foreign>>

HalfDay ==
    /\ Tick
    /\ IF Day(now') = Day(now) THEN UNCHANGED <<shown, lost>>
       ELSE shown' = [r \in Reminder |-> 0] /\ lost' = [r \in Reminder |-> 0]
    /\ UNCHANGED <<turnVars, edits, marks, had, seen, foreign>>

-----------------------------------------------------------------------------
Step(t) ==
    \/ BuildActiveReminders(t) \/ SkipReminders(t)
    \/ NoAnswer(t) \/ SkipRound(t) \/ RecordSuccess(t)
    \/ \E r \in Reminder : MarkRead(t, r) \/ MarkFails(t, r)
    \/ MarkWrite(t) \/ Finish(t)

Next ==
    \/ \E t \in Turn : Step(t)
    \/ \E t \in Turn, s \in Session, kind \in {"user", "continuation", "probe"} : HandleChat(t, s, kind)
    \/ Restart \/ Serve \/ HalfDay
    \/ \E r \in Reminder, n \in 0..1 : Relimit(r, n)
    \/ \E r \in Reminder, d \in Draft : Change(r, d)
    \/ \E r \in Reminder, round \in Stamp : MarkByHandReads(r, round)
    \/ MarkByHandWrites \/ MarkByHandFails

Spec == Init /\ [][Next]_vars

-----------------------------------------------------------------------------
(* Properties *)

RowType == [status : {"active", "done", "archived"},
            rule : {"once", "every_n_rounds", "daily", "morning_evening"},
            session : Session \cup {Anyone}, end : Nat \cup {Never}, due : Nat \cup {Never},
            interval : Nat, dailyLimit : Nat, maxInjections : Nat, count : Nat,
            day : Nat \cup {Never}, dayCount : Nat, lastRound : Nat]

TypeOK ==
    /\ DOMAIN row \subseteq Reminder /\ \A r \in DOMAIN row : row[r] \in RowType
    /\ now \in Nat /\ edits \in Nat
    /\ rounds \in [Session -> Nat]
    /\ marks \in [Reminder -> Nat] /\ had \in [Reminder -> Nat]
    /\ shown \in [Reminder -> Nat] /\ seen \in Nat /\ lost \in [Reminder -> Nat]
    /\ foreign \subseteq Reminder
    /\ hand \in {NoHand} \cup [r : DOMAIN row, read : RowType, at : Nat, round : Nat]
    /\ loop \in Turn \cup {Free}
    /\ \A t \in Turn : turn[t].pc \in {"idle", "prepare", "upstream", "marking", "writing"}

\* A reminder is stamped only with a round that took place, in the session
\* the reminder belongs to: a turn that failed or was forgotten leaves no stamp.
\* Not so a stamp that the server wrote, with the round it was given, or one
\* from before the reminder was moved to another session.
StampedWhenShown ==
    \A r \in DOMAIN row \ foreign : row[r].lastRound > 0 =>
        \E s \in Session : /\ row[r].session \in {Anyone, s}
                           /\ row[r].lastRound <= rounds[s]

\* The gateway goes over the limit on all appearances only by turns that were
\* under way together, so never with one turn at a time.  If the limit is set
\* lower than what was shown before, only turns under way then still mark it.
TotalLimitKept ==
    \A r \in DOMAIN row : TotalLimit(row[r]) > 0 =>
        \/ marks[r] <= TotalLimit(row[r]) + Cardinality(Turn) - 1
        \/ marks[r] <= had[r] + Cardinality(Turn)

\* The same of the limit per day, across midnight and resets of the limit, but
\* for marks of turns that the server's mark_reminded, which had read the row
\* before them, has overwritten.
DailyLimitKept ==
    \A r \in DOMAIN row : row[r].dailyLimit > 0 =>
        shown[r] <= row[r].dailyLimit + Cardinality(Turn) - 1 + lost[r]

\* No answer, late or failed, and no late mark of the server reopens a reminder
\* that is to appear once, unless it read the row before the rule was changed.
OnceIsOnce ==
    [][\A r \in DOMAIN row :
         /\ row[r].rule = "once" /\ row[r].status # "active" /\ edits' = edits
         /\ \A t \in Turn : turn[t].cur = r => turn[t].read.rule = "once"
         => row'[r].status # "active"]_vars

\* What people finished stays finished until they reopen it.  It does not: a
\* turn that had picked the reminder before marks it, which makes it active.
DoneStaysDone ==
    [][\A r \in DOMAIN row : row[r].status = "done" /\ edits' = edits => row'[r].status = "done"]_vars
=============================================================================

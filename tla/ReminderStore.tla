---------------------------- MODULE ReminderStore ----------------------------
(***************************************************************************)
(* The reminders ("care memos") of one SQLite table: who may see which,    *)
(* when one is due, and what being reminded does to it.  Two processes     *)
(* use the table: the gateway, which picks due reminders for a turn and    *)
(* marks them when the turn has succeeded, and the server, whose tools and *)
(* web page create, change, finish, snooze, limit and mark them.  The      *)
(* server handles one call at a time; the gateway and the clock go on      *)
(* meanwhile.  Time moves in half days, 06:00 and 20:00, the two slots of  *)
(* the rule "morning_evening".                                             *)
(***************************************************************************)
EXTENDS Naturals, FiniteSets

CONSTANTS
    Reminder,      \* reminder ids
    Session,       \* chat sessions
    Anyone,        \* session_id "": visible in every session
    Never,         \* no time given
    Draft,         \* the reminders people ask for
    LastTick,      \* bound on the half days
    Stamp          \* round numbers people give with a mark

ASSUME TickAssumption == LastTick \in Nat /\ Never \notin Nat \cup Reminder
ASSUME StampAssumption == Stamp \subseteq Nat
ASSUME DraftAssumption == Draft \subseteq
    [rule : {"once", "every_n_rounds", "daily", "morning_evening"},
     session : Session \cup {Anyone}, end : 0..LastTick \cup {Never}, due : 0..LastTick \cup {Never},
     interval : Nat, dailyLimit : Nat, maxInjections : Nat]

VARIABLES
    row,           \* the table: a reminder per id that exists
    now,           \* half days since the start
    hand           \* the mark_reminded of the server between its read and its update

storeVars == <<row, now, hand>>

Day(t) == t \div 2

New(d) == [status |-> "active", rule |-> d.rule, session |-> d.session, end |-> d.end, due |-> d.due,
           interval |-> d.interval, dailyLimit |-> d.dailyLimit, maxInjections |-> d.maxInjections,
           count |-> 0, day |-> Never, dayCount |-> 0, lastRound |-> 0]

NoHand == [r |-> Never, read |-> Never, at |-> 0, round |-> 0]

StoreInit == row = <<>> /\ now = 0 /\ hand = NoHand

-----------------------------------------------------------------------------
(* When a reminder is due *)

\* The limit on all appearances, or 0: "once" is a limit of one.
TotalLimit(item) == IF item.rule = "once" THEN 1 ELSE item.maxInjections

Expired(item, t) == item.end # Never /\ t > item.end

\* (Mutant) no limit on all appearances.
RowIsDueEndlessly(item, s, round) ==
    /\ item.status = "active"
    /\ item.session \in {Anyone, s}
    /\ ~Expired(item, now)
    /\ item.due = Never \/ now >= item.due
    /\ ~(item.dailyLimit > 0 /\ item.day = Day(now) /\ item.dayCount >= item.dailyLimit)
    /\ (item.interval > 0 /\ item.lastRound > 0 /\ round > 0)
           => round >= item.lastRound + item.interval

\* (Mutant) no limit per day.
RowIsDueAllDay(item, s, round) ==
    /\ item.status = "active"
    /\ item.session \in {Anyone, s}
    /\ ~Expired(item, now)
    /\ item.due = Never \/ now >= item.due
    /\ TotalLimit(item) = 0 \/ item.count < TotalLimit(item)
    /\ (item.interval > 0 /\ item.lastRound > 0 /\ round > 0)
           => round >= item.lastRound + item.interval

RowIsDue(item, s, round) ==
    /\ item.status = "active"
    /\ item.session \in {Anyone, s}
    /\ ~Expired(item, now)
    /\ item.due = Never \/ now >= item.due
    /\ TotalLimit(item) = 0 \/ item.count < TotalLimit(item)
    /\ ~(item.dailyLimit > 0 /\ item.day = Day(now) /\ item.dayCount >= item.dailyLimit)
    /\ (item.interval > 0 /\ item.lastRound > 0 /\ round > 0)
           => round >= item.lastRound + item.interval

\* archive_expired, which list and due run before they look.
Swept == [r \in DOMAIN row |->
    IF row[r].status = "active" /\ Expired(row[r], now) THEN [row[r] EXCEPT !.status = "archived"]
                                                   ELSE row[r]]

DueIds(s, round) == {r \in DOMAIN row : RowIsDue(Swept[r], s, round)}

-----------------------------------------------------------------------------
(* What being reminded does *)

\* The same time of day, today if it is yet to come and tomorrow if not.
NextDailyDue(item, t) ==
    LET slot == (IF item.due = Never THEN t ELSE item.due) % 2
        today == 2 * Day(t) + slot
    IN IF today > t THEN today ELSE today + 2

NextDue(item, t) ==
    CASE item.rule = "daily"           -> NextDailyDue(item, t)
      [] item.rule = "morning_evening" -> t + 1
      [] item.rule = "once"            -> Never
      [] OTHER                         -> item.due

\* (Mutant) only counted limits archive.
ArchivedAfterLimit(item, t) ==
    \/ item.maxInjections > 0 /\ item.count + 1 >= item.maxInjections
    \/ Expired(item, t)
    \/ item.end # Never /\ NextDue(item, t) # Never /\ NextDue(item, t) > item.end

ArchivedAfter(item, t) ==
    \/ item.rule = "once"
    \/ item.maxInjections > 0 /\ item.count + 1 >= item.maxInjections
    \/ Expired(item, t)
    \/ item.end # Never /\ NextDue(item, t) # Never /\ NextDue(item, t) > item.end

\* The UPDATE of mark_reminded: everything but the count comes from the row
\* that was read at time t, whatever happened to the reminder since.
Marked(current, read, t, round) ==
    [current EXCEPT !.count = @ + 1,
                    !.lastRound = round,
                    !.day = Day(t),
                    !.dayCount = IF read.day = Day(t) THEN read.dayCount + 1 ELSE 1,
                    !.due = NextDue(read, t),
                    !.status = IF ArchivedAfter(read, t) THEN "archived" ELSE "active"]

-----------------------------------------------------------------------------
(* The server's tools and web page, one call at a time *)

Call(r) == hand = NoHand /\ r \in DOMAIN row /\ UNCHANGED <<now, hand>>

\* create: a new row is active and has never been shown.
Create(r, d) ==
    /\ hand = NoHand
    /\ r \notin DOMAIN row
    /\ row' = [x \in DOMAIN row \cup {r} |-> IF x = r THEN New(d) ELSE row[x]]
    /\ UNCHANGED <<now, hand>>

\* update(status=...): any status may follow any other.
SetStatus(r, status) ==
    /\ Call(r)
    /\ row' = [row EXCEPT ![r].status = status]

\* update of a field; a call that gives several is as many updates in a row.
Update(r, d) ==
    /\ Call(r)
    /\ \/ row' = [row EXCEPT ![r].rule = d.rule]
       \/ row' = [row EXCEPT ![r].session = d.session]
       \/ row' = [row EXCEPT ![r].end = d.end]
       \/ row' = [row EXCEPT ![r].due = d.due]
       \/ row' = [row EXCEPT ![r].interval = d.interval]
       \/ row' = [row EXCEPT ![r].maxInjections = d.maxInjections]

\* snooze: due later, and active again.
Snooze(r) ==
    /\ Call(r)
    /\ row' = [row EXCEPT ![r].due = now + 1, ![r].status = "active"]

\* update(daily_limit=...) starts the count of the day again.
SetDailyLimit(r, n) ==
    /\ Call(r)
    /\ row' = [row EXCEPT ![r].dailyLimit = n, ![r].day = Never, ![r].dayCount = 0]

\* PATCH /api/reminders/{id} with mark_reminded and any round: mark_reminded
\* reads the row ...
HandRead(r, round) ==
    /\ hand = NoHand /\ r \in DOMAIN row
    /\ hand' = [r |-> r, read |-> row[r], at |-> now, round |-> round]
    /\ UNCHANGED <<row, now>>

\* ... and updates it.
HandWrite ==
    /\ hand # NoHand
    /\ row' = [row EXCEPT ![hand.r] = Marked(@, hand.read, hand.at, hand.round)]
    /\ hand' = NoHand
    /\ UNCHANGED now

\* The update fails (a locked database).
HandFails == hand # NoHand /\ hand' = NoHand /\ UNCHANGED <<row, now>>

\* reminder_list: looking archives what has expired.
List == hand = NoHand /\ row' = Swept /\ UNCHANGED <<now, hand>>

Tick == now < LastTick /\ now' = now + 1 /\ UNCHANGED <<row, hand>>
=============================================================================

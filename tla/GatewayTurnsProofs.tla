--------------------------- MODULE GatewayTurnsProofs ---------------------------
(***************************************************************************)
(* Proofs about GatewayTurns, for any number of reminders, sessions and    *)
(* overlapping requests and any limits, whatever the server does: types,   *)
(* stamps, the limits on all appearances and on those of a day, and that   *)
(* "once" means once.                                                      *)
(*                                                                         *)
(* The argument.  A request that picks a reminder has seen room under its  *)
(* limits, and there are never more requests that have picked it and not   *)
(* marked it (Holders) than there are requests.  So the marks and the      *)
(* holders together stay below the limit plus the number of requests       *)
(* (TotalRoom, DailyRoom).  What a mark copies from the row it has read    *)
(* may be stale, but only one request at a time reads and writes, so that  *)
(* it has read about all marks of the day (ReadOK), but for those that the *)
(* server's mark_reminded has overwritten, which had read about all there  *)
(* were when it read (HandOK).                                             *)
(***************************************************************************)
EXTENDS GatewayTurns, FiniteSetTheorems, TLAPS

Phase == {"idle", "prepare", "upstream", "marking", "writing"}
Request == [pc : Phase, s : Session \cup {Free}, asks : BOOLEAN, persist : BOOLEAN,
            ids : SUBSET Reminder, round : Nat, cur : Reminder \cup {Free},
            read : RowType \cup {Free}, at : Nat]

-----------------------------------------------------------------------------
(* The inductive invariant *)

\* The requests that have picked reminder r and not marked it yet.
Holders(f, r) == {t \in Turn : r \in f[t].ids}

\* How often the row says it has been shown today.
Today(item, day) == IF item.day = day THEN item.dayCount ELSE 0

\* The reminder t is about to write was not shown more often today than the
\* row that t has read says.
ReadOK(t) ==
    shown[turn[t].cur] <= lost[turn[t].cur] +
        (IF Day(turn[t].at) = Day(now) THEN Today(turn[t].read, Day(now)) ELSE 0)

TurnOK(t) ==
    /\ turn[t].pc # "idle" => turn[t].s \in Session
    /\ turn[t].ids \subseteq DOMAIN row
    /\ turn[t].pc = "idle" => turn[t].ids = {}
    /\ turn[t].pc \in {"marking", "writing"} => loop = t /\ turn[t].round <= rounds[turn[t].s]
    /\ turn[t].pc = "writing" => turn[t].cur \in turn[t].ids /\ turn[t].read \in RowType /\ ReadOK(t)

\* The server's mark_reminded has read a rule that still holds and, if it was
\* today, about every mark there was at that time.
HandOK == hand # NoHand =>
    /\ hand.r \in DOMAIN row /\ hand.read.rule = row[hand.r].rule /\ hand.at <= now
    /\ Day(hand.at) = Day(now) => /\ seen <= lost[hand.r] + Today(hand.read, Day(now))
                                  /\ seen <= shown[hand.r]

TotalRoom(r) == TotalLimit(row[r]) > 0 =>
    \/ marks[r] + Cardinality(Holders(turn, r)) <= TotalLimit(row[r]) + Cardinality(Turn) - 1
    \/ marks[r] + Cardinality(Holders(turn, r)) <= had[r] + Cardinality(Turn)

DailyRoom(r) == row[r].dailyLimit > 0 =>
    shown[r] + Cardinality(Holders(turn, r)) <= row[r].dailyLimit + Cardinality(Turn) - 1 + lost[r]

Stamped(r) == row[r].lastRound > 0 =>
    \E s \in Session : row[r].session \in {Anyone, s} /\ row[r].lastRound <= rounds[s]

RowOK(r) ==
    /\ marks[r] <= row[r].count
    /\ shown[r] <= lost[r] + Today(row[r], Day(now))
    /\ r \notin foreign => Stamped(r)
    /\ TotalRoom(r)
    /\ DailyRoom(r)

Types ==
    /\ row \in [DOMAIN row -> RowType] /\ DOMAIN row \subseteq Reminder
    /\ now \in Nat /\ edits \in Nat /\ rounds \in [Session -> Nat]
    /\ hand \in {NoHand} \cup [r : Reminder, read : RowType, at : Nat, round : Nat]
    /\ marks \in [Reminder -> Nat] /\ had \in [Reminder -> Nat]
    /\ shown \in [Reminder -> Nat] /\ seen \in Nat /\ lost \in [Reminder -> Nat]
    /\ foreign \subseteq Reminder
    /\ loop \in Turn \cup {Free}
    /\ turn \in [Turn -> Request]

IInv ==
    /\ Types
    /\ \A t \in Turn : TurnOK(t)
    /\ HandOK
    /\ \A r \in DOMAIN row : RowOK(r)
    /\ \A r \in Reminder \ DOMAIN row : marks[r] = 0 /\ shown[r] = 0

-----------------------------------------------------------------------------
(* Facts about data *)

LEMMA HoldersBound ==
    \A f, r : /\ IsFiniteSet(Holders(f, r)) /\ Cardinality(Holders(f, r)) \in Nat
              /\ Cardinality(Holders(f, r)) <= Cardinality(Turn) /\ Cardinality(Turn) \in Nat
  <1> SUFFICES ASSUME NEW f, NEW r
               PROVE  /\ IsFiniteSet(Holders(f, r)) /\ Cardinality(Holders(f, r)) \in Nat
                      /\ Cardinality(Holders(f, r)) <= Cardinality(Turn) /\ Cardinality(Turn) \in Nat
    OBVIOUS
  <1>1. Holders(f, r) \in SUBSET Turn
    BY DEF Holders
  <1>2. IsFiniteSet(Turn)
    BY TurnAssumption
  <1>3. IsFiniteSet(Holders(f, r)) /\ Cardinality(Holders(f, r)) <= Cardinality(Turn)
    BY <1>1, <1>2, FS_Subset
  <1> QED
    BY <1>2, <1>3, FS_CardinalityType

\* Fewer holders, or one less of them.
LEMMA HoldersLess ==
    ASSUME NEW f, NEW g, NEW r, Holders(g, r) \subseteq Holders(f, r)
    PROVE  Cardinality(Holders(g, r)) <= Cardinality(Holders(f, r))
  BY HoldersBound, FS_Subset

LEMMA HoldersDrop ==
    ASSUME NEW f, NEW g, NEW r, NEW t, t \in Holders(f, r), Holders(g, r) = Holders(f, r) \ {t}
    PROVE  Cardinality(Holders(g, r)) = Cardinality(Holders(f, r)) - 1
  <1>1. IsFiniteSet(Holders(f, r))
    BY HoldersBound
  <1> QED
    BY <1>1, FS_RemoveElement

LEMMA DayType == \A t \in Nat : Day(t) \in Nat
  BY DEF Day

LEMMA DayGrows == \A t, n \in Nat : t <= n => Day(t) <= Day(n)
  BY DEF Day

LEMMA NextDueType ==
    ASSUME NEW item \in RowType, NEW t \in Nat
    PROVE  NextDue(item, t) \in Nat \cup {Never}
  <1>1. item.due \in Nat \cup {Never}
    BY DEF RowType
  <1>2. NextDailyDue(item, t) \in Nat
    <2>1. (IF item.due = Never THEN t ELSE item.due) \in Nat
      BY <1>1
    <2>2. \A x \in Nat : x % 2 \in Nat
      OBVIOUS
    <2>3. 2 * Day(t) + ((IF item.due = Never THEN t ELSE item.due) % 2) \in Nat
      BY <2>1, <2>2, DayType
    <2> QED
      BY <2>3 DEF NextDailyDue
  <1> QED
    BY <1>1, <1>2 DEF NextDue

\* What being reminded changes and what it does not.
LEMMA MarkedRow ==
    ASSUME NEW item, NEW read, NEW t, NEW round, NEW m, m = Marked(item, read, t, round),
           item \in RowType, read \in RowType, t \in Nat, round \in Nat
    PROVE  /\ m \in RowType
           /\ m.rule = item.rule /\ m.session = item.session
           /\ m.maxInjections = item.maxInjections /\ m.dailyLimit = item.dailyLimit
           /\ m.count = item.count + 1 /\ m.lastRound = round
           /\ m.day = Day(t) /\ m.dayCount = Today(read, Day(t)) + 1
           /\ read.rule = "once" => m.status = "archived"
  <1> DEFINE dayCount == IF read.day = Day(t) THEN read.dayCount + 1 ELSE 1
             due == NextDue(read, t)
             status == IF ArchivedAfter(read, t) THEN "archived" ELSE "active"
             count == item.count + 1
             day == Day(t)
  <1>1. item = [status |-> item.status, rule |-> item.rule, session |-> item.session, end |-> item.end,
                due |-> item.due, interval |-> item.interval, dailyLimit |-> item.dailyLimit,
                maxInjections |-> item.maxInjections, count |-> item.count, day |-> item.day,
                dayCount |-> item.dayCount, lastRound |-> item.lastRound]
    BY DEF RowType
  <1>2. dayCount \in Nat /\ due \in Nat \cup {Never} /\ status \in {"active", "done", "archived"}
        /\ count \in Nat /\ day \in Nat
    <2>1. read.dayCount \in Nat /\ item.count \in Nat
      BY DEF RowType
    <2> QED
      BY <2>1, NextDueType, DayType
  <1>3. dayCount = Today(read, Day(t)) + 1
    BY DEF Today, RowType
  <1>4. read.rule = "once" => status = "archived"
    BY DEF ArchivedAfter
  <1>5. m = [item EXCEPT !.count = count, !.lastRound = round, !.day = day, !.dayCount = dayCount,
                         !.due = due, !.status = status]
    BY DEF Marked
  <1> HIDE DEF dayCount, due, status, count, day
  <1>6. PICK v0 : v0 = [item EXCEPT !.count = count]
    OBVIOUS
  <1>7. v0 = [status |-> item.status, rule |-> item.rule, session |-> item.session, end |-> item.end,
              due |-> item.due, interval |-> item.interval, dailyLimit |-> item.dailyLimit,
              maxInjections |-> item.maxInjections, count |-> count, day |-> item.day,
              dayCount |-> item.dayCount, lastRound |-> item.lastRound]
    BY <1>1, <1>6
  <1>8. PICK v1 : v1 = [v0 EXCEPT !.lastRound = round]
    OBVIOUS
  <1>9. v1 = [status |-> item.status, rule |-> item.rule, session |-> item.session, end |-> item.end,
              due |-> item.due, interval |-> item.interval, dailyLimit |-> item.dailyLimit,
              maxInjections |-> item.maxInjections, count |-> count, day |-> item.day,
              dayCount |-> item.dayCount, lastRound |-> round]
    BY <1>7, <1>8
  <1>10. PICK v2 : v2 = [v1 EXCEPT !.day = day]
    OBVIOUS
  <1>11. v2 = [status |-> item.status, rule |-> item.rule, session |-> item.session, end |-> item.end,
               due |-> item.due, interval |-> item.interval, dailyLimit |-> item.dailyLimit,
               maxInjections |-> item.maxInjections, count |-> count, day |-> day,
               dayCount |-> item.dayCount, lastRound |-> round]
    BY <1>9, <1>10
  <1>12. PICK v3 : v3 = [v2 EXCEPT !.dayCount = dayCount]
    OBVIOUS
  <1>13. v3 = [status |-> item.status, rule |-> item.rule, session |-> item.session, end |-> item.end,
               due |-> item.due, interval |-> item.interval, dailyLimit |-> item.dailyLimit,
               maxInjections |-> item.maxInjections, count |-> count, day |-> day,
               dayCount |-> dayCount, lastRound |-> round]
    BY <1>11, <1>12
  <1>14. PICK v4 : v4 = [v3 EXCEPT !.due = due]
    OBVIOUS
  <1>15. v4 = [status |-> item.status, rule |-> item.rule, session |-> item.session, end |-> item.end,
               due |-> due, interval |-> item.interval, dailyLimit |-> item.dailyLimit,
               maxInjections |-> item.maxInjections, count |-> count, day |-> day,
               dayCount |-> dayCount, lastRound |-> round]
    BY <1>13, <1>14
  <1>16. PICK v5 : v5 = [v4 EXCEPT !.status = status]
    OBVIOUS
  <1>17. v5 = [status |-> status, rule |-> item.rule, session |-> item.session, end |-> item.end,
               due |-> due, interval |-> item.interval, dailyLimit |-> item.dailyLimit,
               maxInjections |-> item.maxInjections, count |-> count, day |-> day,
               dayCount |-> dayCount, lastRound |-> round]
    BY <1>15, <1>16
  <1>18. m = v5
    BY <1>5, <1>6, <1>8, <1>10, <1>12, <1>14, <1>16, Zenon
  <1>19. m \in RowType
    BY <1>2, <1>17, <1>18 DEF RowType
  <1>20. m.dayCount = Today(read, Day(t)) + 1
    BY <1>3, <1>17, <1>18
  <1>21. m.count = item.count + 1 /\ m.day = Day(t)
    BY <1>17, <1>18 DEF count, day
  <1> QED
    BY <1>4, <1>17, <1>18, <1>19, <1>20, <1>21

\* Row b differs from row a in its status and its times at most.
Alike(b, a) ==
    /\ b.rule = a.rule /\ b.session = a.session /\ b.maxInjections = a.maxInjections
    /\ b.dailyLimit = a.dailyLimit /\ b.count = a.count /\ b.lastRound = a.lastRound
    /\ b.day = a.day /\ b.dayCount = a.dayCount

\* Archiving changes the status only.
LEMMA SweptRows ==
    ASSUME Types
    PROVE  /\ Swept \in [DOMAIN row -> RowType] /\ DOMAIN Swept = DOMAIN row
           /\ \A r \in DOMAIN row : /\ Alike(Swept[r], row[r])
                                    /\ row[r].status # "active" => Swept[r].status # "active"
  <1>1. ASSUME NEW r \in DOMAIN row
        PROVE  /\ Swept[r] \in RowType /\ Alike(Swept[r], row[r])
               /\ row[r].status # "active" => Swept[r].status # "active"
    <2>1. PICK a : a = row[r] /\ a \in RowType
      BY DEF Types
    <2>2. PICK b : b = [a EXCEPT !.status = "archived"]
      OBVIOUS
    <2>3. b \in RowType /\ Alike(b, a) /\ b.status = "archived"
      BY <2>1, <2>2 DEF RowType, Alike
    <2>4. Swept[r] = b \/ Swept[r] = a
      BY <2>1, <2>2 DEF Swept
    <2> QED
      BY <2>1, <2>3, <2>4 DEF Alike
  <1>2. Swept = [r \in DOMAIN row |-> Swept[r]] /\ DOMAIN Swept = DOMAIN row
    BY DEF Swept
  <1> QED
    BY <1>1, <1>2

LEMMA RowNow ==
    ASSUME IInv, NEW r \in DOMAIN row
    PROVE  /\ row[r] \in RowType /\ r \in Reminder /\ now \in Nat /\ Day(now) \in Nat /\ RowOK(r)
           /\ marks[r] \in Nat /\ had[r] \in Nat /\ shown[r] \in Nat /\ lost[r] \in Nat
           /\ row[r].count \in Nat /\ row[r].dayCount \in Nat /\ row[r].dailyLimit \in Nat
           /\ TotalLimit(row[r]) \in Nat /\ Today(row[r], Day(now)) \in Nat
  <1>1. row[r] \in RowType
    BY DEF IInv, Types
  <1>2. /\ row[r].count \in Nat /\ row[r].dayCount \in Nat /\ row[r].dailyLimit \in Nat
        /\ TotalLimit(row[r]) \in Nat /\ Today(row[r], Day(now)) \in Nat
    BY <1>1 DEF RowType, TotalLimit, Today
  <1> QED
    BY <1>1, <1>2, DayType DEF IInv, Types

\* A reminder that is due has room under its limits.
HasRoom(r) ==
    /\ TotalLimit(row[r]) > 0 => marks[r] < TotalLimit(row[r])
    /\ row[r].dailyLimit > 0 => shown[r] < row[r].dailyLimit + lost[r]

LEMMA DueRow ==
    ASSUME IInv, NEW s \in Session, NEW n, NEW r \in DueIds(s, n)
    PROVE  r \in DOMAIN row /\ HasRoom(r)
  <1>1. r \in DOMAIN row /\ RowIsDue(Swept[r], s, n)
    BY DEF DueIds
  <1>2. Alike(Swept[r], row[r])
    BY <1>1, SweptRows DEF IInv
  <1>3. TotalLimit(Swept[r]) = TotalLimit(row[r])
    BY <1>2 DEF TotalLimit, Alike
  <1>4. /\ TotalLimit(row[r]) = 0 \/ row[r].count < TotalLimit(row[r])
        /\ ~(row[r].dailyLimit > 0 /\ row[r].day = Day(now) /\ row[r].dayCount >= row[r].dailyLimit)
    BY <1>1, <1>2, <1>3 DEF RowIsDue, Alike
  <1>5. marks[r] <= row[r].count /\ shown[r] <= lost[r] + Today(row[r], Day(now))
    BY <1>1, RowNow DEF RowOK
  <1> QED
    BY <1>1, <1>4, <1>5, RowNow DEF Today, HasRoom

-----------------------------------------------------------------------------
(* Frames *)

RowsKept == DOMAIN row \subseteq DOMAIN row'
RoundsKept == rounds' \in [Session -> Nat] /\ \A s \in Session : rounds'[s] >= rounds[s]

\* The count of today stays, or starts again, or is overwritten as a whole.
ShownKept(r) ==
    /\ shown'[r] \in {0, shown[r]}
    /\ \/ shown'[r] <= lost'[r]
       \/ shown'[r] = shown[r] /\ lost'[r] >= lost[r] /\ Day(now') = Day(now)

\* What may happen to a reminder between two marks of requests.
RowFrame(r) ==
    /\ row'[r].count >= row[r].count
    /\ \/ r \in foreign'
       \/ /\ r \notin foreign
          /\ row'[r].session = row[r].session /\ row'[r].lastRound \in {0, row[r].lastRound}
    /\ \/ had'[r] = marks[r]
       \/ had'[r] = had[r] /\ TotalLimit(row'[r]) = TotalLimit(row[r])
    /\ \/ shown'[r] <= lost'[r]
       \/ shown'[r] = shown[r] /\ lost'[r] >= lost[r] /\ row'[r].dailyLimit = row[r].dailyLimit
    /\ shown'[r] <= lost'[r] + Today(row'[r], Day(now'))

\* What may happen to the server's mark_reminded between its two steps.
HandKept ==
    hand' # NoHand =>
        /\ hand' = hand /\ seen' = seen /\ row'[hand.r].rule = row[hand.r].rule /\ now' >= now
        /\ Day(now') = Day(now) => lost'[hand.r] >= lost[hand.r] /\ shown'[hand.r] >= shown[hand.r]

\* A row that changes in its status and its times at most.
LEMMA SameFrame ==
    ASSUME IInv, NEW r \in DOMAIN row, Alike(row'[r], row[r]), Day(now') = Day(now),
           had'[r] = had[r], shown'[r] = shown[r], lost'[r] = lost[r], r \in foreign => r \in foreign'
    PROVE  RowFrame(r)
  <1>1. TotalLimit(row'[r]) = TotalLimit(row[r])
    BY DEF TotalLimit, Alike
  <1>2. Today(row'[r], Day(now')) = Today(row[r], Day(now))
    BY DEF Today, Alike
  <1>3. shown'[r] <= lost'[r] + Today(row'[r], Day(now'))
    BY <1>2, RowNow DEF RowOK
  <1>4. row'[r].count >= row[r].count /\ lost'[r] >= lost[r]
    BY RowNow DEF Alike
  <1> QED
    BY <1>1, <1>3, <1>4 DEF RowFrame, Alike

LEMMA HandKeeps ==
    ASSUME IInv, Types', RowsKept, HandKept
    PROVE  HandOK'
  <1> SUFFICES ASSUME hand' # NoHand
               PROVE  /\ hand'.r \in DOMAIN row' /\ hand'.read.rule = row'[hand'.r].rule /\ hand'.at <= now'
                      /\ Day(hand'.at) = Day(now') =>
                            /\ seen' <= lost'[hand'.r] + Today(hand'.read, Day(now'))
                            /\ seen' <= shown'[hand'.r]
    BY DEF HandOK
  <1>1. PICK h : h = hand /\ h = hand'
    BY DEF HandKept
  <1>2. /\ h # NoHand /\ h.r \in Reminder /\ h.read \in RowType /\ h.at \in Nat /\ h.r \in DOMAIN row
        /\ h.read.rule = row[h.r].rule /\ h.at <= now
        /\ Day(h.at) = Day(now) => /\ seen <= lost[h.r] + Today(h.read, Day(now))
                                   /\ seen <= shown[h.r]
    BY <1>1 DEF IInv, Types, HandOK
  <1>3. /\ seen' = seen /\ row'[h.r].rule = row[h.r].rule /\ now' >= now
        /\ Day(now') = Day(now) => lost'[h.r] >= lost[h.r] /\ shown'[h.r] >= shown[h.r]
    BY <1>1 DEF HandKept
  <1>4. /\ now \in Nat /\ now' \in Nat /\ seen \in Nat /\ lost[h.r] \in Nat /\ lost'[h.r] \in Nat
        /\ shown[h.r] \in Nat /\ shown'[h.r] \in Nat /\ Today(h.read, Day(now)) \in Nat
    BY <1>2 DEF IInv, Types, Today, RowType
  <1>5. h.r \in DOMAIN row' /\ h.read.rule = row'[h.r].rule /\ h.at <= now'
    BY <1>2, <1>3, <1>4 DEF RowsKept
  <1>6. ASSUME Day(h.at) = Day(now')
        PROVE  seen' <= lost'[h.r] + Today(h.read, Day(now')) /\ seen' <= shown'[h.r]
    <2>1. Day(h.at) <= Day(now) /\ Day(now) <= Day(now')
      BY <1>2, <1>3, <1>4, DayGrows
    <2>2. Day(now') = Day(now)
      BY <1>2, <1>4, <1>6, <2>1, DayType
    <2> QED
      BY <1>2, <1>3, <1>4, <1>6, <2>2
  <1> QED
    BY <1>1, <1>5, <1>6

\* A request that does nothing.
LEMMA RequestKeeps ==
    ASSUME IInv, Types', NEW x \in Turn, turn'[x] = turn[x], RowsKept, RoundsKept,
           turn[x].pc \in {"marking", "writing"} => loop' = x,
           turn[x].pc = "writing" => ShownKept(turn[x].cur)
    PROVE  TurnOK(x)'
  <1>1. TurnOK(x) /\ turn[x] \in Request
    BY DEF IInv, Types
  <1>2. /\ turn[x].pc # "idle" => turn[x].s \in Session
        /\ turn[x].ids \subseteq DOMAIN row' /\ (turn[x].pc = "idle" => turn[x].ids = {})
    BY <1>1 DEF TurnOK, RowsKept
  <1>3. turn[x].pc \in {"marking", "writing"} => turn[x].round <= rounds'[turn[x].s]
    <2> SUFFICES ASSUME turn[x].pc \in {"marking", "writing"}
                 PROVE  turn[x].round <= rounds'[turn[x].s]
      OBVIOUS
    <2>1. turn[x].s \in Session /\ turn[x].round <= rounds[turn[x].s] /\ turn[x].round \in Nat
      BY <1>1 DEF TurnOK, Request
    <2>2. rounds[turn[x].s] \in Nat /\ rounds'[turn[x].s] \in Nat /\ rounds'[turn[x].s] >= rounds[turn[x].s]
      BY <2>1 DEF RoundsKept, IInv, Types
    <2> QED
      BY <2>1, <2>2
  <1>4. ASSUME turn[x].pc = "writing"
        PROVE  /\ turn[x].cur \in turn[x].ids /\ turn[x].read \in RowType
               /\ shown'[turn[x].cur] <= lost'[turn[x].cur] +
                    (IF Day(turn[x].at) = Day(now') THEN Today(turn[x].read, Day(now')) ELSE 0)
    <2> DEFINE r == turn[x].cur
               before == IF Day(turn[x].at) = Day(now) THEN Today(turn[x].read, Day(now)) ELSE 0
               after == IF Day(turn[x].at) = Day(now') THEN Today(turn[x].read, Day(now')) ELSE 0
    <2>1. r \in turn[x].ids /\ turn[x].read \in RowType /\ shown[r] <= lost[r] + before
      BY <1>1, <1>4 DEF TurnOK, ReadOK
    <2>2. r \in Reminder
      BY <1>1, <2>1 DEF Request
    <2>3. shown[r] \in Nat /\ lost[r] \in Nat /\ lost'[r] \in Nat /\ shown'[r] \in Nat
      BY <2>2 DEF IInv, Types
    <2>4. before \in Nat /\ after \in Nat
      BY <2>1 DEF Today, RowType
    <2>5. Day(now') = Day(now) => after = before
      OBVIOUS
    <2> HIDE DEF before, after
    <2>6. shown'[r] <= lost'[r] + after
      BY <1>4, <2>1, <2>3, <2>4, <2>5 DEF ShownKept
    <2> QED
      BY <2>1, <2>6 DEF after
  <1> QED
    BY <1>2, <1>3, <1>4 DEF TurnOK, ReadOK

\* A reminder that is not marked by a request: it has lost holders, or there
\* was room for new ones.
LEMMA RowKeeps ==
    ASSUME IInv, Types', NEW r \in DOMAIN row, RowsKept, RoundsKept, marks'[r] = marks[r], RowFrame(r),
           Holders(turn', r) \subseteq Holders(turn, r) \/ HasRoom(r)
    PROVE  RowOK(r)'
  <1>1. row[r] \in RowType /\ row'[r] \in RowType /\ r \in Reminder
    BY DEF IInv, Types, RowsKept
  <1>2. /\ row'[r].count \in Nat /\ row'[r].dailyLimit \in Nat /\ TotalLimit(row'[r]) \in Nat
        /\ Today(row'[r], Day(now')) \in Nat
        /\ had'[r] \in Nat /\ shown'[r] \in Nat /\ lost'[r] \in Nat
    BY <1>1 DEF Types, RowType, TotalLimit, Today
  <1>3. marks'[r] <= row'[r].count
    BY <1>2, RowNow DEF RowOK, RowFrame
  <1>4. r \notin foreign' => Stamped(r)'
    <2> SUFFICES ASSUME r \notin foreign', row'[r].lastRound > 0
                 PROVE  \E s \in Session : row'[r].session \in {Anyone, s} /\ row'[r].lastRound <= rounds'[s]
      BY DEF Stamped
    <2>1. r \notin foreign /\ row'[r].session = row[r].session /\ row[r].lastRound = row'[r].lastRound
          /\ row[r].lastRound \in Nat
      BY <1>1 DEF RowFrame, RowType
    <2>2. PICK s \in Session : row[r].session \in {Anyone, s} /\ row[r].lastRound <= rounds[s]
      BY <2>1, RowNow DEF RowOK, Stamped
    <2>3. rounds[s] \in Nat /\ rounds'[s] \in Nat /\ rounds'[s] >= rounds[s]
      BY <2>2 DEF RoundsKept, IInv, Types
    <2> QED
      BY <2>1, <2>2, <2>3
  <1> DEFINE c == Cardinality(Holders(turn, r))
             d == Cardinality(Holders(turn', r))
             n == Cardinality(Turn)
  <1>5. c \in Nat /\ d \in Nat /\ n \in Nat /\ d <= n
    BY HoldersBound
  <1>6. d <= c \/ HasRoom(r)
    BY HoldersLess
  <1>7. /\ TotalLimit(row[r]) > 0 => \/ marks[r] + c <= TotalLimit(row[r]) + n - 1
                                     \/ marks[r] + c <= had[r] + n
        /\ row[r].dailyLimit > 0 => shown[r] + c <= row[r].dailyLimit + n - 1 + lost[r]
    BY RowNow DEF RowOK, TotalRoom, DailyRoom
  <1> HIDE DEF c, d, n
  <1>8. TotalLimit(row'[r]) > 0 => \/ marks'[r] + d <= TotalLimit(row'[r]) + n - 1
                                   \/ marks'[r] + d <= had'[r] + n
    <2>1. CASE had'[r] = marks[r]
      BY <1>2, <1>5, <2>1, RowNow
    <2>2. CASE had'[r] = had[r] /\ TotalLimit(row'[r]) = TotalLimit(row[r])
      BY <1>2, <1>5, <1>6, <1>7, <2>2, RowNow DEF HasRoom
    <2> QED
      BY <2>1, <2>2 DEF RowFrame
  <1>9. row'[r].dailyLimit > 0 => shown'[r] + d <= row'[r].dailyLimit + n - 1 + lost'[r]
    <2>1. CASE shown'[r] <= lost'[r]
      BY <1>2, <1>5, <2>1
    <2>2. CASE shown'[r] = shown[r] /\ lost'[r] >= lost[r] /\ row'[r].dailyLimit = row[r].dailyLimit
      BY <1>2, <1>5, <1>6, <1>7, <2>2, RowNow DEF HasRoom
    <2> QED
      BY <2>1, <2>2 DEF RowFrame
  <1>10. TotalRoom(r)' /\ DailyRoom(r)'
    BY <1>8, <1>9 DEF TotalRoom, DailyRoom, d, n
  <1>11. shown'[r] <= lost'[r] + Today(row'[r], Day(now'))
    BY DEF RowFrame
  <1> QED
    BY <1>3, <1>4, <1>10, <1>11 DEF RowOK

\* The requests do nothing: the table, the clock and the server's calls change.
LEMMA WorldStep ==
    ASSUME IInv, Types', HandOK', UNCHANGED <<turn, loop, rounds, marks>>, RowsKept,
           \A r \in Reminder : ShownKept(r), \A r \in DOMAIN row : RowFrame(r),
           \A r \in DOMAIN row' \ DOMAIN row : row'[r].lastRound = 0
    PROVE  IInv'
  <1>1. RoundsKept
    BY DEF RoundsKept, IInv, Types
  <1>2. ASSUME NEW x \in Turn PROVE TurnOK(x)'
    <2>1. turn[x].pc \in {"marking", "writing"} => loop' = x
      BY DEF IInv, TurnOK
    <2>2. turn[x].pc = "writing" => turn[x].cur \in Reminder
      BY DEF IInv, TurnOK, Types, Request
    <2> QED
      BY <1>1, <2>1, <2>2, RequestKeeps
  <1>3. ASSUME NEW r \in DOMAIN row PROVE RowOK(r)'
    <2>1. Holders(turn', r) = Holders(turn, r) /\ marks'[r] = marks[r]
      OBVIOUS
    <2> QED
      BY <1>1, <2>1, RowKeeps
  <1>4. ASSUME NEW r \in DOMAIN row' \ DOMAIN row PROVE RowOK(r)'
    <2>1. r \in Reminder /\ marks'[r] = 0 /\ row'[r] \in RowType
      BY DEF IInv, Types
    <2>2. shown'[r] = 0
      BY <2>1 DEF IInv, ShownKept
    <2>3. Holders(turn', r) = {}
      <3>1. \A x \in Turn : r \notin turn[x].ids
        BY DEF IInv, TurnOK
      <3> QED
        BY <3>1 DEF Holders
    <2>4. Cardinality(Holders(turn', r)) = 0 /\ Cardinality(Turn) \in Nat
      BY <2>3, FS_EmptySet, HoldersBound
    <2>5. row'[r].count \in Nat /\ row'[r].dailyLimit \in Nat /\ TotalLimit(row'[r]) \in Nat
          /\ Today(row'[r], Day(now')) \in Nat /\ lost'[r] \in Nat
      BY <2>1 DEF RowType, TotalLimit, Today, Types
    <2>6. TotalRoom(r)' /\ DailyRoom(r)'
      BY <2>1, <2>2, <2>4, <2>5 DEF TotalRoom, DailyRoom
    <2>7. Stamped(r)'
      BY DEF Stamped
    <2> QED
      BY <2>1, <2>2, <2>5, <2>6, <2>7 DEF RowOK
  <1>5. \A r \in Reminder \ DOMAIN row' : marks'[r] = 0 /\ shown'[r] = 0
    BY DEF IInv, ShownKept, RowsKept
  <1> QED
    BY <1>2, <1>3, <1>4, <1>5 DEF IInv

\* Request t becomes w, which has picked no more than t had.
LEMMA RequestStep ==
    ASSUME IInv, NEW t \in Turn, NEW w \in Request, turn' = [turn EXCEPT ![t] = w],
           UNCHANGED <<storeVars, edits, history>>, RoundsKept, loop' \in Turn \cup {Free},
           w.ids \subseteq turn[t].ids, TurnOK(t)',
           \A x \in Turn : x # t /\ turn[x].pc \in {"marking", "writing"} => loop' = x
    PROVE  IInv'
  <1>1. turn \in [Turn -> Request] /\ turn'[t] = w /\ \A x \in Turn : x # t => turn'[x] = turn[x]
    BY DEF IInv, Types
  <1>2. UNCHANGED <<row, now, hand, edits, marks, had, shown, seen, lost, foreign>>
    BY DEF storeVars, history
  <1>3. Types'
    BY <1>1, <1>2 DEF IInv, Types, RoundsKept
  <1>4. RowsKept /\ HandOK'
    BY <1>2 DEF RowsKept, IInv, HandOK
  <1>5. ASSUME NEW x \in Turn PROVE TurnOK(x)'
    <2>1. CASE x = t
      BY <2>1
    <2>2. CASE x # t
      <3>1. turn[x].pc = "writing" => turn[x].cur \in Reminder
        BY DEF IInv, TurnOK, Types, Request
      <3>2. \A r \in Reminder : ShownKept(r)
        BY <1>2 DEF ShownKept, IInv, Types
      <3> QED
        BY <1>1, <1>3, <1>4, <2>2, <3>1, <3>2, RequestKeeps
    <2> QED
      BY <2>1, <2>2
  <1>6. ASSUME NEW r \in DOMAIN row PROVE RowOK(r)'
    <2>1. Holders(turn', r) \subseteq Holders(turn, r)
      BY <1>1 DEF Holders
    <2>2. RowFrame(r)
      BY <1>2, SameFrame DEF Alike
    <2> QED
      BY <1>2, <1>3, <1>4, <2>1, <2>2, RowKeeps
  <1> QED
    BY <1>2, <1>3, <1>4, <1>5, <1>6 DEF IInv

-----------------------------------------------------------------------------
(* The server and the clock *)

\* The history of other reminders than r stays.
OnlyOf(r) ==
    /\ had' \in [Reminder -> Nat] /\ shown' \in [Reminder -> Nat] /\ lost' \in [Reminder -> Nat]
    /\ foreign' \in {foreign, foreign \cup {r}}
    /\ \A x \in Reminder : x # r => had'[x] = had[x] /\ shown'[x] = shown[x] /\ lost'[x] = lost[x]

\* Row r becomes m by the hand of the server.
LEMMA OneRow ==
    ASSUME IInv, NEW r \in DOMAIN row, NEW m \in RowType, row' = [row EXCEPT ![r] = m],
           UNCHANGED <<turn, loop, rounds, marks, now>>, edits' \in Nat, hand' = NoHand, seen' \in Nat,
           OnlyOf(r), ShownKept(r), RowFrame(r)
    PROVE  IInv'
  <1>1. /\ row \in [DOMAIN row -> RowType] /\ DOMAIN row \subseteq Reminder /\ now \in Nat
        /\ lost \in [Reminder -> Nat] /\ foreign \subseteq Reminder
    BY DEF IInv, Types
  <1>2. row' \in [DOMAIN row -> RowType] /\ DOMAIN row' = DOMAIN row /\ row'[r] = m
        /\ \A x \in DOMAIN row : x # r => row'[x] = row[x]
    BY <1>1
  <1>3. Types' /\ HandOK'
    BY <1>1, <1>2 DEF IInv, Types, OnlyOf, HandOK
  <1>4. RowsKept /\ \A x \in Reminder : ShownKept(x)
    BY <1>1, <1>2 DEF RowsKept, ShownKept, OnlyOf
  <1>5. ASSUME NEW x \in DOMAIN row PROVE RowFrame(x)
    <2>1. CASE x # r
      BY <1>1, <1>2, <2>1, SameFrame DEF Alike, OnlyOf
    <2> QED
      BY <2>1
  <1> QED
    BY <1>2, <1>3, <1>4, <1>5, WorldStep

\* The same, when the row changes in its status and its times at most.
LEMMA OneRowAlike ==
    ASSUME IInv, NEW r \in DOMAIN row, NEW m \in RowType, row' = [row EXCEPT ![r] = m], Alike(m, row[r]),
           UNCHANGED <<turnVars, now, hand, history>>, hand = NoHand, edits' \in Nat
    PROVE  IInv'
  <1>1. UNCHANGED <<turn, loop, rounds, marks, had, shown, seen, lost, foreign>>
    BY DEF turnVars, history
  <1>2. row'[r] = m
    BY DEF IInv, Types
  <1>3. OnlyOf(r) /\ seen' \in Nat /\ r \in Reminder
    BY <1>1 DEF OnlyOf, IInv, Types
  <1>4. ShownKept(r)
    BY <1>1, RowNow DEF ShownKept
  <1>5. RowFrame(r)
    BY <1>1, <1>2, SameFrame
  <1> QED
    BY <1>1, <1>3, <1>4, <1>5, OneRow

LEMMA CreateStep ==
    ASSUME IInv, NEW r \in Reminder, NEW d \in Draft, Create(r, d), UNCHANGED <<turnVars, history>>,
           edits' \in Nat
    PROVE  IInv'
  <1>1. /\ r \notin DOMAIN row /\ row' = [x \in DOMAIN row \cup {r} |-> IF x = r THEN New(d) ELSE row[x]]
        /\ hand = NoHand
        /\ UNCHANGED <<now, hand, turn, loop, rounds, marks, had, shown, seen, lost, foreign>>
    BY DEF Create, turnVars, history
  <1>2. New(d) \in RowType /\ New(d).lastRound = 0
    BY DraftAssumption, TickAssumption DEF New, RowType
  <1>3. /\ row \in [DOMAIN row -> RowType] /\ DOMAIN row \subseteq Reminder
        /\ shown \in [Reminder -> Nat] /\ lost \in [Reminder -> Nat]
    BY DEF IInv, Types
  <1>4. /\ row' \in [DOMAIN row' -> RowType] /\ DOMAIN row' = DOMAIN row \cup {r}
        /\ row'[r] = New(d) /\ \A x \in DOMAIN row : row'[x] = row[x]
    BY <1>1, <1>2, <1>3
  <1>5. Types'
    BY <1>1, <1>3, <1>4 DEF IInv, Types
  <1>6. RowsKept /\ HandOK' /\ \A x \in Reminder : ShownKept(x)
    BY <1>1, <1>3, <1>4 DEF RowsKept, HandOK, ShownKept
  <1>7. ASSUME NEW x \in DOMAIN row PROVE RowFrame(x)
    BY <1>1, <1>4, SameFrame DEF Alike
  <1>8. \A x \in DOMAIN row' \ DOMAIN row : row'[x].lastRound = 0
    BY <1>2, <1>4
  <1> QED
    BY <1>1, <1>5, <1>6, <1>7, <1>8, WorldStep

LEMMA SetStatusStep ==
    ASSUME IInv, NEW r \in Reminder, NEW st \in {"active", "done", "archived"}, SetStatus(r, st),
           UNCHANGED <<turnVars, history>>, edits' \in Nat
    PROVE  IInv'
  <1>1. hand = NoHand /\ r \in DOMAIN row /\ UNCHANGED <<now, hand>>
    BY DEF SetStatus, Call
  <1>2. PICK a : a = row[r] /\ a \in RowType
    BY <1>1, RowNow
  <1>3. PICK m : m = [a EXCEPT !.status = st]
    OBVIOUS
  <1>4. row' = [row EXCEPT ![r] = m]
    BY <1>2, <1>3 DEF SetStatus
  <1>5. m \in RowType /\ Alike(m, a)
    BY <1>2, <1>3 DEF RowType, Alike
  <1> QED
    BY <1>1, <1>2, <1>4, <1>5, OneRowAlike

LEMMA SnoozeStep ==
    ASSUME IInv, NEW r \in Reminder, Snooze(r), UNCHANGED <<turnVars, history>>, edits' \in Nat
    PROVE  IInv'
  <1>1. hand = NoHand /\ r \in DOMAIN row /\ UNCHANGED <<now, hand>>
    BY DEF Snooze, Call
  <1>2. PICK a : a = row[r] /\ a \in RowType
    BY <1>1, RowNow
  <1>3. PICK b : b = [a EXCEPT !.due = now + 1]
    OBVIOUS
  <1>4. PICK m : m = [b EXCEPT !.status = "active"]
    OBVIOUS
  <1>5. row' = [row EXCEPT ![r] = m]
    <2>1. row' = [[row EXCEPT ![r].due = now + 1] EXCEPT ![r].status = "active"]
      BY DEF Snooze
    <2>2. row' = [row EXCEPT ![r] = [[row[r] EXCEPT !.due = now + 1] EXCEPT !.status = "active"]]
      BY <1>1, <2>1
    <2> QED
      BY <1>2, <1>3, <1>4, <2>2, Zenon
  <1>6. b \in RowType /\ Alike(b, a)
    <2>1. now + 1 \in Nat
      BY <1>1, RowNow
    <2> QED
      BY <1>2, <1>3, <2>1 DEF RowType, Alike
  <1>7. m \in RowType /\ Alike(m, b)
    BY <1>4, <1>6 DEF RowType, Alike
  <1>8. Alike(m, row[r])
    BY <1>2, <1>6, <1>7 DEF Alike
  <1> QED
    BY <1>1, <1>5, <1>7, <1>8, OneRowAlike

LEMMA ListStep ==
    ASSUME IInv, List, UNCHANGED <<turnVars, history, edits>>
    PROVE  IInv'
  <1>1. /\ row' = Swept /\ hand = NoHand
        /\ UNCHANGED <<now, hand, turn, loop, rounds, edits, marks, had, shown, seen, lost, foreign>>
    BY DEF List, turnVars, history
  <1>2. Types
    BY DEF IInv
  <1>3. row' \in [DOMAIN row' -> RowType] /\ DOMAIN row' = DOMAIN row
    BY <1>1, <1>2, SweptRows
  <1>4. Types'
    BY <1>1, <1>2, <1>3 DEF Types
  <1>5. RowsKept /\ HandOK' /\ \A x \in Reminder : ShownKept(x)
    BY <1>1, <1>2, <1>3 DEF RowsKept, HandOK, ShownKept, Types
  <1>6. ASSUME NEW x \in DOMAIN row PROVE RowFrame(x)
    BY <1>1, <1>2, SweptRows, SameFrame
  <1> QED
    BY <1>1, <1>3, <1>4, <1>5, <1>6, WorldStep

\* A change of a limit or of the session leaves its trace in had and foreign.
LEMMA ChangeOne ==
    ASSUME IInv, NEW r \in DOMAIN row, NEW m \in RowType, row' = [row EXCEPT ![r] = m],
           UNCHANGED <<turnVars, now, hand, marks, shown, seen, lost>>, hand = NoHand, edits' \in Nat,
           had' = IF TotalLimit(row'[r]) = TotalLimit(row[r]) THEN had ELSE [had EXCEPT ![r] = marks[r]],
           foreign' = IF row'[r].session = row[r].session THEN foreign ELSE foreign \cup {r},
           m.count = row[r].count, m.lastRound = row[r].lastRound, m.dailyLimit = row[r].dailyLimit,
           m.day = row[r].day, m.dayCount = row[r].dayCount
    PROVE  IInv'
  <1>1. UNCHANGED <<turn, loop, rounds>>
    BY DEF turnVars
  <1>2. row'[r] = m
    BY DEF IInv, Types
  <1>3. /\ had \in [Reminder -> Nat] /\ shown \in [Reminder -> Nat] /\ lost \in [Reminder -> Nat]
        /\ marks \in [Reminder -> Nat] /\ seen \in Nat /\ r \in Reminder
    BY DEF IInv, Types
  <1>4. OnlyOf(r)
    BY <1>3 DEF OnlyOf
  <1>5. ShownKept(r)
    BY <1>3 DEF ShownKept
  <1>6. RowFrame(r)
    <2>1. row'[r].count >= row[r].count
      BY <1>2, RowNow
    <2>2. \/ r \in foreign'
          \/ /\ r \notin foreign
             /\ row'[r].session = row[r].session /\ row'[r].lastRound \in {0, row[r].lastRound}
      BY <1>2
    <2>3. \/ had'[r] = marks[r]
          \/ had'[r] = had[r] /\ TotalLimit(row'[r]) = TotalLimit(row[r])
      BY <1>3
    <2>4. shown'[r] = shown[r] /\ lost'[r] >= lost[r] /\ row'[r].dailyLimit = row[r].dailyLimit
      BY <1>2, RowNow
    <2>5. shown'[r] <= lost'[r] + Today(row'[r], Day(now'))
      <3>1. Today(row'[r], Day(now')) = Today(row[r], Day(now))
        BY <1>2 DEF Today
      <3> QED
        BY <3>1, RowNow DEF RowOK
    <2> QED
      BY <2>1, <2>2, <2>3, <2>4, <2>5 DEF RowFrame
  <1> QED
    BY <1>1, <1>3, <1>4, <1>5, <1>6, OneRow

LEMMA ChangeStep ==
    ASSUME IInv, NEW r \in Reminder, NEW d \in Draft, Change(r, d)
    PROVE  IInv'
  <1>1. /\ hand = NoHand /\ r \in DOMAIN row /\ UNCHANGED <<now, hand>> /\ edits' \in Nat
        /\ UNCHANGED <<turnVars, marks, shown, seen, lost>>
        /\ had' = IF TotalLimit(row'[r]) = TotalLimit(row[r]) THEN had ELSE [had EXCEPT ![r] = marks[r]]
        /\ foreign' = IF row'[r].session = row[r].session THEN foreign ELSE foreign \cup {r}
    BY DEF Change, Update, Call, Edit, IInv, Types
  <1>2. PICK a : a = row[r] /\ a \in RowType
    BY <1>1, RowNow
  <1>3. /\ d.rule \in {"once", "every_n_rounds", "daily", "morning_evening"}
        /\ d.session \in Session \cup {Anyone} /\ d.end \in Nat \cup {Never} /\ d.due \in Nat \cup {Never}
        /\ d.interval \in Nat /\ d.maxInjections \in Nat
    BY DraftAssumption, TickAssumption
  <1>4. PICK m : /\ row' = [row EXCEPT ![r] = m]
                 /\ \/ m = [a EXCEPT !.rule = d.rule]
                    \/ m = [a EXCEPT !.session = d.session]
                    \/ m = [a EXCEPT !.end = d.end]
                    \/ m = [a EXCEPT !.due = d.due]
                    \/ m = [a EXCEPT !.interval = d.interval]
                    \/ m = [a EXCEPT !.maxInjections = d.maxInjections]
    BY <1>2 DEF Change, Update
  <1>5. /\ m \in RowType /\ m.count = a.count /\ m.lastRound = a.lastRound /\ m.dailyLimit = a.dailyLimit
        /\ m.day = a.day /\ m.dayCount = a.dayCount
    <2>1. CASE m = [a EXCEPT !.rule = d.rule]
      BY <1>2, <1>3, <2>1 DEF RowType
    <2>2. CASE m = [a EXCEPT !.session = d.session]
      BY <1>2, <1>3, <2>2 DEF RowType
    <2>3. CASE m = [a EXCEPT !.end = d.end]
      BY <1>2, <1>3, <2>3 DEF RowType
    <2>4. CASE m = [a EXCEPT !.due = d.due]
      BY <1>2, <1>3, <2>4 DEF RowType
    <2>5. CASE m = [a EXCEPT !.interval = d.interval]
      BY <1>2, <1>3, <2>5 DEF RowType
    <2>6. CASE m = [a EXCEPT !.maxInjections = d.maxInjections]
      BY <1>2, <1>3, <2>6 DEF RowType
    <2> QED
      BY <1>4, <2>1, <2>2, <2>3, <2>4, <2>5, <2>6
  <1> QED
    BY <1>1, <1>2, <1>4, <1>5, ChangeOne

LEMMA RelimitStep ==
    ASSUME IInv, NEW r \in Reminder, NEW n \in 0..1, Relimit(r, n)
    PROVE  IInv'
  <1>1. /\ hand = NoHand /\ r \in DOMAIN row /\ edits' \in Nat
        /\ UNCHANGED <<now, hand, turn, loop, rounds, marks, had, seen, foreign>>
        /\ shown' = [shown EXCEPT ![r] = 0] /\ lost' = [lost EXCEPT ![r] = 0]
    BY DEF Relimit, SetDailyLimit, Call, Edit, turnVars, IInv, Types
  <1>2. PICK a : a = row[r] /\ a \in RowType
    BY <1>1, RowNow
  <1>3. PICK b : b = [a EXCEPT !.dailyLimit = n]
    OBVIOUS
  <1>4. PICK c : c = [b EXCEPT !.day = Never]
    OBVIOUS
  <1>5. PICK m : m = [c EXCEPT !.dayCount = 0]
    OBVIOUS
  <1>6. row' = [row EXCEPT ![r] = m]
    <2>1. row' = [[[row EXCEPT ![r].dailyLimit = n] EXCEPT ![r].day = Never] EXCEPT ![r].dayCount = 0]
      BY DEF Relimit, SetDailyLimit
    <2>2. row' = [row EXCEPT ![r] = [[[row[r] EXCEPT !.dailyLimit = n] EXCEPT !.day = Never]
                                     EXCEPT !.dayCount = 0]]
      BY <1>1, <2>1
    <2> QED
      BY <1>2, <1>3, <1>4, <1>5, <2>2, Zenon
  <1>7. /\ b \in RowType /\ b.rule = a.rule /\ b.session = a.session
        /\ b.maxInjections = a.maxInjections /\ b.count = a.count /\ b.lastRound = a.lastRound
    BY <1>2, <1>3 DEF RowType
  <1>8. /\ c \in RowType /\ c.rule = b.rule /\ c.session = b.session
        /\ c.maxInjections = b.maxInjections /\ c.count = b.count /\ c.lastRound = b.lastRound
    BY <1>4, <1>7 DEF RowType
  <1>9. /\ m \in RowType /\ m.rule = c.rule /\ m.session = c.session /\ m.dayCount = 0
        /\ m.maxInjections = c.maxInjections /\ m.count = c.count /\ m.lastRound = c.lastRound
    BY <1>5, <1>8 DEF RowType
  <1>10. /\ had \in [Reminder -> Nat] /\ shown \in [Reminder -> Nat] /\ lost \in [Reminder -> Nat]
         /\ seen \in Nat
    BY DEF IInv, Types
  <1>11. shown'[r] = 0 /\ lost'[r] = 0 /\ OnlyOf(r) /\ ShownKept(r)
    BY <1>1, <1>10 DEF OnlyOf, ShownKept
  <1>12. row'[r] = m
    BY <1>1, <1>6 DEF IInv, Types
  <1>13. RowFrame(r)
    <2>1. row'[r].count >= row[r].count
      BY <1>1, <1>2, <1>7, <1>8, <1>9, <1>12, RowNow
    <2>2. TotalLimit(row'[r]) = TotalLimit(row[r])
      BY <1>2, <1>7, <1>8, <1>9, <1>12 DEF TotalLimit
    <2>3. row'[r].session = row[r].session /\ row'[r].lastRound = row[r].lastRound
      BY <1>2, <1>7, <1>8, <1>9, <1>12
    <2>4. shown'[r] <= lost'[r] + Today(row'[r], Day(now'))
      BY <1>9, <1>11, <1>12 DEF Today
    <2> QED
      BY <1>1, <1>11, <2>1, <2>2, <2>3, <2>4 DEF RowFrame
  <1> QED
    BY <1>1, <1>6, <1>9, <1>10, <1>11, <1>13, OneRow

LEMMA MarkByHandReadsStep ==
    ASSUME IInv, NEW r \in Reminder, NEW round \in Stamp, MarkByHandReads(r, round)
    PROVE  IInv'
  <1>1. /\ r \in DOMAIN row /\ edits' \in Nat /\ seen' = shown[r]
        /\ hand' = [r |-> r, read |-> row[r], at |-> now, round |-> round]
        /\ UNCHANGED <<row, now, turn, loop, rounds, marks, had, shown, lost, foreign>>
    BY DEF MarkByHandReads, HandRead, Edit, turnVars, IInv, Types
  <1>2. Types'
    <2>1. round \in Nat /\ row[r] \in RowType /\ now \in Nat /\ shown[r] \in Nat
      BY <1>1, StampAssumption, RowNow
    <2>2. hand' \in [r : Reminder, read : RowType, at : Nat, round : Nat]
      BY <1>1, <2>1
    <2> QED
      BY <1>1, <2>1, <2>2 DEF IInv, Types
  <1>3. HandOK'
    <2>1. hand'.r = r /\ hand'.read = row[r] /\ hand'.at = now
      BY <1>1
    <2>2. shown[r] <= lost[r] + Today(row[r], Day(now)) /\ shown[r] <= shown[r] /\ now <= now
      BY <1>1, RowNow DEF RowOK
    <2> QED
      BY <1>1, <2>1, <2>2 DEF HandOK
  <1>4. RowsKept /\ \A x \in Reminder : ShownKept(x)
    BY <1>1 DEF RowsKept, ShownKept, IInv, Types
  <1>5. ASSUME NEW x \in DOMAIN row PROVE RowFrame(x)
    BY <1>1, SameFrame DEF Alike
  <1> QED
    BY <1>1, <1>2, <1>3, <1>4, <1>5, WorldStep

\* What IInv says of the server's mark_reminded.
LEMMA HandNow ==
    ASSUME IInv, hand # NoHand
    PROVE  /\ hand.r \in DOMAIN row /\ hand.r \in Reminder /\ hand.read \in RowType /\ hand.at \in Nat
           /\ hand.round \in Nat /\ hand.read.rule = row[hand.r].rule
           /\ Day(hand.at) = Day(now) => /\ seen <= lost[hand.r] + Today(hand.read, Day(now))
                                         /\ seen <= shown[hand.r]
  BY DEF IInv, Types, HandOK

LEMMA MarkByHandWritesStep ==
    ASSUME IInv, MarkByHandWrites
    PROVE  IInv'
  <1>1. PICK r, read, at, round : r = hand.r /\ read = hand.read /\ at = hand.at /\ round = hand.round
    OBVIOUS
  <1>2. PICK m : m = Marked(row[r], read, at, round)
    OBVIOUS
  <1>3. /\ hand # NoHand /\ row' = [row EXCEPT ![r] = m] /\ hand' = NoHand /\ seen' = 0
        /\ lost' = [lost EXCEPT ![r] = IF Day(at) = Day(now) THEN @ + (shown[r] - seen) ELSE shown[r]]
        /\ foreign' = foreign \cup {r}
        /\ UNCHANGED <<now, turn, loop, rounds, edits, marks, had, shown>>
    BY <1>1, <1>2 DEF MarkByHandWrites, HandWrite, turnVars
  <1>4. /\ r \in DOMAIN row /\ r \in Reminder /\ read \in RowType /\ at \in Nat /\ round \in Nat
        /\ Day(at) = Day(now) => seen <= lost[r] + Today(read, Day(now)) /\ seen <= shown[r]
    BY <1>1, <1>3, HandNow
  <1>5. /\ row[r] \in RowType /\ edits \in Nat /\ seen \in Nat /\ had \in [Reminder -> Nat]
        /\ shown \in [Reminder -> Nat] /\ lost \in [Reminder -> Nat] /\ now \in Nat
    BY <1>4 DEF IInv, Types
  <1>6. /\ m \in RowType /\ m.rule = row[r].rule /\ m.maxInjections = row[r].maxInjections
        /\ m.dailyLimit = row[r].dailyLimit /\ m.count = row[r].count + 1
        /\ m.day = Day(at) /\ m.dayCount = Today(read, Day(at)) + 1
    BY <1>2, <1>4, <1>5, MarkedRow
  <1>7. row'[r] = m
    BY <1>3, <1>4 DEF IInv, Types
  <1>8. Today(read, Day(at)) \in Nat /\ Today(read, Day(now)) \in Nat /\ Today(m, Day(now)) \in Nat
    BY <1>4, <1>6 DEF Today, RowType
  <1>9. lost'[r] = IF Day(at) = Day(now) THEN lost[r] + (shown[r] - seen) ELSE shown[r]
    BY <1>3, <1>4, <1>5
  <1>10. lost'[r] \in Nat /\ shown[r] <= lost'[r] + Today(m, Day(now))
    <2>1. CASE Day(at) = Day(now)
      <3>1. Today(m, Day(now)) = Today(read, Day(now)) + 1
        BY <1>6, <2>1 DEF Today
      <3> QED
        BY <1>4, <1>5, <1>8, <1>9, <2>1, <3>1
    <2>2. CASE Day(at) # Day(now)
      BY <1>4, <1>5, <1>8, <1>9, <2>2
    <2> QED
      BY <2>1, <2>2
  <1>11. shown[r] <= lost'[r] \/ lost'[r] >= lost[r]
    BY <1>4, <1>5, <1>9
  <1>12. lost' \in [Reminder -> Nat] /\ \A x \in Reminder : x # r => lost'[x] = lost[x]
    BY <1>3, <1>4, <1>5, <1>9, <1>10
  <1>13. OnlyOf(r)
    BY <1>3, <1>5, <1>12 DEF OnlyOf
  <1>14. ShownKept(r)
    BY <1>3, <1>11 DEF ShownKept
  <1>15. RowFrame(r)
    <2>1. row'[r].count >= row[r].count
      BY <1>4, <1>6, <1>7, RowNow
    <2>2. TotalLimit(row'[r]) = TotalLimit(row[r])
      BY <1>6, <1>7 DEF TotalLimit
    <2> QED
      BY <1>3, <1>6, <1>7, <1>10, <1>11, <2>1, <2>2 DEF RowFrame
  <1> QED
    BY <1>3, <1>4, <1>5, <1>6, <1>13, <1>14, <1>15, OneRow

LEMMA MarkByHandFailsStep ==
    ASSUME IInv, MarkByHandFails
    PROVE  IInv'
  <1>1. /\ hand' = NoHand /\ seen' = 0
        /\ UNCHANGED <<row, now, turn, loop, rounds, edits, marks, had, shown, lost, foreign>>
    BY DEF MarkByHandFails, HandFails, turnVars
  <1>2. Types' /\ HandOK' /\ RowsKept /\ \A x \in Reminder : ShownKept(x)
    BY <1>1 DEF IInv, Types, HandOK, RowsKept, ShownKept
  <1>3. ASSUME NEW x \in DOMAIN row PROVE RowFrame(x)
    BY <1>1, SameFrame DEF Alike
  <1> QED
    BY <1>1, <1>2, <1>3, WorldStep

LEMMA HalfDayStep ==
    ASSUME IInv, HalfDay
    PROVE  IInv'
  <1>1. /\ now' = now + 1 /\ UNCHANGED <<row, hand, turn, loop, rounds, edits, marks, had, seen, foreign>>
        /\ IF Day(now') = Day(now) THEN UNCHANGED <<shown, lost>>
           ELSE shown' = [r \in Reminder |-> 0] /\ lost' = [r \in Reminder |-> 0]
    BY DEF HalfDay, Tick, turnVars
  <1>2. now \in Nat /\ shown \in [Reminder -> Nat] /\ lost \in [Reminder -> Nat]
    BY DEF IInv, Types
  <1>3. Types'
    BY <1>1, <1>2 DEF IInv, Types
  <1>4. RowsKept /\ \A r \in Reminder : ShownKept(r)
    BY <1>1, <1>2 DEF RowsKept, ShownKept
  <1>5. HandOK'
    <2>1. HandKept
      <3> SUFFICES ASSUME hand' # NoHand PROVE HandKept
        BY DEF HandKept
      <3>1. hand.r \in Reminder
        BY <1>1, HandNow
      <3> QED
        BY <1>1, <1>2, <3>1 DEF HandKept
    <2> QED
      BY <1>3, <1>4, <2>1, HandKeeps
  <1>6. ASSUME NEW x \in DOMAIN row PROVE RowFrame(x)
    <2>1. CASE Day(now') = Day(now)
      BY <1>1, <2>1, SameFrame DEF Alike
    <2>2. CASE Day(now') # Day(now)
      <3>1. shown'[x] = 0 /\ lost'[x] = 0
        BY <1>1, <2>2, RowNow
      <3>2. Today(row'[x], Day(now')) \in Nat /\ row'[x].count >= row[x].count
        BY <1>1, RowNow DEF Today
      <3> QED
        BY <1>1, <3>1, <3>2 DEF RowFrame
    <2> QED
      BY <2>1, <2>2
  <1> QED
    BY <1>1, <1>3, <1>4, <1>5, <1>6, WorldStep

-----------------------------------------------------------------------------
(* The requests *)

LEMMA IdleRequest == Idle \in Request /\ Idle.pc = "idle" /\ Idle.ids = {}
  BY DEF Idle, Request, Phase

\* What IInv says of a request.
LEMMA RequestNow ==
    ASSUME IInv, NEW t \in Turn
    PROVE  /\ turn[t] \in Request /\ TurnOK(t) /\ turn \in [Turn -> Request]
           /\ turn[t].ids \subseteq DOMAIN row /\ turn[t].ids \subseteq Reminder
           /\ turn[t] = [pc |-> turn[t].pc, s |-> turn[t].s, asks |-> turn[t].asks,
                         persist |-> turn[t].persist, ids |-> turn[t].ids, round |-> turn[t].round,
                         cur |-> turn[t].cur, read |-> turn[t].read, at |-> turn[t].at]
  BY DEF IInv, TurnOK, Types, Request

\* Request t is not at its bookkeeping, before and after.
LEMMA QuietStep ==
    ASSUME IInv, NEW t \in Turn, NEW w \in Request, turn' = [turn EXCEPT ![t] = w],
           UNCHANGED <<storeVars, edits, history, rounds, loop>>,
           turn[t].pc \in {"idle", "prepare", "upstream"}, w.pc \in {"idle", "prepare", "upstream"},
           w.pc # "idle" => w.s \in Session,
           w.ids = {} \/ (w.pc # "idle" /\ w.ids = turn[t].ids /\ w.s = turn[t].s)
    PROVE  IInv'
  <1>1. turn[t] \in Request /\ TurnOK(t) /\ turn'[t] = w
    BY RequestNow
  <1>2. TurnOK(t)'
    BY <1>1 DEF TurnOK, storeVars
  <1>3. RoundsKept /\ loop' \in Turn \cup {Free}
    BY DEF RoundsKept, IInv, Types
  <1>4. \A x \in Turn : turn[x].pc \in {"marking", "writing"} => loop' = x
    BY DEF IInv, TurnOK
  <1>5. w.ids \subseteq turn[t].ids
    OBVIOUS
  <1> QED
    BY <1>2, <1>3, <1>4, <1>5, RequestStep

LEMMA HandleChatStep ==
    ASSUME IInv, NEW t \in Turn, NEW s \in Session, NEW kind, HandleChat(t, s, kind)
    PROVE  IInv'
  <1>1. PICK asks \in BOOLEAN, persist \in BOOLEAN :
          /\ turn[t].pc = "idle"
          /\ turn' = [turn EXCEPT ![t] = [Idle EXCEPT !.pc = "prepare", !.s = s, !.asks = asks,
                                                      !.persist = persist]]
          /\ UNCHANGED <<storeVars, rounds, loop, edits, history>>
    BY DEF HandleChat
  <1>2. PICK v0 : v0 = [Idle EXCEPT !.pc = "prepare"]
    OBVIOUS
  <1>3. v0 \in Request /\ v0.pc = "prepare" /\ v0.ids = {}
    BY <1>2, IdleRequest DEF Request, Phase
  <1>4. PICK v1 : v1 = [v0 EXCEPT !.s = s]
    OBVIOUS
  <1>5. v1 \in Request /\ v1.pc = "prepare" /\ v1.s = s /\ v1.ids = {}
    BY <1>3, <1>4 DEF Request
  <1>6. PICK v2 : v2 = [v1 EXCEPT !.asks = asks]
    OBVIOUS
  <1>7. v2 \in Request /\ v2.pc = "prepare" /\ v2.s = s /\ v2.ids = {}
    BY <1>5, <1>6 DEF Request
  <1>8. PICK w : w = [v2 EXCEPT !.persist = persist]
    OBVIOUS
  <1>9. w \in Request /\ w.pc = "prepare" /\ w.s = s /\ w.ids = {}
    BY <1>7, <1>8 DEF Request
  <1>10. w = [Idle EXCEPT !.pc = "prepare", !.s = s, !.asks = asks, !.persist = persist]
    BY <1>2, <1>4, <1>6, <1>8, Zenon
  <1>11. turn' = [turn EXCEPT ![t] = w]
    BY <1>1, <1>10, Zenon
  <1> QED
    BY <1>1, <1>9, <1>11, QuietStep

LEMMA SkipStep ==
    ASSUME IInv, NEW t \in Turn, SkipReminders(t)
    PROVE  IInv'
  <1>1. PICK w : w = [[turn[t] EXCEPT !.pc = "upstream"] EXCEPT !.asks = FALSE]
    OBVIOUS
  <1>2. turn[t].pc = "prepare" /\ turn' = [turn EXCEPT ![t] = w]
        /\ UNCHANGED <<storeVars, rounds, loop, edits, history>>
    <2>1. /\ turn[t].pc = "prepare" /\ UNCHANGED <<storeVars, rounds, loop, edits, history>>
          /\ turn' = [[turn EXCEPT ![t].pc = "upstream"] EXCEPT ![t].asks = FALSE]
      BY DEF SkipReminders
    <2>2. turn' = [turn EXCEPT ![t] = [[turn[t] EXCEPT !.pc = "upstream"] EXCEPT !.asks = FALSE]]
      BY <2>1, RequestNow
    <2> QED
      BY <1>1, <2>1, <2>2, Zenon
  <1>3. w \in Request /\ w.pc = "upstream" /\ w.s = turn[t].s /\ w.ids = turn[t].ids
    <2>1. PICK u : u = turn[t] /\ u \in Request
      BY RequestNow
    <2>2. w = [u EXCEPT !.pc = "upstream", !.asks = FALSE]
      BY <1>1, <2>1
    <2>3. w \in Request /\ w.pc = "upstream" /\ w.s = u.s /\ w.ids = u.ids
      BY <2>1, <2>2 DEF Request, Phase
    <2> QED
      BY <2>1, <2>3
  <1>4. w.s \in Session
    BY <1>2, <1>3, RequestNow DEF TurnOK
  <1> QED
    BY <1>2, <1>3, <1>4, QuietStep

LEMMA NoAnswerStep ==
    ASSUME IInv, NEW t \in Turn, NoAnswer(t)
    PROVE  IInv'
  <1>1. turn[t].pc = "upstream" /\ turn' = [turn EXCEPT ![t] = Idle]
        /\ UNCHANGED <<storeVars, rounds, loop, edits, history>>
    BY DEF NoAnswer
  <1> QED
    BY <1>1, IdleRequest, QuietStep

LEMMA BuildStep ==
    ASSUME IInv, NEW t \in Turn, BuildActiveReminders(t)
    PROVE  IInv'
  <1>1. PICK ids \in SUBSET DueIds(turn[t].s, rounds[turn[t].s] + 1) :
               turn' = [turn EXCEPT ![t].pc = "upstream", ![t].asks = FALSE, ![t].ids = ids]
    BY DEF BuildActiveReminders
  <1>2. /\ loop = Free /\ turn[t].pc = "prepare" /\ row' = Swept
        /\ UNCHANGED <<now, hand, rounds, loop, edits, marks, had, shown, seen, lost, foreign>>
    BY DEF BuildActiveReminders, LoopFree, history
  <1>3. PICK u : u = turn[t] /\ u \in Request
    BY RequestNow
  <1>4. PICK v : v = [[u EXCEPT !.pc = "upstream"] EXCEPT !.asks = FALSE]
    OBVIOUS
  <1>5. PICK w : w = [v EXCEPT !.ids = ids]
    OBVIOUS
  <1>6. turn' = [turn EXCEPT ![t] = w]
    <2>1. turn' = [[[turn EXCEPT ![t].pc = "upstream"] EXCEPT ![t].asks = FALSE] EXCEPT ![t].ids = ids]
      BY <1>1
    <2>2. turn' = [turn EXCEPT ![t] =
                     [[[turn[t] EXCEPT !.pc = "upstream"] EXCEPT !.asks = FALSE] EXCEPT !.ids = ids]]
      BY <2>1, RequestNow
    <2> QED
      BY <1>3, <1>4, <1>5, <2>2, Zenon
  <1>7. u.s \in Session
    BY <1>2, <1>3, RequestNow DEF TurnOK
  <1>8. ASSUME NEW r \in ids
        PROVE  r \in DOMAIN row /\ r \in Reminder /\ HasRoom(r)
    BY <1>1, <1>3, <1>7, DueRow DEF IInv, Types
  <1>9. ids \subseteq DOMAIN row /\ ids \subseteq Reminder
    BY <1>8
  <1>10. w \in Request /\ w.pc = "upstream" /\ w.s = u.s /\ w.ids = ids
    <2>1. v \in Request /\ v.pc = "upstream" /\ v.s = u.s
      BY <1>3, <1>4 DEF Request, Phase
    <2> QED
      BY <1>5, <1>9, <2>1 DEF Request
  <1>11. turn' \in [Turn -> Request] /\ turn'[t] = w /\ \A x \in Turn : x # t => turn'[x] = turn[x]
    BY <1>6, <1>10, RequestNow
  <1>12. RowsKept /\ RoundsKept /\ DOMAIN row' = DOMAIN row /\ row' \in [DOMAIN row' -> RowType]
    BY <1>2, SweptRows DEF RowsKept, RoundsKept, IInv, Types
  <1>13. Types'
    BY <1>2, <1>11, <1>12 DEF IInv, Types
  <1>14. ASSUME NEW x \in Turn PROVE TurnOK(x)'
    <2>1. CASE x = t
      <3>1. ids \subseteq DOMAIN row'
        BY <1>8, <1>12 DEF RowsKept
      <3> QED
        BY <1>7, <1>10, <1>11, <2>1, <3>1 DEF TurnOK
    <2>2. CASE x # t
      <3>1. turn[x].pc \notin {"marking", "writing"}
        BY <1>2, TurnAssumption DEF IInv, TurnOK
      <3> QED
        BY <1>11, <1>12, <1>13, <2>2, <3>1, RequestKeeps
    <2> QED
      BY <2>1, <2>2
  <1>15. ASSUME NEW r \in DOMAIN row PROVE RowOK(r)'
    <2>1. RowFrame(r) /\ marks'[r] = marks[r]
      BY <1>2, SweptRows, SameFrame DEF IInv
    <2>2. CASE r \in ids
      BY <1>8, <1>12, <1>13, <2>1, <2>2, RowKeeps
    <2>3. CASE r \notin ids
      <3>1. Holders(turn', r) \subseteq Holders(turn, r)
        BY <1>10, <1>11, <2>3 DEF Holders
      <3> QED
        BY <1>12, <1>13, <2>1, <3>1, RowKeeps
    <2> QED
      BY <2>2, <2>3
  <1>16. HandOK'
    <2>1. HandKept
      <3> SUFFICES ASSUME hand' # NoHand PROVE HandKept
        BY DEF HandKept
      <3>1. hand.r \in DOMAIN row
        BY <1>2, HandNow
      <3>2. row'[hand.r].rule = row[hand.r].rule
        BY <1>2, <3>1, SweptRows DEF Alike, IInv
      <3> QED
        BY <1>2, <3>1, <3>2, RowNow DEF HandKept
    <2> QED
      BY <1>12, <1>13, <2>1, HandKeeps
  <1> QED
    BY <1>2, <1>12, <1>13, <1>14, <1>15, <1>16 DEF IInv

\* The bookkeeping: one request at a time.
LEMMA AtLoop ==
    ASSUME IInv, NEW t \in Turn, turn[t].pc \in {"marking", "writing"}
    PROVE  /\ loop = t /\ turn[t].s \in Session /\ turn[t].round <= rounds[turn[t].s]
           /\ \A x \in Turn : x # t => turn[x].pc \notin {"marking", "writing"}
  BY DEF IInv, TurnOK

LEMMA RecordSuccessStep ==
    ASSUME IInv, NEW t \in Turn, RecordSuccess(t)
    PROVE  IInv'
  <1>1. PICK u : u = turn[t] /\ u \in Request
    BY RequestNow
  <1>2. /\ loop = Free /\ u.pc = "upstream" /\ rounds' = [rounds EXCEPT ![u.s] = @ + 1]
        /\ loop' = t /\ UNCHANGED <<storeVars, edits, history>>
        /\ turn' = [turn EXCEPT ![t].pc = "marking", ![t].round = rounds[u.s] + 1]
    BY <1>1 DEF RecordSuccess, LoopFree
  <1>3. u.s \in Session /\ rounds \in [Session -> Nat]
    BY <1>1, <1>2, RequestNow DEF TurnOK, IInv, Types
  <1>4. PICK v : v = [u EXCEPT !.pc = "marking"]
    OBVIOUS
  <1>5. PICK w : w = [v EXCEPT !.round = rounds[u.s] + 1]
    OBVIOUS
  <1>6. turn' = [turn EXCEPT ![t] = w]
    <2>1. turn' = [[turn EXCEPT ![t].pc = "marking"] EXCEPT ![t].round = rounds[u.s] + 1]
      BY <1>2
    <2>2. turn' = [turn EXCEPT ![t] = [[turn[t] EXCEPT !.pc = "marking"] EXCEPT !.round = rounds[u.s] + 1]]
      BY <2>1, RequestNow
    <2> QED
      BY <1>1, <1>4, <1>5, <2>2, Zenon
  <1>7. w \in Request /\ w.pc = "marking" /\ w.s = u.s /\ w.ids = u.ids /\ w.round = rounds[u.s] + 1
    <2>1. v \in Request /\ v.pc = "marking" /\ v.s = u.s /\ v.ids = u.ids
      BY <1>1, <1>4 DEF Request, Phase
    <2>2. rounds[u.s] + 1 \in Nat
      BY <1>3
    <2> QED
      BY <1>5, <2>1, <2>2 DEF Request
  <1>8. RoundsKept /\ rounds'[u.s] = rounds[u.s] + 1
    BY <1>2, <1>3 DEF RoundsKept
  <1>9. TurnOK(t)'
    <2>1. turn'[t] = w
      BY <1>6, RequestNow
    <2>2. w.round <= rounds'[w.s]
      BY <1>3, <1>7, <1>8
    <2>3. u.ids \subseteq DOMAIN row /\ row' = row
      BY <1>1, <1>2, RequestNow DEF TurnOK, storeVars
    <2> QED
      BY <1>2, <1>3, <1>7, <2>1, <2>2, <2>3 DEF TurnOK
  <1>10. \A x \in Turn : turn[x].pc \notin {"marking", "writing"}
    BY <1>2, TurnAssumption DEF IInv, TurnOK
  <1> QED
    BY <1>1, <1>2, <1>6, <1>7, <1>8, <1>9, <1>10, RequestStep

LEMMA MarkReadStep ==
    ASSUME IInv, NEW t \in Turn, NEW r \in Reminder, MarkRead(t, r)
    PROVE  IInv'
  <1>1. PICK u : u = turn[t] /\ u \in Request
    BY RequestNow
  <1>2. /\ u.pc = "marking" /\ r \in u.ids /\ UNCHANGED <<storeVars, rounds, loop, edits, history>>
        /\ turn' = [turn EXCEPT ![t].pc = "writing", ![t].cur = r, ![t].read = row[r], ![t].at = now]
    BY <1>1 DEF MarkRead
  <1>3. r \in DOMAIN row
    BY <1>1, <1>2, RequestNow
  <1>4. row[r] \in RowType /\ now \in Nat /\ shown[r] <= lost[r] + Today(row[r], Day(now))
    BY <1>3, RowNow DEF RowOK
  <1>5. PICK v0 : v0 = [u EXCEPT !.pc = "writing"]
    OBVIOUS
  <1>6. v0 \in Request /\ v0.pc = "writing" /\ v0.s = u.s /\ v0.ids = u.ids /\ v0.round = u.round
    BY <1>1, <1>5 DEF Request, Phase
  <1>7. PICK v1 : v1 = [v0 EXCEPT !.cur = r]
    OBVIOUS
  <1>8. v1 \in Request /\ v1.pc = "writing" /\ v1.s = u.s /\ v1.ids = u.ids /\ v1.round = u.round
        /\ v1.cur = r
    BY <1>6, <1>7 DEF Request
  <1>9. PICK v2 : v2 = [v1 EXCEPT !.read = row[r]]
    OBVIOUS
  <1>10. v2 \in Request /\ v2.pc = "writing" /\ v2.s = u.s /\ v2.ids = u.ids /\ v2.round = u.round
         /\ v2.cur = r /\ v2.read = row[r]
    BY <1>4, <1>8, <1>9 DEF Request
  <1>11. PICK w : w = [v2 EXCEPT !.at = now]
    OBVIOUS
  <1>12. w \in Request /\ w.pc = "writing" /\ w.s = u.s /\ w.ids = u.ids /\ w.round = u.round
         /\ w.cur = r /\ w.read = row[r] /\ w.at = now
    BY <1>4, <1>10, <1>11 DEF Request
  <1>13. turn' = [turn EXCEPT ![t] = w]
    <2>1. turn' = [[[[turn EXCEPT ![t].pc = "writing"] EXCEPT ![t].cur = r] EXCEPT ![t].read = row[r]]
                   EXCEPT ![t].at = now]
      BY <1>2
    <2>2. turn' = [turn EXCEPT ![t] = [[[[turn[t] EXCEPT !.pc = "writing"] EXCEPT !.cur = r]
                                        EXCEPT !.read = row[r]] EXCEPT !.at = now]]
      BY <2>1, RequestNow
    <2> QED
      BY <1>1, <1>5, <1>7, <1>9, <1>11, <2>2, Zenon
  <1>14. TurnOK(t)'
    <2>1. turn'[t] = w
      BY <1>13, RequestNow
    <2>2. TurnOK(t) /\ UNCHANGED <<row, now, rounds, loop, shown, lost>>
      BY <1>2, RequestNow DEF storeVars, history
    <2> QED
      BY <1>1, <1>2, <1>4, <1>12, <2>1, <2>2 DEF TurnOK, ReadOK
  <1>15. RoundsKept /\ loop' \in Turn \cup {Free}
    BY <1>2 DEF RoundsKept, IInv, Types
  <1>16. \A x \in Turn : x # t => turn[x].pc \notin {"marking", "writing"}
    BY <1>1, <1>2, AtLoop
  <1> QED
    BY <1>1, <1>2, <1>12, <1>13, <1>14, <1>15, <1>16, RequestStep

\* Request t is done with reminder r, and with nothing else.
LEMMA LessOne ==
    ASSUME IInv, NEW t \in Turn, NEW r,
           turn' = [turn EXCEPT ![t].pc = "marking", ![t].cur = Free, ![t].read = Free, ![t].at = 0,
                                ![t].ids = @ \ {r}]
    PROVE  \E w \in Request : /\ turn' = [turn EXCEPT ![t] = w]
                              /\ w.pc = "marking" /\ w.s = turn[t].s /\ w.round = turn[t].round
                              /\ w.ids = turn[t].ids \ {r}
  <1>1. PICK u : u = turn[t] /\ u \in Request
    BY RequestNow
  <1>2. PICK v0 : v0 = [u EXCEPT !.pc = "marking"]
    OBVIOUS
  <1>3. v0 \in Request /\ v0.pc = "marking" /\ v0.s = u.s /\ v0.ids = u.ids /\ v0.round = u.round
    BY <1>1, <1>2 DEF Request, Phase
  <1>4. PICK v1 : v1 = [v0 EXCEPT !.cur = Free]
    OBVIOUS
  <1>5. v1 \in Request /\ v1.pc = "marking" /\ v1.s = u.s /\ v1.ids = u.ids /\ v1.round = u.round
    BY <1>3, <1>4 DEF Request
  <1>6. PICK v2 : v2 = [v1 EXCEPT !.read = Free]
    OBVIOUS
  <1>7. v2 \in Request /\ v2.pc = "marking" /\ v2.s = u.s /\ v2.ids = u.ids /\ v2.round = u.round
    BY <1>5, <1>6 DEF Request
  <1>8. PICK v3 : v3 = [v2 EXCEPT !.at = 0]
    OBVIOUS
  <1>9. v3 \in Request /\ v3.pc = "marking" /\ v3.s = u.s /\ v3.ids = u.ids /\ v3.round = u.round
    BY <1>7, <1>8 DEF Request
  <1>10. PICK ids : ids = u.ids \ {r}
    OBVIOUS
  <1>11. PICK w : w = [v3 EXCEPT !.ids = ids]
    OBVIOUS
  <1>12. w \in Request /\ w.pc = "marking" /\ w.s = u.s /\ w.ids = ids /\ w.round = u.round
    <2>1. ids \in SUBSET Reminder
      BY <1>1, <1>10 DEF Request
    <2> QED
      BY <1>9, <1>11, <2>1 DEF Request
  <1>13. turn' = [turn EXCEPT ![t] = w]
    <2>1. turn' = [[[[[turn EXCEPT ![t].pc = "marking"] EXCEPT ![t].cur = Free] EXCEPT ![t].read = Free]
                    EXCEPT ![t].at = 0] EXCEPT ![t].ids = ids]
      <3>1. turn' = [[[[[turn EXCEPT ![t].pc = "marking"] EXCEPT ![t].cur = Free] EXCEPT ![t].read = Free]
                      EXCEPT ![t].at = 0] EXCEPT ![t].ids = turn[t].ids \ {r}]
        BY RequestNow
      <3> QED
        BY <1>1, <1>10, <3>1, Zenon
    <2>2. turn' = [turn EXCEPT ![t] = [[[[[turn[t] EXCEPT !.pc = "marking"] EXCEPT !.cur = Free]
                                          EXCEPT !.read = Free] EXCEPT !.at = 0] EXCEPT !.ids = ids]]
      BY <2>1, RequestNow
    <2> QED
      BY <1>1, <1>2, <1>4, <1>6, <1>8, <1>11, <2>2, Zenon
  <1> QED
    BY <1>1, <1>10, <1>12, <1>13

LEMMA MarkFailsStep ==
    ASSUME IInv, NEW t \in Turn, NEW r \in Reminder, MarkFails(t, r)
    PROVE  IInv'
  <1>1. /\ turn[t].pc \in {"marking", "writing"} /\ UNCHANGED <<storeVars, rounds, loop, edits, history>>
        /\ turn' = [turn EXCEPT ![t].pc = "marking", ![t].cur = Free, ![t].read = Free, ![t].at = 0,
                                ![t].ids = @ \ {r}]
    BY DEF MarkFails
  <1>2. PICK w \in Request : /\ turn' = [turn EXCEPT ![t] = w]
                             /\ w.pc = "marking" /\ w.s = turn[t].s /\ w.round = turn[t].round
                             /\ w.ids = turn[t].ids \ {r}
    BY <1>1, LessOne
  <1>3. TurnOK(t)'
    <2>1. turn'[t] = w /\ TurnOK(t)
      BY <1>2, RequestNow
    <2> QED
      BY <1>1, <1>2, <2>1 DEF TurnOK, storeVars
  <1>4. RoundsKept /\ loop' \in Turn \cup {Free}
    BY <1>1 DEF RoundsKept, IInv, Types
  <1>5. \A x \in Turn : x # t => turn[x].pc \notin {"marking", "writing"}
    BY <1>1, AtLoop
  <1> QED
    BY <1>1, <1>2, <1>3, <1>4, <1>5, RequestStep

LEMMA FinishStep ==
    ASSUME IInv, NEW t \in Turn, Finish(t)
    PROVE  IInv'
  <1>1. /\ turn[t].pc = "marking" /\ turn' = [turn EXCEPT ![t] = Idle] /\ loop' = Free
        /\ UNCHANGED <<storeVars, rounds, edits, history>>
    BY DEF Finish
  <1>2. TurnOK(t)'
    <2>1. turn'[t] = Idle
      BY <1>1, RequestNow
    <2> QED
      BY <2>1, IdleRequest DEF TurnOK
  <1>3. RoundsKept
    BY <1>1 DEF RoundsKept, IInv, Types
  <1>4. \A x \in Turn : x # t => turn[x].pc \notin {"marking", "writing"}
    BY <1>1, AtLoop
  <1> QED
    BY <1>1, <1>2, <1>3, <1>4, IdleRequest, RequestStep

LEMMA RestartStep ==
    ASSUME IInv, Restart
    PROVE  IInv'
  <1>1. /\ turn' = [t \in Turn |-> Idle] /\ loop' = Free
        /\ UNCHANGED <<row, now, hand, rounds, edits, marks, had, shown, seen, lost, foreign>>
    BY DEF Restart, storeVars, history
  <1>2. Types' /\ RoundsKept /\ RowsKept /\ HandOK'
    BY <1>1, IdleRequest DEF IInv, Types, RoundsKept, RowsKept, HandOK
  <1>3. \A x \in Turn : TurnOK(x)'
    BY <1>1, IdleRequest DEF TurnOK
  <1>4. ASSUME NEW r \in DOMAIN row PROVE RowOK(r)'
    <2>1. Holders(turn', r) \subseteq Holders(turn, r)
      BY <1>1, IdleRequest DEF Holders
    <2>2. RowFrame(r) /\ marks'[r] = marks[r]
      BY <1>1, SameFrame DEF Alike
    <2> QED
      BY <1>2, <2>1, <2>2, RowKeeps
  <1> QED
    BY <1>1, <1>2, <1>3, <1>4 DEF IInv

LEMMA MarkWriteStep ==
    ASSUME IInv, NEW t \in Turn, MarkWrite(t)
    PROVE  IInv'
  <1>1. PICK r, read, at, round : r = turn[t].cur /\ read = turn[t].read /\ at = turn[t].at
                                  /\ round = turn[t].round
    OBVIOUS
  <1>2. turn[t].pc = "writing" /\ UNCHANGED <<now, hand, rounds, loop, edits, had, seen, lost>>
        /\ turn' = [turn EXCEPT ![t].pc = "marking", ![t].cur = Free, ![t].read = Free, ![t].at = 0,
                                ![t].ids = @ \ {r}]
        /\ marks' = [marks EXCEPT ![r] = @ + 1]
        /\ shown' = [shown EXCEPT ![r] = IF Day(at) = Day(now) THEN @ + 1 ELSE @]
    BY <1>1 DEF MarkWrite
  <1>3. /\ foreign' \in {foreign \ {r}, foreign \cup {r}}
        /\ r \notin foreign' => row[r].session \in {Anyone, turn[t].s}
    BY <1>1 DEF MarkWrite
  <1>4. PICK m : m = Marked(row[r], read, at, round)
    OBVIOUS
  <1>5. row' = [row EXCEPT ![r] = m]
    BY <1>1, <1>4 DEF MarkWrite
  <1>6. PICK w \in Request : /\ turn' = [turn EXCEPT ![t] = w]
                             /\ w.pc = "marking" /\ w.s = turn[t].s /\ w.round = round
                             /\ w.ids = turn[t].ids \ {r}
    <2>1. \E w \in Request : /\ turn' = [turn EXCEPT ![t] = w]
                             /\ w.pc = "marking" /\ w.s = turn[t].s /\ w.round = turn[t].round
                             /\ w.ids = turn[t].ids \ {r}
      BY <1>2, LessOne, Zenon
    <2> QED
      BY <1>1, <2>1
  <1>7. /\ turn[t] \in Request /\ r \in turn[t].ids /\ r \in DOMAIN row /\ r \in Reminder
        /\ read \in RowType /\ at \in Nat /\ round \in Nat
        /\ shown[r] <= lost[r] + (IF Day(at) = Day(now) THEN Today(read, Day(now)) ELSE 0)
    <2>1. turn[t] \in Request /\ TurnOK(t)
      BY RequestNow
    <2>2. r \in turn[t].ids /\ read \in RowType /\ ReadOK(t)
      BY <1>1, <1>2, <2>1 DEF TurnOK
    <2> QED
      BY <1>1, <2>1, <2>2, RequestNow DEF TurnOK, Request, ReadOK
  <1>8. loop = t /\ turn[t].s \in Session /\ round <= rounds[turn[t].s]
        /\ \A x \in Turn : x # t => turn[x].pc \notin {"marking", "writing"}
    BY <1>1, <1>2, AtLoop
  <1>9. /\ row[r] \in RowType /\ m \in RowType /\ m.rule = row[r].rule /\ m.session = row[r].session
        /\ m.maxInjections = row[r].maxInjections /\ m.dailyLimit = row[r].dailyLimit
        /\ m.count = row[r].count + 1 /\ m.lastRound = round
        /\ m.day = Day(at) /\ m.dayCount = Today(read, Day(at)) + 1
    <2>1. row[r] \in RowType
      BY <1>7, RowNow
    <2> QED
      BY <1>4, <1>7, <2>1, MarkedRow
  <1>10. /\ row \in [DOMAIN row -> RowType] /\ DOMAIN row \subseteq Reminder
         /\ had \in [Reminder -> Nat] /\ lost \in [Reminder -> Nat] /\ foreign \subseteq Reminder
         /\ marks \in [Reminder -> Nat] /\ shown \in [Reminder -> Nat] /\ now \in Nat
         /\ turn \in [Turn -> Request]
    BY DEF IInv, Types
  <1>11. /\ row' \in [DOMAIN row -> RowType] /\ DOMAIN row' = DOMAIN row /\ row'[r] = m
         /\ \A x \in DOMAIN row : x # r => row'[x] = row[x]
    BY <1>5, <1>7, <1>9, <1>10
  <1>12. turn' \in [Turn -> Request] /\ turn'[t] = w /\ \A x \in Turn : x # t => turn'[x] = turn[x]
    BY <1>6, <1>10
  <1>13. /\ marks' \in [Reminder -> Nat] /\ marks'[r] = marks[r] + 1
         /\ \A x \in Reminder : x # r => marks'[x] = marks[x]
         /\ shown' \in [Reminder -> Nat]
         /\ shown'[r] = IF Day(at) = Day(now) THEN shown[r] + 1 ELSE shown[r]
         /\ \A x \in Reminder : x # r => shown'[x] = shown[x]
    BY <1>2, <1>7, <1>10
  <1>14. Types'
    BY <1>2, <1>3, <1>7, <1>10, <1>11, <1>12, <1>13 DEF IInv, Types
  <1>15. RowsKept /\ RoundsKept
    BY <1>2, <1>11 DEF RowsKept, RoundsKept, IInv, Types
  <1>16. ASSUME NEW x \in Turn PROVE TurnOK(x)'
    <2>1. CASE x # t
      BY <1>8, <1>12, <1>14, <1>15, <2>1, RequestKeeps
    <2>2. CASE x = t
      <3>1. turn[t].ids \subseteq DOMAIN row
        BY RequestNow
      <3>2. w.ids \subseteq DOMAIN row'
        BY <1>6, <1>11, <3>1
      <3> QED
        BY <1>2, <1>6, <1>8, <1>12, <2>2, <3>2 DEF TurnOK
    <2> QED
      BY <2>1, <2>2
  <1>17. ASSUME NEW x \in DOMAIN row, x # r PROVE RowOK(x)'
    <2>1. Holders(turn', x) \subseteq Holders(turn, x)
      BY <1>6, <1>12 DEF Holders
    <2>2. x \in Reminder /\ (x \in foreign => x \in foreign')
      BY <1>3, <1>17, RowNow
    <2>3. RowFrame(x) /\ marks'[x] = marks[x]
      BY <1>2, <1>11, <1>13, <1>17, <2>2, SameFrame DEF Alike
    <2> QED
      BY <1>14, <1>15, <2>1, <2>3, RowKeeps
  <1>18. RowOK(r)'
    <2>1. /\ marks[r] \in Nat /\ had[r] \in Nat /\ shown[r] \in Nat /\ lost[r] \in Nat
          /\ row[r].count \in Nat /\ row[r].dailyLimit \in Nat
          /\ TotalLimit(row[r]) \in Nat /\ Today(read, Day(at)) \in Nat
      BY <1>7, <1>9, <1>10 DEF RowType, TotalLimit, Today
    <2>2. RowOK(r)
      BY <1>7 DEF IInv
    <2>3. marks'[r] <= row'[r].count
      BY <1>9, <1>11, <1>13, <2>1, <2>2 DEF RowOK
    <2>4. shown'[r] <= lost'[r] + Today(row'[r], Day(now'))
      <3>1. CASE Day(at) = Day(now)
        <4>1. Today(row'[r], Day(now')) = Today(read, Day(now)) + 1
          BY <1>2, <1>9, <1>11, <3>1 DEF Today
        <4> QED
          BY <1>2, <1>7, <1>13, <2>1, <3>1, <4>1
      <3>2. CASE Day(at) # Day(now)
        <4>1. Today(row'[r], Day(now')) = 0
          BY <1>2, <1>9, <1>11, <3>2 DEF Today
        <4> QED
          BY <1>2, <1>7, <1>13, <2>1, <3>2, <4>1
      <3> QED
        BY <3>1, <3>2
    <2>5. r \notin foreign' => Stamped(r)'
      <3> SUFFICES ASSUME r \notin foreign' PROVE Stamped(r)'
        OBVIOUS
      <3>1. row'[r].session \in {Anyone, turn[t].s} /\ row'[r].lastRound <= rounds'[turn[t].s]
        BY <1>2, <1>3, <1>8, <1>9, <1>11
      <3> QED
        BY <1>8, <3>1 DEF Stamped
    <2> DEFINE c == Cardinality(Holders(turn, r))
               d == Cardinality(Holders(turn', r))
               n == Cardinality(Turn)
    <2>6. c \in Nat /\ d \in Nat /\ n \in Nat /\ d = c - 1
      <3>1. t \in Holders(turn, r)
        BY <1>7 DEF Holders
      <3>2. Holders(turn', r) = Holders(turn, r) \ {t}
        BY <1>6, <1>12 DEF Holders
      <3> QED
        BY <3>1, <3>2, HoldersBound, HoldersDrop
    <2>7. TotalLimit(row'[r]) = TotalLimit(row[r]) /\ row'[r].dailyLimit = row[r].dailyLimit
      BY <1>9, <1>11 DEF TotalLimit
    <2>8. /\ TotalLimit(row[r]) > 0 => \/ marks[r] + c <= TotalLimit(row[r]) + n - 1
                                       \/ marks[r] + c <= had[r] + n
          /\ row[r].dailyLimit > 0 => shown[r] + c <= row[r].dailyLimit + n - 1 + lost[r]
      BY <2>2 DEF RowOK, TotalRoom, DailyRoom
    <2> HIDE DEF c, d, n
    <2>9. shown'[r] <= shown[r] + 1 /\ shown'[r] \in Nat
      BY <1>13, <2>1
    <2>10. /\ TotalLimit(row'[r]) > 0 => \/ marks'[r] + d <= TotalLimit(row'[r]) + n - 1
                                         \/ marks'[r] + d <= had'[r] + n
           /\ row'[r].dailyLimit > 0 => shown'[r] + d <= row'[r].dailyLimit + n - 1 + lost'[r]
      BY <1>2, <1>13, <2>1, <2>6, <2>7, <2>8, <2>9
    <2>11. TotalRoom(r)' /\ DailyRoom(r)'
      BY <2>10 DEF TotalRoom, DailyRoom, d, n
    <2> QED
      BY <2>3, <2>4, <2>5, <2>11 DEF RowOK
  <1>19. \A x \in Reminder \ DOMAIN row' : marks'[x] = 0 /\ shown'[x] = 0
    BY <1>7, <1>11, <1>13 DEF IInv
  <1>20. HandOK'
    <2>1. HandKept
      <3> SUFFICES ASSUME hand' # NoHand PROVE HandKept
        BY DEF HandKept
      <3>1. hand.r \in DOMAIN row /\ hand.r \in Reminder
        BY <1>2, HandNow
      <3>2. row'[hand.r].rule = row[hand.r].rule
        BY <1>9, <1>11, <3>1
      <3>3. shown'[hand.r] >= shown[hand.r] /\ lost[hand.r] \in Nat
        BY <1>10, <1>13, <3>1
      <3> QED
        BY <1>2, <1>10, <3>2, <3>3 DEF HandKept
    <2> QED
      BY <1>14, <1>15, <2>1, HandKeeps
  <1> QED
    BY <1>11, <1>14, <1>16, <1>17, <1>18, <1>19, <1>20 DEF IInv

-----------------------------------------------------------------------------
(* The start, and every step *)

LEMMA InitIInv == Init => IInv
  <1> SUFFICES ASSUME Init PROVE IInv
    OBVIOUS
  <1>1. /\ row = <<>> /\ now = 0 /\ edits = 0 /\ rounds = [s \in Session |-> 0]
        /\ turn = [t \in Turn |-> Idle] /\ loop = Free
        /\ marks = [r \in Reminder |-> 0] /\ had = [r \in Reminder |-> 0]
        /\ shown = [r \in Reminder |-> 0] /\ lost = [r \in Reminder |-> 0]
        /\ hand = NoHand /\ seen = 0 /\ foreign = {}
    BY DEF Init, StoreInit
  <1>2. DOMAIN row = {} /\ row = [r \in {} |-> row[r]]
    BY <1>1
  <1>3. Types
    <2>1. row \in [DOMAIN row -> RowType] /\ DOMAIN row \subseteq Reminder
      BY <1>2
    <2> QED
      BY <1>1, <2>1, IdleRequest DEF Types
  <1>4. \A t \in Turn : TurnOK(t)
    BY <1>1, IdleRequest DEF TurnOK
  <1>5. HandOK
    BY <1>1 DEF HandOK
  <1> QED
    BY <1>1, <1>2, <1>3, <1>4, <1>5 DEF IInv

LEMMA ServeStep ==
    ASSUME IInv, Serve
    PROVE  IInv'
  <1>1. UNCHANGED <<turnVars, history>>
    BY DEF Serve
  <1>2. edits \in Nat
    BY DEF IInv, Types
  <1>3. ASSUME NEW r \in Reminder, NEW d \in Draft, Edit("create"), Create(r, d)
        PROVE  IInv'
    <2>1. edits' \in Nat
      BY <1>2, <1>3 DEF Edit
    <2> QED
      BY <1>1, <1>3, <2>1, CreateStep
  <1>4. ASSUME NEW r \in Reminder, NEW st \in {"active", "done", "archived"}, Edit("status"), SetStatus(r, st)
        PROVE  IInv'
    <2>1. edits' \in Nat
      BY <1>2, <1>4 DEF Edit
    <2> QED
      BY <1>1, <1>4, <2>1, SetStatusStep
  <1>5. ASSUME NEW r \in Reminder, Edit("snooze"), Snooze(r)
        PROVE  IInv'
    <2>1. edits' \in Nat
      BY <1>2, <1>5 DEF Edit
    <2> QED
      BY <1>1, <1>5, <2>1, SnoozeStep
  <1>6. CASE UNCHANGED edits /\ List
    BY <1>1, <1>6, ListStep
  <1> QED
    BY <1>3, <1>4, <1>5, <1>6 DEF Serve

LEMMA SameIInv ==
    ASSUME IInv, UNCHANGED vars
    PROVE  IInv'
  <1>1. UNCHANGED <<row, now, hand, rounds, turn, loop, edits, marks, had, shown, seen, lost, foreign>>
    BY DEF vars, storeVars, turnVars, history
  <1>2. Types' /\ HandOK' /\ RowsKept /\ \A r \in Reminder : ShownKept(r)
    BY <1>1 DEF IInv, Types, HandOK, RowsKept, ShownKept
  <1>3. ASSUME NEW r \in DOMAIN row PROVE RowFrame(r)
    BY <1>1, SameFrame DEF Alike
  <1> QED
    BY <1>1, <1>2, <1>3, WorldStep

LEMMA NextIInv == IInv /\ [Next]_vars => IInv'
  <1> SUFFICES ASSUME IInv, [Next]_vars PROVE IInv'
    OBVIOUS
  <1>1. ASSUME NEW t \in Turn, Step(t)
        PROVE  IInv'
    BY <1>1, BuildStep, SkipStep, NoAnswerStep, RecordSuccessStep, MarkReadStep, MarkFailsStep,
       MarkWriteStep, FinishStep DEF Step, SkipRound
  <1>2. ASSUME NEW t \in Turn, NEW s \in Session, NEW kind, HandleChat(t, s, kind)
        PROVE  IInv'
    BY <1>2, HandleChatStep
  <1>3. ASSUME NEW r \in Reminder, NEW n \in 0..1, Relimit(r, n)
        PROVE  IInv'
    BY <1>3, RelimitStep
  <1>4. ASSUME NEW r \in Reminder, NEW d \in Draft, Change(r, d)
        PROVE  IInv'
    BY <1>4, ChangeStep
  <1>5. ASSUME NEW r \in Reminder, NEW round \in Stamp, MarkByHandReads(r, round)
        PROVE  IInv'
    BY <1>5, MarkByHandReadsStep
  <1>6. CASE Restart \/ Serve \/ HalfDay \/ MarkByHandWrites \/ MarkByHandFails \/ UNCHANGED vars
    BY <1>6, RestartStep, ServeStep, HalfDayStep, MarkByHandWritesStep, MarkByHandFailsStep, SameIInv
  <1> QED
    BY <1>1, <1>2, <1>3, <1>4, <1>5, <1>6 DEF Next

LEMMA SpecIInv == Spec => []IInv
  BY InitIInv, NextIInv, PTL DEF Spec

-----------------------------------------------------------------------------
(* Theorems *)

\* Table, clock, rounds, requests and the server's mark_reminded keep their
\* types.
THEOREM TurnsTypeCorrect == Spec => []TypeOK
  <1>1. IInv => TypeOK
    <2> SUFFICES ASSUME IInv PROVE TypeOK
      OBVIOUS
    <2>1. hand \in {NoHand} \cup [r : DOMAIN row, read : RowType, at : Nat, round : Nat]
      BY HandNow DEF IInv, Types
    <2> QED
      BY <2>1 DEF IInv, Types, TypeOK, Request, Phase
  <1> QED
    BY <1>1, SpecIInv, PTL

\* A stamp is the round of a turn that took place, in a session that may see
\* the reminder, unless the server wrote it, with whatever round it was given,
\* or it was written for the session the reminder belonged to before.
THEOREM StampsAreOfTurns == Spec => []StampedWhenShown
  <1>1. IInv => StampedWhenShown
    BY DEF IInv, RowOK, Stamped, StampedWhenShown
  <1> QED
    BY <1>1, SpecIInv, PTL

\* The gateway marks a reminder at most as often as its limit allows, and once
\* more for every other request that may be under way; after a limit is set
\* below the marks there are, at most once more for every request.
THEOREM TotalLimitHolds == Spec => []TotalLimitKept
  <1>1. IInv => TotalLimitKept
    <2> SUFFICES ASSUME IInv, NEW r \in DOMAIN row, TotalLimit(row[r]) > 0
                 PROVE  \/ marks[r] <= TotalLimit(row[r]) + Cardinality(Turn) - 1
                        \/ marks[r] <= had[r] + Cardinality(Turn)
      BY DEF TotalLimitKept
    <2> DEFINE c == Cardinality(Holders(turn, r))
    <2>1. \/ marks[r] + c <= TotalLimit(row[r]) + Cardinality(Turn) - 1
          \/ marks[r] + c <= had[r] + Cardinality(Turn)
      BY RowNow DEF RowOK, TotalRoom
    <2>2. c \in Nat /\ Cardinality(Turn) \in Nat
      BY HoldersBound
    <2> HIDE DEF c
    <2> QED
      BY <2>1, <2>2, RowNow
  <1> QED
    BY <1>1, SpecIInv, PTL

\* The same of the marks of one day, since its limit was set last, and but for
\* the marks that a mark of the server, begun before them, has overwritten.
THEOREM DailyLimitHolds == Spec => []DailyLimitKept
  <1>1. IInv => DailyLimitKept
    <2> SUFFICES ASSUME IInv, NEW r \in DOMAIN row, row[r].dailyLimit > 0
                 PROVE  shown[r] <= row[r].dailyLimit + Cardinality(Turn) - 1 + lost[r]
      BY DEF DailyLimitKept
    <2> DEFINE c == Cardinality(Holders(turn, r))
    <2>1. shown[r] + c <= row[r].dailyLimit + Cardinality(Turn) - 1 + lost[r]
      BY RowNow DEF RowOK, DailyRoom
    <2>2. c \in Nat /\ Cardinality(Turn) \in Nat
      BY HoldersBound
    <2> HIDE DEF c
    <2> QED
      BY <2>1, <2>2, RowNow
  <1> QED
    BY <1>1, SpecIInv, PTL

\* A reminder that was to appear once is not reopened by any answer, nor by a
\* mark of the server, whatever happened to it since it was picked: what the
\* mark has read is stale, but it has read the rule "once".
THEOREM OnceStaysOnce == Spec => OnceIsOnce
  <1>1. IInv /\ [Next]_vars =>
          [\A r \in DOMAIN row :
              /\ row[r].rule = "once" /\ row[r].status # "active" /\ edits' = edits
              /\ \A t \in Turn : turn[t].cur = r => turn[t].read.rule = "once"
              => row'[r].status # "active"]_vars
    <2> SUFFICES ASSUME IInv, Next, NEW r \in DOMAIN row, row[r].rule = "once", row[r].status # "active",
                        edits' = edits, \A t \in Turn : turn[t].cur = r => turn[t].read.rule = "once"
                 PROVE  row'[r].status # "active"
      OBVIOUS
    <2>1. \A op : ~Edit(op)
      BY DEF Edit, IInv, Types
    <2>2. CASE UNCHANGED row
      BY <2>2
    <2>3. CASE row' = Swept
      BY <2>3, SweptRows DEF IInv
    <2>4. ASSUME NEW x, NEW read \in RowType, NEW at \in Nat, NEW round \in Nat,
                 row' = [row EXCEPT ![x] = Marked(@, read, at, round)], x = r => read.rule = "once"
          PROVE  row'[r].status # "active"
      <3>1. PICK m : m = Marked(row[x], read, at, round)
        OBVIOUS
      <3>2. row' = [row EXCEPT ![x] = m]
        BY <2>4, <3>1
      <3>3. CASE x = r
        <4>1. row[x] \in RowType /\ read.rule = "once"
          BY <2>4, <3>3, RowNow
        <4>2. m.status = "archived"
          BY <3>1, <4>1, MarkedRow
        <4> QED
          BY <3>2, <3>3, <4>2 DEF IInv, Types
      <3>4. CASE x # r
        BY <3>2, <3>4 DEF IInv, Types
      <3> QED
        BY <3>3, <3>4
    <2>5. ASSUME NEW t \in Turn, MarkWrite(t)
          PROVE  row'[r].status # "active"
      <3>1. turn[t].read \in RowType /\ turn[t].at \in Nat /\ turn[t].round \in Nat
        BY <2>5, RequestNow DEF MarkWrite, TurnOK, Request
      <3>2. row' = [row EXCEPT ![turn[t].cur] = Marked(@, turn[t].read, turn[t].at, turn[t].round)]
        BY <2>5 DEF MarkWrite
      <3> QED
        BY <2>4, <3>1, <3>2
    <2>6. CASE MarkByHandWrites
      <3>1. /\ hand.read \in RowType /\ hand.at \in Nat /\ hand.round \in Nat
            /\ hand.r = r => hand.read.rule = "once"
        BY <2>6, HandNow DEF MarkByHandWrites, HandWrite
      <3>2. row' = [row EXCEPT ![hand.r] = Marked(@, hand.read, hand.at, hand.round)]
        BY <2>6 DEF MarkByHandWrites, HandWrite
      <3> QED
        BY <2>4, <3>1, <3>2
    <2>7. CASE \E t \in Turn : Step(t)
      <3>1. \A t \in Turn : Step(t) => MarkWrite(t) \/ BuildActiveReminders(t) \/ UNCHANGED row
        <4> SUFFICES ASSUME NEW t \in Turn, Step(t), ~MarkWrite(t), ~BuildActiveReminders(t)
                     PROVE  row' = row
          OBVIOUS
        <4>1. CASE SkipReminders(t) \/ NoAnswer(t) \/ SkipRound(t) \/ RecordSuccess(t) \/ Finish(t)
          BY <4>1 DEF SkipReminders, NoAnswer, SkipRound, RecordSuccess, Finish, storeVars
        <4>2. CASE \E x \in Reminder : MarkRead(t, x) \/ MarkFails(t, x)
          BY <4>2 DEF MarkRead, MarkFails, storeVars
        <4> QED
          BY <4>1, <4>2 DEF Step
      <3> QED
        BY <2>2, <2>3, <2>5, <2>7, <3>1 DEF BuildActiveReminders
    <2>8. CASE \/ Serve \/ \E x \in Reminder, n \in 0..1 : Relimit(x, n)
               \/ \E x \in Reminder, d \in Draft : Change(x, d)
               \/ \E x \in Reminder, round \in Stamp : MarkByHandReads(x, round)
      BY <2>1, <2>3, <2>8 DEF Serve, Relimit, Change, MarkByHandReads, List
    <2>9. CASE \/ Restart \/ HalfDay \/ MarkByHandFails
               \/ \E t \in Turn, s \in Session, kind \in {"user", "continuation", "probe"} :
                     HandleChat(t, s, kind)
      BY <2>2, <2>9 DEF Restart, HalfDay, HandleChat, MarkByHandFails, HandFails, Tick, storeVars
    <2> QED
      BY <2>6, <2>7, <2>8, <2>9 DEF Next
  <1> QED
    BY <1>1, SpecIInv, PTL DEF Spec, OnceIsOnce
=============================================================================

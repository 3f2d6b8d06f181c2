---------------------------- MODULE VaultCacheProofs ----------------------------
(***************************************************************************)
(* Proofs about VaultCache for any number of files, handlers, texts and    *)
(* writes: types, that external edits are noticed where nothing touches,   *)
(* that managed texts and activations are visible where nobody edits       *)
(* outside, and that noticed edits are queued for embedding until the      *)
(* store updates or touches a memory.                                      *)
(***************************************************************************)
EXTENDS VaultCache, TLAPS

-----------------------------------------------------------------------------
(* Types *)

\* A touch has room for one more activation.
TouchRoom == \A c \in Client : wr[c].kind = "touch" => wr[c].base.act < MaxAct

Typed == TypeOK /\ TouchRoom

LEMMA NoRowsType == NoRow \in Row /\ NoRows \in Rows
  <1>1. NoRow \in Row
    BY BoundAssumption DEF NoRow, Row, Content
  <1> QED
    BY <1>1 DEF NoRows, Rows

LEMMA RestType == NoCache \in Cached /\ NoPrev \in Prev /\ NoReader \in Listing /\ NoWriter \in Writer
  BY NoRowsType DEF NoCache, Cached, NoPrev, Prev, NoReader, Listing, NoWriter, Writer, Content

LEMMA TextsType ==
    ASSUME NEW rows \in Rows
    PROVE  Texts(rows) \in [File -> Content]
  BY DEF Texts, Rows, Row

\* Two writers of one file do not meet: replacing one keeps them apart.
LEMMA WriterType ==
    ASSUME Typed, NEW c \in Client, NEW w \in Writer, wr' = [wr EXCEPT ![c] = w],
           w.pc = "idle" \/ w.f \in File,
           w.f # Gone => \A d \in Client : d # c => wr[d].f # w.f,
           w.kind = "touch" => w.base.act < MaxAct
    PROVE  /\ wr' \in [Client -> Writer]
           /\ \A d \in Client : wr'[d].pc = "idle" \/ wr'[d].f \in File
           /\ \A d, e \in Client : d # e /\ wr'[d].f # Gone => wr'[d].f # wr'[e].f
           /\ TouchRoom'
  <1>1. wr' \in [Client -> Writer] /\ wr \in [Client -> Writer]
    BY DEF Typed, TypeOK
  <1>2. wr'[c] = w /\ \A d \in Client : d # c => wr'[d] = wr[d]
    BY <1>1
  <1>3. \A d \in Client : wr'[d].pc = "idle" \/ wr'[d].f \in File
    BY <1>2 DEF Typed, TypeOK
  <1>4. \A d, e \in Client : d # e /\ wr'[d].f # Gone => wr'[d].f # wr'[e].f
    BY <1>2 DEF Typed, TypeOK
  <1>5. TouchRoom'
    BY <1>2 DEF Typed, TouchRoom
  <1> QED
    BY <1>1, <1>3, <1>4, <1>5

LEMMA WriterGone ==
    ASSUME Typed, NEW c \in Client, wr' = [wr EXCEPT ![c] = NoWriter]
    PROVE  /\ wr' \in [Client -> Writer]
           /\ \A d \in Client : wr'[d].pc = "idle" \/ wr'[d].f \in File
           /\ \A d, e \in Client : d # e /\ wr'[d].f # Gone => wr'[d].f # wr'[e].f
           /\ TouchRoom'
  <1>1. NoWriter.pc = "idle" /\ NoWriter.f = Gone /\ NoWriter.kind # "touch"
    BY DEF NoWriter
  <1> HIDE DEF NoWriter
  <1> QED
    BY <1>1, RestType, WriterType

LEMMA WriterMoves ==
    ASSUME Typed, NEW c \in Client, NEW pc \in {"loaded", "written", "bumped"},
           wr[c].pc # "idle", wr' = [wr EXCEPT ![c].pc = pc]
    PROVE  /\ wr' \in [Client -> Writer]
           /\ \A d \in Client : wr'[d].pc = "idle" \/ wr'[d].f \in File
           /\ \A d, e \in Client : d # e /\ wr'[d].f # Gone => wr'[d].f # wr'[e].f
           /\ TouchRoom'
  <1> DEFINE w == [wr[c] EXCEPT !.pc = pc]
  <1>1. wr[c] \in Writer /\ wr[c].f \in File
    BY DEF Typed, TypeOK
  <1>2. w \in Writer /\ w.f = wr[c].f /\ w.kind = wr[c].kind /\ w.base = wr[c].base
    BY <1>1 DEF Writer
  <1>3. wr' = [wr EXCEPT ![c] = w]
    BY DEF Typed, TypeOK
  <1>4. w.f \in File /\ (w.kind = "touch" => w.base.act < MaxAct)
    BY <1>1, <1>2 DEF Typed, TouchRoom
  <1>5. \A d \in Client : d # c => wr[d].f # w.f
    BY <1>1, <1>2, GoneAssumption DEF Typed, TypeOK
  <1> HIDE DEF w
  <1> QED
    BY <1>2, <1>3, <1>4, <1>5, WriterType

\* The row that a write leaves.
NewRow(c) ==
    IF wr[c].text = Gone THEN NoRow
    ELSE [wr[c].base EXCEPT !.text = wr[c].text,
                            !.act = IF wr[c].kind = "touch" THEN wr[c].base.act + 1
                                    ELSE wr[c].base.act]

LEMMA NewActType ==
    ASSUME Typed, NEW c \in Client
    PROVE  /\ (IF wr[c].kind = "touch" THEN wr[c].base.act + 1 ELSE wr[c].base.act) \in 0..MaxAct
           /\ NewRow(c) \in Row
  <1>1. wr[c] \in Writer
    BY DEF Typed, TypeOK
  <1>2. wr[c].text \in Content /\ wr[c].base \in Row
    BY <1>1 DEF Writer
  <1>3. wr[c].base.act \in 0..MaxAct
    BY <1>2 DEF Row
  <1>4. wr[c].kind = "touch" => wr[c].base.act < MaxAct
    BY DEF Typed, TouchRoom
  <1> DEFINE act == IF wr[c].kind = "touch" THEN wr[c].base.act + 1 ELSE wr[c].base.act
  <1>5. act \in 0..MaxAct
    BY <1>3, <1>4, BoundAssumption
  <1>6. [wr[c].base EXCEPT !.text = wr[c].text, !.act = act] \in Row
    <2> HIDE DEF act
    <2> QED
      BY <1>2, <1>5 DEF Row
  <1> QED
    BY <1>5, <1>6, NoRowsType DEF NewRow

\* The row that a write of links leaves: text and activations are those read.
LinkRow(c) == [wr[c].base EXCEPT !.link = 1 - @]

LEMMA LinkRowType ==
    ASSUME Typed, NEW c \in Client
    PROVE  LinkRow(c) \in Row /\ LinkRow(c).text = wr[c].base.text /\ LinkRow(c).act = wr[c].base.act
  <1>1. wr[c].base \in Row
    BY DEF Typed, TypeOK, Writer
  <1>2. wr[c].base.link \in 0..1
    BY <1>1 DEF Row
  <1>3. 1 - wr[c].base.link \in 0..1
    BY <1>2
  <1> QED
    BY <1>1, <1>3 DEF LinkRow, Row

LEMMA WrittenType ==
    ASSUME Typed, NEW f \in File, NEW row \in Row, Written(f, row)
    PROVE  disk' \in Rows /\ cache' \in Cached /\ moved' \in SUBSET File
  <1>1. disk' \in Rows
    BY DEF Typed, TypeOK, Written, Rows
  <1>2. cache' \in Cached
    <2>1. [cache EXCEPT !.changed = @ \cup {f}] \in Cached
      BY DEF Typed, TypeOK, Cached
    <2> QED
      BY <2>1 DEF Typed, TypeOK, Written
  <1>3. moved' \in SUBSET File
    BY DEF Typed, TypeOK, Written
  <1> QED
    BY <1>1, <1>2, <1>3

LEMMA PatchedType ==
    ASSUME Typed, NEW c \in Client, wr[c].pc # "idle"
    PROVE  Patched(c) \in Cached
  <1> DEFINE f == wr[c].f
             act == IF wr[c].kind = "touch" THEN wr[c].base.act + 1 ELSE wr[c].base.act
             row == IF cache.rows[f].text = Gone THEN cache.rows[f]
                    ELSE [cache.rows[f] EXCEPT !.act = act]
             new == [cache EXCEPT !.rows[f] = row, !.changed = @ \ {f}]
  <1>1. f \in File /\ cache \in Cached
    BY DEF Typed, TypeOK
  <1>2. cache.rows \in Rows /\ cache.rows[f] \in Row
    BY <1>1 DEF Cached, Rows
  <1>3. act \in 0..MaxAct
    BY NewActType
  <1>4. row \in Row
    <2> HIDE DEF act
    <2> QED
      BY <1>2, <1>3 DEF Row
  <1>5. [cache.rows EXCEPT ![f] = row] \in Rows
    <2> HIDE DEF row
    <2> QED
      BY <1>1, <1>2, <1>4 DEF Rows
  <1>6. new \in Cached
    <2> HIDE DEF row
    <2> QED
      BY <1>1, <1>5 DEF Cached
  <1>7. Patched(c) = new
    BY DEF Patched
  <1> QED
    BY <1>6, <1>7

LEMMA ReturnType ==
    ASSUME Typed, NEW rows \in Rows, Return(rows)
    PROVE  rd' \in Listing /\ moved' \in SUBSET File /\ bm' \in Index
  <1>1. Texts(rows) \in [File -> Content]
    BY TextsType
  <1>2. [bm EXCEPT !.search = TRUE, !.found = Texts(rows)] \in Index
    BY <1>1 DEF Typed, TypeOK, Index
  <1> QED
    BY <1>2, RestType DEF Return, Typed, TypeOK

\* The steps of list_all, which leave files and writers alone.
LEMMA ReaderType ==
    ASSUME Typed, Reader, cache' \in Cached, due' \in BOOLEAN, rd' \in Listing,
           moved' \in SUBSET File, bumped' \in BOOLEAN, told' \in [File -> Content], bm' \in Index
    PROVE  Typed'
  BY DEF Typed, TypeOK, TouchRoom, Reader, Rows, Row

LEMMA LookType == ASSUME Typed, Look PROVE Typed'
  <1>1. cache.rows \in Rows
    BY DEF Typed, TypeOK, Cached
  <1>2. CASE cache.on /\ ~due
    <2>1. Return(cache.rows) /\ UNCHANGED bumped
      BY <1>2 DEF Look
    <2>2. rd' \in Listing /\ moved' \in SUBSET File /\ bm' \in Index
      BY <1>1, <2>1, ReturnType
    <2> QED
      BY <2>1, <2>2, ReaderType DEF Look, Typed, TypeOK
  <1>3. CASE ~(cache.on /\ ~due)
    <2>1. moved' = moved /\ bumped' = FALSE /\ bm' = bm
      BY <1>3 DEF Look
    <2>2. rd' \in Listing
      <3>1. rd \in Listing
        BY DEF Typed, TypeOK
      <3>2. CASE cache.on
        <4>1. rd' = [rd EXCEPT !.pc = "poll", !.left = File, !.differs = FALSE]
          BY <1>3, <3>2 DEF Look
        <4> QED
          BY <3>1, <4>1 DEF Listing
      <3>3. CASE ~cache.on
        <4>1. rd' = [rd EXCEPT !.pc = "capture"]
          BY <1>3, <3>3 DEF Look
        <4> QED
          BY <3>1, <4>1 DEF Listing
      <3> QED
        BY <3>2, <3>3
    <2> QED
      BY <2>1, <2>2, ReaderType DEF Look, Typed, TypeOK
  <1> QED
    BY <1>2, <1>3

LEMMA PollDoneType == ASSUME Typed, PollDone PROVE Typed'
  <1>1. cache.rows \in Rows /\ rd \in Listing
    BY DEF Typed, TypeOK, Cached
  <1>2. CASE bumped
    <2>1. rd' \in Listing
      BY <1>1, <1>2, RestType DEF PollDone, Listing
    <2> QED
      BY <1>2, <2>1, ReaderType DEF PollDone, Typed, TypeOK
  <1>3. CASE ~bumped /\ ~rd.differs
    <2>1. Return(cache.rows)
      BY <1>3 DEF PollDone
    <2>2. rd' \in Listing /\ moved' \in SUBSET File /\ bm' \in Index
      BY <1>1, <2>1, ReturnType
    <2> QED
      BY <1>3, <2>2, ReaderType DEF PollDone, Typed, TypeOK
  <1>4. CASE ~bumped /\ rd.differs
    <2>1. [on |-> TRUE, rows |-> cache.rows] \in Prev
      BY <1>1 DEF Prev
    <2>2. rd' \in Listing
      BY <1>1, <1>4, <2>1 DEF PollDone, Listing
    <2>3. bm' \in Index
      BY <1>4 DEF PollDone, Typed, TypeOK, Index
    <2> QED
      BY <1>4, <2>2, <2>3, RestType, ReaderType DEF PollDone, Typed, TypeOK
  <1> QED
    BY <1>2, <1>3, <1>4

LEMMA PassType ==
    ASSUME Typed, NEW f \in File,
           PollFile(f) \/ ScanBefore(f) \/ Parse(f) \/ ScanAfter(f)
    PROVE  Typed'
  <1>1. rd \in Listing /\ disk[f] \in Row /\ rd.rows \in Rows
    BY DEF Typed, TypeOK, Listing, Rows
  <1>2. rd.pc \in {"idle", "top", "poll", "capture", "before", "parse", "after", "publish", "reconcile"}
        /\ rd.left \in SUBSET File /\ rd.differs \in BOOLEAN
    BY <1>1 DEF Listing
  <1>3. /\ UNCHANGED <<cache, due, told, bm>>
        /\ Reader
    BY DEF PollFile, ScanBefore, Parse, ScanAfter, Pass
  <1>4. CASE PollFile(f)
    <2>1. rd' \in Listing
      BY <1>1, <1>2, <1>4 DEF PollFile, Listing
    <2> QED
      BY <1>3, <1>4, <2>1, ReaderType DEF PollFile, Typed, TypeOK
  <1>5. CASE ScanBefore(f)
    <2>1. rd' \in Listing
      BY <1>1, <1>2, <1>5 DEF ScanBefore, Listing
    <2> QED
      BY <1>3, <1>5, <2>1, ReaderType DEF ScanBefore, Pass, Typed, TypeOK
  <1>6. CASE Parse(f)
    <2> DEFINE rows == [rd.rows EXCEPT ![f] = disk[f]]
               parsed == [rd EXCEPT !.rows[f] = disk[f]]
    <2>1. rows \in Rows
      BY <1>1 DEF Rows
    <2>2. parsed \in Listing /\ parsed.left = rd.left
      <3>1. parsed = [rd EXCEPT !.rows = rows]
        BY <1>1 DEF Listing
      <3> HIDE DEF rows, parsed
      <3> QED
        BY <1>1, <2>1, <3>1 DEF Listing
    <2>3. rd' = IF rd.left = {f} THEN [parsed EXCEPT !.pc = "after", !.left = File]
                ELSE [parsed EXCEPT !.left = @ \ {f}]
      BY <1>6 DEF Parse
    <2>4. rd' \in Listing
      <3> HIDE DEF parsed
      <3> QED
        BY <1>2, <2>2, <2>3 DEF Listing
    <2> QED
      BY <1>3, <1>6, <2>4, ReaderType DEF Parse, Pass, Typed, TypeOK
  <1>7. CASE ScanAfter(f)
    <2>1. rd' \in Listing
      BY <1>1, <1>2, <1>7 DEF ScanAfter, Listing
    <2> QED
      BY <1>3, <1>7, <2>1, ReaderType DEF ScanAfter, Pass, Typed, TypeOK
  <1> QED
    BY <1>4, <1>5, <1>6, <1>7

LEMMA CaptureType == ASSUME Typed, Capture PROVE Typed'
  <1>1. rd' \in Listing
    BY DEF Capture, Typed, TypeOK, Listing
  <1> QED
    BY <1>1, ReaderType DEF Capture, Typed, TypeOK

LEMMA PublishType == ASSUME Typed, Publish PROVE Typed'
  <1>1. rd \in Listing /\ rd.rows \in Rows
    BY DEF Typed, TypeOK, Listing
  <1>2. CASE bumped
    <2>1. rd' \in Listing
      BY <1>1, <1>2, RestType DEF Publish, Listing
    <2> QED
      BY <1>2, <2>1, ReaderType DEF Publish, Typed, TypeOK
  <1>3. CASE ~bumped
    <2>1. cache' \in Cached
      <3>1. cache' = [on |-> TRUE, rows |-> rd.rows, changed |-> moved]
        BY <1>3 DEF Publish
      <3>2. moved \in SUBSET File
        BY DEF Typed, TypeOK
      <3> QED
        BY <1>1, <3>1, <3>2 DEF Cached
    <2>2. CASE rd.prev.on
      <3>1. rd' \in Listing
        BY <1>1, <1>3, <2>2 DEF Publish, Listing
      <3> QED
        BY <1>3, <2>1, <2>2, <3>1, ReaderType DEF Publish, Typed, TypeOK
    <2>3. CASE ~rd.prev.on
      <3>1. Return(rd.rows)
        BY <1>3, <2>3 DEF Publish
      <3>2. rd' \in Listing /\ moved' \in SUBSET File /\ bm' \in Index
        BY <1>1, <3>1, ReturnType
      <3> QED
        BY <1>3, <2>1, <3>2, ReaderType DEF Publish, Typed, TypeOK
    <2> QED
      BY <2>2, <2>3
  <1> QED
    BY <1>2, <1>3

LEMMA ReconcileType == ASSUME Typed, Reconcile PROVE Typed'
  <1>1. rd \in Listing /\ rd.rows \in Rows
    BY DEF Typed, TypeOK, Listing
  <1>2. told' \in [File -> Content]
    BY <1>1 DEF Reconcile, Typed, TypeOK, Rows, Row
  <1>3. rd' \in Listing /\ moved' \in SUBSET File /\ bm' \in Index
    BY <1>1, ReturnType DEF Reconcile
  <1> QED
    BY <1>2, <1>3, ReaderType DEF Reconcile, Typed, TypeOK

LEMMA LoadType ==
    ASSUME Typed, NEW c \in Client, NEW f \in File, NEW kind \in {"update", "touch", "link"},
           NEW text \in Content, Load(c, f, kind, text),
           kind = "touch" => disk[f].act < MaxAct
    PROVE  Typed'
  <1> DEFINE w == [pc |-> "loaded", f |-> f, kind |-> kind, text |-> text, base |-> disk[f]]
  <1>1. disk[f] \in Row
    BY DEF Typed, TypeOK, Rows
  <1>2. w \in Writer /\ w.pc = "loaded" /\ w.f = f /\ w.kind = kind /\ w.base = disk[f]
    BY <1>1 DEF Writer
  <1>3. wr' = [wr EXCEPT ![c] = w] /\ \A d \in Client : wr[d].f # f
    BY DEF Load
  <1>4. /\ wr' \in [Client -> Writer]
        /\ \A d \in Client : wr'[d].pc = "idle" \/ wr'[d].f \in File
        /\ \A d, e \in Client : d # e /\ wr'[d].f # Gone => wr'[d].f # wr'[e].f
        /\ TouchRoom'
    <2> HIDE DEF w
    <2> QED
      BY <1>2, <1>3, WriterType
  <1>5. writes' \in 0..MaxWrites
    BY BoundAssumption DEF Load, Typed, TypeOK
  <1> HIDE DEF w
  <1> QED
    BY <1>4, <1>5 DEF Load, Typed, TypeOK, Rows, Row

LEMMA LoadUpdateType ==
    ASSUME Typed, NEW c \in Client, NEW f \in File, NEW text \in Content, LoadUpdate(c, f, text)
    PROVE  Typed'
  <1>1. Load(c, f, "update", text)
    BY DEF LoadUpdate
  <1> QED
    BY <1>1, LoadType

LEMMA LoadTouchType ==
    ASSUME Typed, NEW c \in Client, NEW f \in File, LoadTouch(c, f)
    PROVE  Typed'
  <1>1. Load(c, f, "touch", disk[f].text) /\ disk[f].act < MaxAct
    BY DEF LoadTouch
  <1>2. disk[f].text \in Content
    BY DEF Typed, TypeOK, Rows, Row
  <1> QED
    BY <1>1, <1>2, LoadType

LEMMA LoadLinkType ==
    ASSUME Typed, NEW c \in Client, NEW f \in File, LoadLink(c, f)
    PROVE  Typed'
  <1>1. Load(c, f, "link", disk[f].text)
    BY DEF LoadLink
  <1>2. disk[f].text \in Content
    BY DEF Typed, TypeOK, Rows, Row
  <1> QED
    BY <1>1, <1>2, LoadType

LEMMA EditType ==
    ASSUME Typed, NEW f \in File, NEW text \in Content, Edit(f, text)
    PROVE  Typed'
  <1> DEFINE row == IF text = Gone THEN NoRow ELSE [disk[f] EXCEPT !.text = text]
  <1>1. disk[f] \in Row
    BY DEF Typed, TypeOK, Rows
  <1>2. row \in Row
    BY <1>1, NoRowsType DEF Row
  <1>3. Written(f, row)
    BY DEF Edit
  <1>4. disk' \in Rows /\ cache' \in Cached /\ moved' \in SUBSET File
    <2> HIDE DEF row
    <2> QED
      BY <1>2, <1>3, WrittenType
  <1>5. writes' \in 0..MaxWrites
    BY BoundAssumption DEF Edit, Typed, TypeOK
  <1>6. edited' \in SUBSET File /\ UNCHANGED <<due, rd, bumped, wr, told, bm, managed>>
    BY DEF Edit, Typed, TypeOK
  <1> QED
    BY <1>4, <1>5, <1>6 DEF Typed, TypeOK, TouchRoom

LEMMA WriterStepType ==
    ASSUME Typed, NEW c \in Client, WriterStep(c)
    PROVE  Typed'
  <1> DEFINE Apart == /\ wr' \in [Client -> Writer]
                      /\ \A d \in Client : wr'[d].pc = "idle" \/ wr'[d].f \in File
                      /\ \A d, e \in Client : d # e /\ wr'[d].f # Gone => wr'[d].f # wr'[e].f
                      /\ TouchRoom'
  <1>1. wr[c] \in Writer
    BY DEF Typed, TypeOK
  <1>2. CASE Write(c)
    <2>1. wr[c].f \in File /\ wr[c].pc # "idle" /\ wr[c].text \in Content
      BY <1>1, <1>2 DEF Write, Typed, TypeOK, Writer
    <2>2. Written(wr[c].f, NewRow(c)) /\ NewRow(c) \in Row
      BY <1>2, NewActType DEF Write, NewRow
    <2>3. disk' \in Rows /\ cache' \in Cached /\ moved' \in SUBSET File
      BY <2>1, <2>2, WrittenType
    <2>4. Apart
      BY <1>2, <2>1, WriterMoves DEF Write
    <2>5. told' \in [File -> Content] /\ edited' \in SUBSET File
      BY <1>2, <2>1 DEF Write, Typed, TypeOK
    <2> QED
      BY <1>2, <2>3, <2>4, <2>5 DEF Write, Typed, TypeOK
  <1>3. CASE GiveUp(c)
    <2>1. Apart
      BY <1>3, WriterGone DEF GiveUp
    <2> QED
      BY <1>3, <2>1 DEF GiveUp, Typed, TypeOK, Rows, Row
  <1>4. CASE Bump(c)
    <2>1. wr[c].pc # "idle"
      BY <1>4 DEF Bump
    <2>2. cache' \in Cached
      BY <1>4, <2>1, PatchedType DEF Bump, Typed, TypeOK
    <2>3. CASE wr[c].kind = "touch"
      <3>1. Apart
        BY <1>4, <2>3, WriterGone DEF Bump
      <3> QED
        BY <1>4, <2>2, <3>1 DEF Bump, Typed, TypeOK, Rows, Row
    <2>4. CASE wr[c].kind # "touch"
      <3>1. wr' = [wr EXCEPT ![c].pc = "bumped"]
        BY <1>4, <2>4 DEF Bump
      <3>2. Apart
        BY <2>1, <3>1, WriterMoves
      <3> QED
        BY <1>4, <2>2, <3>2 DEF Bump, Typed, TypeOK, Rows, Row
    <2> QED
      BY <2>3, <2>4
  <1>5. CASE Invalidate(c)
    <2>1. Apart
      BY <1>5, WriterGone DEF Invalidate
    <2>2. bm' \in Index
      BY <1>5 DEF Invalidate, Typed, TypeOK, Index
    <2> QED
      BY <1>5, <2>1, <2>2, RestType DEF Invalidate, Typed, TypeOK, Rows, Row
  <1>6. CASE WriteLink(c)
    <2>1. wr[c].f \in File
      BY <1>6 DEF WriteLink, Typed, TypeOK
    <2>2. Written(wr[c].f, LinkRow(c)) /\ LinkRow(c) \in Row
      BY <1>6, LinkRowType DEF WriteLink, LinkRow
    <2>3. disk' \in Rows /\ cache' \in Cached /\ moved' \in SUBSET File
      BY <2>1, <2>2, WrittenType
    <2>4. Apart
      BY <1>6, WriterGone DEF WriteLink
    <2> QED
      BY <1>6, <2>3, <2>4 DEF WriteLink, Typed, TypeOK
  <1> QED
    BY <1>2, <1>3, <1>4, <1>5, <1>6 DEF WriterStep

LEMMA IndexType ==
    ASSUME Typed, PollDue \/ SearchContinues \/ RebuildDone \/ RebuildFails
    PROVE  Typed'
  <1>1. bm \in Index
    BY DEF Typed, TypeOK
  <1>2. CASE PollDue
    BY <1>2 DEF PollDue, Typed, TypeOK, TouchRoom
  <1>3. CASE SearchContinues \/ RebuildDone \/ RebuildFails
    <2>1. bm' \in Index
      BY <1>1, <1>3 DEF SearchContinues, RebuildDone, RebuildFails, BM25Step, Index
    <2>2. UNCHANGED <<disk, cache, due, rd, moved, bumped, wr, told, writes, edited, managed>>
      BY <1>3 DEF SearchContinues, RebuildDone, RebuildFails, BM25Step
    <2> QED
      BY <2>1, <2>2 DEF Typed, TypeOK, TouchRoom
  <1> QED
    BY <1>2, <1>3

LEMMA ReaderStepType == ASSUME Typed, ReaderStep PROVE Typed'
  BY LookType, PollDoneType, CaptureType, PublishType, ReconcileType, PassType DEF ReaderStep

LEMMA NextType == Typed /\ [Next]_vars => Typed'
  <1> SUFFICES ASSUME Typed, [Next]_vars PROVE Typed'
    OBVIOUS
  <1>1. CASE \E f \in File, text \in Content : Edit(f, text)
    BY <1>1, EditType
  <1>2. CASE \E c \in Client : \/ \E f \in File : LoadTouch(c, f) \/ LoadLink(c, f)
                               \/ \E f \in File, text \in Content : LoadUpdate(c, f, text)
                               \/ WriterStep(c)
    BY <1>2, LoadTouchType, LoadLinkType, LoadUpdateType, WriterStepType
  <1>3. CASE ReaderStep
    BY <1>3, ReaderStepType
  <1>4. CASE PollDue \/ SearchContinues \/ RebuildDone \/ RebuildFails
    BY <1>4, IndexType
  <1>5. CASE UNCHANGED vars
    BY <1>5 DEF vars, Typed, TypeOK, TouchRoom
  <1> QED
    BY <1>1, <1>2, <1>3, <1>4, <1>5 DEF Next

LEMMA InitType == Init => Typed
  <1> SUFFICES ASSUME Init PROVE Typed
    OBVIOUS
  <1>1. disk \in Rows
    BY NoRowsType, BoundAssumption DEF Init, Rows, Row, Content
  <1>2. cache \in Cached
    BY <1>1 DEF Init, Cached
  <1>3. \A c \in Client : wr[c] = NoWriter
    BY DEF Init
  <1>4. \A c \in Client : wr[c].pc = "idle" /\ wr[c].f = Gone /\ wr[c].kind = "none"
    BY <1>3 DEF NoWriter
  <1>5. told \in [File -> Content]
    BY <1>1, TextsType DEF Init
  <1>6. bm \in Index
    BY DEF Init, Index, Content
  <1>7. wr \in [Client -> Writer]
    BY RestType DEF Init
  <1>8. rd \in Listing
    BY RestType DEF Init
  <1>9. writes \in 0..MaxWrites
    BY BoundAssumption DEF Init
  <1> QED
    BY <1>1, <1>2, <1>4, <1>5, <1>6, <1>7, <1>8, <1>9 DEF Init, Typed, TypeOK, TouchRoom

\* Whatever operations are called, every variable keeps its type, and two
\* writers never work on one file.
THEOREM VaultTypeCorrect == Spec => []TypeOK
  <1>1. Spec => []Typed
    BY InitType, NextType, PTL DEF Spec
  <1>2. Typed => TypeOK
    BY DEF Typed
  <1> QED
    BY <1>1, <1>2, PTL

-----------------------------------------------------------------------------
(* External edits are noticed.  What a build has parsed either is still in *)
(* the file or has moved the fingerprint, and a build whose two scans      *)
(* differ is not published.  Touches are excluded: they take over          *)
(* fingerprints without reading the text again.                            *)

Parsed(f) == \/ rd.pc = "parse" /\ f \notin rd.left
             \/ rd.pc \in {"after", "publish"}

BuildTruthful ==
    /\ \A f \in File : Parsed(f) => rd.differs \/ f \in moved \/ rd.rows[f] = disk[f]
    /\ rd.pc = "publish" => ~rd.differs

NoTouching == \A c \in Client : wr[c].kind # "touch"

Watched == Typed /\ BuildTruthful /\ CacheTruthful
NoticeInv == Watched /\ NoTouching

\* A write of a file is seen by a build under way and by the next poll.
LEMMA WrittenNoticed ==
    ASSUME Watched, NEW f \in File, NEW row, Written(f, row), rd' = rd,
           \A g \in File : InFlight(g) => InFlight(g)'
    PROVE  BuildTruthful' /\ CacheTruthful'
  <1>1. disk' = [disk EXCEPT ![f] = row] /\ disk \in Rows
    BY DEF Written, Watched, Typed, TypeOK
  <1>2. \A g \in File : g # f => disk'[g] = disk[g]
    BY <1>1 DEF Rows
  <1>3. rd.pc # "idle" => moved' = moved \cup {f}
    BY DEF Written
  <1>4. BuildTruthful'
    BY <1>2, <1>3 DEF Watched, BuildTruthful, Parsed
  <1>5. cache \in Cached /\ cache'.on = cache.on /\ cache'.rows = cache.rows
        /\ (cache.on => cache'.changed = cache.changed \cup {f})
    BY DEF Watched, Typed, TypeOK, Cached, Written
  <1>6. CacheTruthful'
    BY <1>2, <1>5 DEF Watched, CacheTruthful
  <1> QED
    BY <1>4, <1>6

\* Steps that change neither files nor what is cached or built.
LEMMA NothingNoticed ==
    ASSUME Watched, UNCHANGED <<disk, cache, rd, moved>>,
           \A g \in File : InFlight(g) => InFlight(g)'
    PROVE  BuildTruthful' /\ CacheTruthful'
  BY DEF Watched, BuildTruthful, CacheTruthful, Parsed

LEMMA LoadKeepsNotice ==
    ASSUME NoticeInv, "touch" \notin Ops, NEW c \in Client, NEW f \in File,
           NEW kind, NEW text, Load(c, f, kind, text)
    PROVE  NoTouching' /\ BuildTruthful' /\ CacheTruthful'
  <1>1. wr \in [Client -> Writer] /\ wr[c].pc = "idle" /\ kind # "touch"
    BY DEF Load, NoticeInv, Watched, Typed, TypeOK
  <1>2. \A d \in Client : d # c => wr'[d] = wr[d]
    BY <1>1 DEF Load
  <1>3. wr'[c].kind = kind
    BY <1>1 DEF Load
  <1>4. NoTouching'
    BY <1>1, <1>2, <1>3 DEF NoTouching, NoticeInv, Watched
  <1>5. \A g \in File : InFlight(g) => InFlight(g)'
    BY <1>1, <1>2 DEF InFlight
  <1> QED
    BY <1>4, <1>5, NothingNoticed DEF Load, NoticeInv

LEMMA WriterKeepsNotice ==
    ASSUME NoticeInv, NEW c \in Client, WriterStep(c)
    PROVE  NoTouching' /\ BuildTruthful' /\ CacheTruthful'
  <1>1. wr \in [Client -> Writer] /\ wr[c] \in Writer /\ wr[c].kind # "touch"
    BY DEF NoticeInv, Watched, Typed, TypeOK, NoTouching
  <1>2. CASE Write(c)
    <2>1. wr' = [wr EXCEPT ![c].pc = "written"] /\ wr[c].pc = "loaded" /\ rd' = rd
      BY <1>2 DEF Write
    <2>2. /\ \A d \in Client : d # c => wr'[d] = wr[d]
          /\ wr'[c].kind = wr[c].kind /\ wr'[c].f = wr[c].f
      BY <1>1, <2>1 DEF Writer
    <2>3. \A g \in File : InFlight(g) => InFlight(g)'
      BY <2>1, <2>2 DEF InFlight
    <2>4. Written(wr[c].f, NewRow(c)) /\ wr[c].f \in File
      BY <1>2, <2>1 DEF Write, NewRow, NoticeInv, Watched, Typed, TypeOK
    <2>5. NoTouching'
      BY <1>1, <2>2 DEF NoTouching, NoticeInv, Watched
    <2> QED
      BY <2>1, <2>3, <2>4, <2>5, WrittenNoticed DEF NoticeInv
  <1>3. CASE GiveUp(c)
    <2>1. /\ \A d \in Client : d # c => wr'[d] = wr[d]
          /\ wr'[c] = NoWriter /\ wr[c].pc = "loaded"
      BY <1>1, <1>3 DEF GiveUp
    <2>2. \A g \in File : InFlight(g) => InFlight(g)'
      BY <2>1 DEF InFlight
    <2>3. NoTouching'
      BY <2>1 DEF NoTouching, NoticeInv, Watched, NoWriter
    <2> QED
      BY <1>3, <2>2, <2>3, NothingNoticed DEF GiveUp, NoticeInv
  <1>4. CASE Bump(c)
    <2>1. wr' = [wr EXCEPT ![c].pc = "bumped"] /\ UNCHANGED <<disk, rd, moved>>
      BY <1>1, <1>4 DEF Bump
    <2>2. /\ \A d \in Client : d # c => wr'[d] = wr[d]
          /\ wr'[c].kind = wr[c].kind /\ wr'[c].f = wr[c].f /\ wr'[c].pc = "bumped"
      BY <1>1, <2>1 DEF Writer
    <2>3. \A g \in File : InFlight(g) => InFlight(g)'
      BY <2>2 DEF InFlight
    <2>4. NoTouching'
      BY <1>1, <2>2 DEF NoTouching, NoticeInv, Watched
    <2>5. BuildTruthful'
      BY <2>1 DEF BuildTruthful, Parsed, NoticeInv, Watched
    <2>6. \A g \in File : g = wr[c].f => InFlight(g)'
      BY <2>2 DEF InFlight
    <2>7. cache \in Cached /\ cache.rows \in Rows
      BY DEF NoticeInv, Watched, Typed, TypeOK, Cached
    <2>8. /\ cache'.on <=> cache.on
          /\ \A g \in File : g # wr[c].f => cache'.rows[g] = cache.rows[g]
          /\ \A g \in File : g # wr[c].f => (g \in cache.changed => g \in cache'.changed)
      BY <1>4, <2>7 DEF Bump, Patched, Cached, Rows
    <2>10. disk' = disk
      BY <2>1
    <2>9. CacheTruthful'
      <3> SUFFICES ASSUME cache'.on, NEW g \in File, cache'.rows[g] # disk'[g]
                   PROVE  g \in cache'.changed \/ InFlight(g)'
        BY DEF CacheTruthful
      <3>1. CASE g = wr[c].f
        BY <2>6, <3>1
      <3>2. CASE g # wr[c].f
        <4>1. cache.on /\ cache.rows[g] # disk[g]
          BY <2>8, <2>10, <3>2
        <4>2. g \in cache.changed \/ InFlight(g)
          BY <4>1 DEF CacheTruthful, NoticeInv, Watched
        <4> QED
          BY <2>3, <2>8, <3>2, <4>2
      <3> QED
        BY <3>1, <3>2
    <2> QED
      BY <2>4, <2>5, <2>9
  <1>5. CASE Invalidate(c)
    <2>1. /\ \A d \in Client : d # c => wr'[d] = wr[d]
          /\ wr'[c] = NoWriter /\ cache' = NoCache
      BY <1>1, <1>5 DEF Invalidate
    <2>2. NoTouching'
      BY <2>1 DEF NoTouching, NoticeInv, Watched, NoWriter
    <2>3. CacheTruthful'
      BY <2>1 DEF CacheTruthful, NoCache
    <2>4. BuildTruthful'
      BY <1>5 DEF Invalidate, BuildTruthful, Parsed, NoticeInv, Watched
    <2> QED
      BY <2>2, <2>3, <2>4
  <1>6. CASE WriteLink(c)
    <2>1. /\ \A d \in Client : d # c => wr'[d] = wr[d]
          /\ wr'[c] = NoWriter /\ wr[c].pc = "loaded" /\ rd' = rd
      BY <1>1, <1>6 DEF WriteLink
    <2>2. \A g \in File : InFlight(g) => InFlight(g)'
      BY <2>1 DEF InFlight
    <2>3. Written(wr[c].f, LinkRow(c)) /\ wr[c].f \in File
      BY <1>6, <2>1 DEF WriteLink, LinkRow, NoticeInv, Watched, Typed, TypeOK
    <2>4. NoTouching'
      BY <2>1 DEF NoTouching, NoticeInv, Watched, NoWriter
    <2> QED
      BY <2>1, <2>2, <2>3, <2>4, WrittenNoticed DEF NoticeInv
  <1> QED
    BY <1>2, <1>3, <1>4, <1>5, <1>6 DEF WriterStep

LEMMA ReaderKeepsNotice ==
    ASSUME Watched, ReaderStep
    PROVE  BuildTruthful' /\ CacheTruthful'
  <1>1. Reader
    BY DEF ReaderStep, Look, PollFile, PollDone, Capture, ScanBefore, Parse, ScanAfter,
           Publish, Reconcile, Pass
  <1>2. disk' = disk /\ wr' = wr /\ (\A g \in File : InFlight(g)' = InFlight(g))
    BY <1>1 DEF Reader, InFlight
  <1>3. rd \in Listing /\ rd.rows \in Rows /\ cache \in Cached /\ rd.left \in SUBSET File
    BY DEF Watched, Typed, TypeOK, Listing
  <1>4. ASSUME cache' = cache \/ cache' = NoCache PROVE CacheTruthful'
    BY <1>2, <1>4 DEF CacheTruthful, Watched, NoCache
  <1>5. ASSUME rd'.pc \in {"idle", "top", "poll", "capture", "before", "reconcile"}
        PROVE  BuildTruthful'
    BY <1>5 DEF BuildTruthful, Parsed
  <1>6. CASE Look \/ PollDone \/ Reconcile \/ Capture \/ \E f \in File : PollFile(f)
    <2>1. cache' = cache \/ cache' = NoCache
      BY <1>6 DEF Look, PollDone, Reconcile, Capture, PollFile
    <2>2. rd'.pc \in {"idle", "top", "poll", "capture", "before"}
      <3>0. ASSUME NEW rows, Return(rows) PROVE rd'.pc = "idle"
        BY <3>0 DEF Return, NoReader
      <3>1. CASE Look
        <4>1. CASE cache.on /\ ~due
          BY <3>0, <3>1, <4>1 DEF Look
        <4>2. CASE ~(cache.on /\ ~due)
          BY <1>3, <3>1, <4>2 DEF Look, Listing
        <4> QED
          BY <4>1, <4>2
      <3>2. CASE PollDone
        <4>1. CASE bumped
          BY <1>3, <3>2, <4>1 DEF PollDone, Listing
        <4>2. CASE ~bumped /\ ~rd.differs
          BY <3>0, <3>2, <4>2 DEF PollDone
        <4>3. CASE ~bumped /\ rd.differs
          BY <1>3, <3>2, <4>3 DEF PollDone, Listing
        <4> QED
          BY <4>1, <4>2, <4>3
      <3>3. CASE Reconcile
        BY <3>3 DEF Reconcile, Return, NoReader
      <3>4. CASE Capture
        BY <1>3, <3>4 DEF Capture, Listing
      <3>5. CASE \E f \in File : PollFile(f)
        BY <1>3, <3>5 DEF PollFile, Listing
      <3> QED
        BY <1>6, <3>1, <3>2, <3>3, <3>4, <3>5
    <2> QED
      BY <1>2, <1>4, <1>5, <2>1, <2>2
  <1>7. ASSUME NEW f \in File, ScanBefore(f) PROVE BuildTruthful' /\ CacheTruthful'
    <2>1. cache' = cache
      BY <1>7 DEF ScanBefore, Pass
    <2>2. rd'.pc = "before" \/ (rd'.pc = "parse" /\ rd'.left = File)
      BY <1>3, <1>7 DEF ScanBefore, Pass, Listing
    <2> QED
      BY <1>4, <2>1, <2>2 DEF BuildTruthful, Parsed
  <1>8. ASSUME NEW f \in File, Parse(f) PROVE BuildTruthful' /\ CacheTruthful'
    <2>1. cache' = cache /\ moved' = moved /\ rd.pc = "parse" /\ f \in rd.left
      BY <1>8 DEF Parse, Pass
    <2>2. /\ rd'.rows = [rd.rows EXCEPT ![f] = disk[f]] /\ rd'.differs = rd.differs
          /\ \/ rd'.pc = "after" /\ rd.left = {f}
             \/ rd'.pc = "parse" /\ rd'.left = rd.left \ {f}
      BY <1>3, <1>8 DEF Parse, Pass, Listing
    <2>3. rd'.rows[f] = disk[f] /\ \A g \in File : g # f => rd'.rows[g] = rd.rows[g]
      BY <1>3, <2>2 DEF Rows
    <2>4. BuildTruthful'
      BY <1>2, <2>1, <2>2, <2>3 DEF BuildTruthful, Parsed, Watched
    <2> QED
      BY <1>4, <2>1, <2>4
  <1>9. ASSUME NEW f \in File, ScanAfter(f) PROVE BuildTruthful' /\ CacheTruthful'
    <2>1. cache' = cache /\ moved' = moved \ {f} /\ rd.pc = "after"
      BY <1>9 DEF ScanAfter, Pass
    <2>2. /\ rd'.rows = rd.rows /\ rd'.differs = (rd.differs \/ f \in moved)
          /\ rd'.pc \in {"after", "top", "publish"}
          /\ rd'.pc = "publish" => ~(rd.differs \/ f \in moved)
      BY <1>3, <1>9 DEF ScanAfter, Pass, Listing
    <2>3. BuildTruthful'
      BY <1>2, <2>1, <2>2 DEF BuildTruthful, Parsed, Watched
    <2> QED
      BY <1>4, <2>1, <2>3
  <1>10. CASE Publish
    <2>1. CASE bumped
      <3>1. cache' = cache /\ rd'.pc = "top"
        BY <1>3, <1>10, <2>1 DEF Publish, Listing
      <3> QED
        BY <1>2, <1>4, <1>5, <3>1
    <2>2. CASE ~bumped
      <3>1. cache' = [on |-> TRUE, rows |-> rd.rows, changed |-> moved] /\ rd.pc = "publish"
        BY <1>10, <2>2 DEF Publish
      <3>2. cache'.rows = rd.rows /\ cache'.changed = moved
        BY <3>1
      <3>3. CacheTruthful'
        BY <1>2, <3>1, <3>2 DEF CacheTruthful, BuildTruthful, Parsed, Watched
      <3>4. rd'.pc \in {"idle", "reconcile"}
        BY <1>3, <1>10, <2>2 DEF Publish, Return, NoReader, Listing
      <3> QED
        BY <1>2, <1>5, <3>3, <3>4
    <2> QED
      BY <2>1, <2>2
  <1> QED
    BY <1>2, <1>6, <1>7, <1>8, <1>9, <1>10 DEF ReaderStep

LEMMA NoticeStep ==
    ASSUME "touch" \notin Ops, NoticeInv, [Next]_vars
    PROVE  NoticeInv'
  <1>1. Typed'
    BY NextType DEF NoticeInv, Watched
  <1>2. ASSUME NEW f \in File, NEW text \in Content, Edit(f, text)
        PROVE  NoTouching' /\ BuildTruthful' /\ CacheTruthful'
    <2>1. PICK row : Written(f, row)
      BY <1>2 DEF Edit
    <2>2. rd' = rd /\ wr' = wr
      BY <1>2 DEF Edit
    <2>3. NoTouching' /\ \A g \in File : InFlight(g) => InFlight(g)'
      BY <2>2 DEF NoTouching, NoticeInv, Watched, InFlight
    <2> QED
      BY <2>1, <2>2, <2>3, WrittenNoticed DEF NoticeInv
  <1>3. ASSUME NEW c \in Client, NEW f \in File, LoadTouch(c, f)
        PROVE  NoTouching' /\ BuildTruthful' /\ CacheTruthful'
    BY <1>3, LoadKeepsNotice DEF LoadTouch
  <1>8. ASSUME NEW c \in Client, NEW f \in File, LoadLink(c, f)
        PROVE  NoTouching' /\ BuildTruthful' /\ CacheTruthful'
    <2>1. Load(c, f, "link", disk[f].text)
      BY <1>8 DEF LoadLink
    <2> QED
      BY <2>1, LoadKeepsNotice
  <1>4. ASSUME NEW c \in Client, NEW f \in File, NEW text \in Content, LoadUpdate(c, f, text)
        PROVE  NoTouching' /\ BuildTruthful' /\ CacheTruthful'
    BY <1>4, LoadKeepsNotice DEF LoadUpdate
  <1>5. ASSUME UNCHANGED <<disk, cache, rd, moved, wr>>
        PROVE  NoTouching' /\ BuildTruthful' /\ CacheTruthful'
    <2>1. NoTouching' /\ \A g \in File : InFlight(g) => InFlight(g)'
      BY <1>5 DEF NoTouching, NoticeInv, Watched, InFlight
    <2> QED
      BY <1>5, <2>1, NothingNoticed DEF NoticeInv
  <1>6. PollDue \/ SearchContinues \/ RebuildDone \/ RebuildFails \/ UNCHANGED vars
            => UNCHANGED <<disk, cache, rd, moved, wr>>
    BY DEF PollDue, SearchContinues, RebuildDone, RebuildFails, BM25Step, vars
  <1>7. CASE ReaderStep
    <2>1. wr' = wr
      BY <1>7 DEF ReaderStep, Look, PollFile, PollDone, Capture, ScanBefore, Parse, ScanAfter,
                  Publish, Reconcile, Pass, Reader
    <2>2. NoTouching'
      BY <2>1 DEF NoTouching, NoticeInv
    <2> QED
      BY <1>1, <1>7, <2>2, ReaderKeepsNotice DEF NoticeInv, Watched
  <1> QED
    BY <1>1, <1>2, <1>3, <1>4, <1>5, <1>6, <1>7, <1>8, WriterKeepsNotice DEF Next, NoticeInv, Watched

LEMMA InitNotice == Init => NoticeInv
  <1> SUFFICES ASSUME Init PROVE NoticeInv
    OBVIOUS
  <1>1. Typed
    BY InitType
  <1>2. NoTouching
    BY DEF Init, NoTouching, NoWriter
  <1>3. BuildTruthful
    BY DEF Init, BuildTruthful, Parsed, NoReader
  <1>4. CacheTruthful
    BY DEF Init, CacheTruthful
  <1> QED
    BY <1>1, <1>2, <1>3, <1>4 DEF NoticeInv, Watched

\* Where no activation is touched, rows that are not what the files hold are
\* noticed by the next poll or dropped by a writer that is about to finish.
THEOREM EditsNoticed ==
    ASSUME "touch" \notin Ops
    PROVE  Spec => []CacheTruthful
  <1>1. NoticeInv /\ [Next]_vars => NoticeInv'
    BY NoticeStep
  <1>2. NoticeInv => CacheTruthful
    BY DEF NoticeInv, Watched
  <1> QED
    BY <1>1, <1>2, InitNotice, PTL DEF Spec

-----------------------------------------------------------------------------
(* Managed writes are visible.  Without external edits a row may differ    *)
(* from its file, in its text or its activation count, only while a writer *)
(* is between its commit and the end of its cache update; if that writer   *)
(* touches, the row is the one it loaded, so that patching the activation  *)
(* count makes it right.  Writes of links change neither.                  *)

Same(row, other) == row.text = other.text /\ row.act = other.act

AgreeIn(row, d, w, f) ==
    \/ Same(row, d[f])
    \/ \E c \in Client : /\ w[c].f = f
                         /\ w[c].pc \in {"written", "bumped"}
                         /\ w[c].kind = "touch" => Same(row, w[c].base)

WriterKnows ==
    \A c \in Client :
        /\ wr[c].pc = "loaded" => wr[c].base = disk[wr[c].f]
        /\ wr[c].pc \in {"written", "bumped"} => disk[wr[c].f] = NewRow(c)
        /\ wr[c].kind = "touch" =>
             /\ wr[c].text = wr[c].base.text
             /\ wr[c].text # Gone

CacheAgrees == cache.on => \A f \in File : AgreeIn(cache.rows[f], disk, wr, f)

BuildAgrees ==
    \A f \in File : Parsed(f) => bumped \/ AgreeIn(rd.rows[f], disk, wr, f)

VisibleInv == Typed /\ WriterKnows /\ CacheAgrees /\ BuildAgrees

\* Files whose content and writers stay as they are keep agreeing.
LEMMA AgreeFrame ==
    ASSUME NEW row, NEW d, NEW w, NEW e, NEW v, NEW f,
           Same(d[f], e[f]),
           \A c \in Client : w[c].f = f /\ w[c].pc \in {"written", "bumped"} => v[c] = w[c],
           AgreeIn(row, d, w, f)
    PROVE  AgreeIn(row, e, v, f)
  BY DEF AgreeIn, Same

LEMMA LoadKeepsVisible ==
    ASSUME VisibleInv, NEW c \in Client, NEW f \in File, NEW kind, NEW text,
           Load(c, f, kind, text),
           kind = "touch" => text = disk[f].text /\ text # Gone
    PROVE  WriterKnows' /\ CacheAgrees' /\ BuildAgrees'
  <1> DEFINE w == [pc |-> "loaded", f |-> f, kind |-> kind, text |-> text, base |-> disk[f]]
  <1>1. /\ wr \in [Client -> Writer] /\ wr[c].pc = "idle"
        /\ UNCHANGED <<disk, cache, rd, bumped>>
    BY DEF Load, VisibleInv, Typed, TypeOK
  <1>2. wr' = [wr EXCEPT ![c] = w]
    BY DEF Load
  <1>3. w.pc = "loaded" /\ w.f = f /\ w.kind = kind /\ w.text = text /\ w.base = disk[f]
    OBVIOUS
  <1> HIDE DEF w
  <1>4. wr'[c] = w /\ \A d \in Client : d # c => wr'[d] = wr[d]
    BY <1>1, <1>2
  <1>5. WriterKnows'
    <2> SUFFICES ASSUME NEW d \in Client
                 PROVE  /\ wr'[d].pc = "loaded" => wr'[d].base = disk'[wr'[d].f]
                        /\ wr'[d].pc \in {"written", "bumped"} => disk'[wr'[d].f] = NewRow(d)'
                        /\ wr'[d].kind = "touch" => /\ wr'[d].text = wr'[d].base.text
                                                   /\ wr'[d].text # Gone
      BY DEF WriterKnows
    <2>1. CASE d = c
      BY <1>1, <1>3, <1>4, <2>1
    <2>2. CASE d # c
      BY <1>1, <1>4, <2>2 DEF VisibleInv, WriterKnows, NewRow
    <2> QED
      BY <2>1, <2>2
  <1>6. \A g : \A d \in Client :
            wr[d].f = g /\ wr[d].pc \in {"written", "bumped"} => wr'[d] = wr[d]
    BY <1>1, <1>4
  <1>7. CacheAgrees'
    BY <1>1, <1>6, AgreeFrame DEF VisibleInv, CacheAgrees, Same
  <1>8. BuildAgrees'
    BY <1>1, <1>6, AgreeFrame DEF VisibleInv, BuildAgrees, Parsed, Same
  <1> QED
    BY <1>5, <1>7, <1>8

LEMMA WriteKeepsVisible ==
    ASSUME VisibleInv, NEW c \in Client, Write(c)
    PROVE  WriterKnows' /\ CacheAgrees' /\ BuildAgrees'
  <1> DEFINE f == wr[c].f
  <1>1. /\ wr \in [Client -> Writer] /\ wr[c] \in Writer /\ wr[c].pc = "loaded" /\ f \in File
        /\ disk \in Rows
    BY DEF Write, VisibleInv, Typed, TypeOK
  <1>2. wr' = [wr EXCEPT ![c].pc = "written"] /\ rd' = rd /\ bumped' = bumped
    BY DEF Write
  <1>3. /\ wr'[c].pc = "written" /\ wr'[c].f = f /\ wr'[c].kind = wr[c].kind
        /\ wr'[c].base = wr[c].base /\ wr'[c].text = wr[c].text
    BY <1>1, <1>2 DEF Writer
  <1>4. \A d \in Client : d # c => wr'[d] = wr[d]
    BY <1>1, <1>2
  <1>5. \A d \in Client : d # c => wr[d].f # f
    BY <1>1, GoneAssumption DEF VisibleInv, Typed, TypeOK
  <1>6. Written(f, NewRow(c))
    BY DEF Write, NewRow
  <1>7. disk'[f] = NewRow(c) /\ \A g \in File : g # f => disk'[g] = disk[g]
    BY <1>1, <1>6 DEF Written, Rows
  <1>8. NewRow(c)' = NewRow(c)
    BY <1>3 DEF NewRow
  <1>9. WriterKnows'
    <2> SUFFICES ASSUME NEW d \in Client
                 PROVE  /\ wr'[d].pc = "loaded" => wr'[d].base = disk'[wr'[d].f]
                        /\ wr'[d].pc \in {"written", "bumped"} => disk'[wr'[d].f] = NewRow(d)'
                        /\ wr'[d].kind = "touch" => /\ wr'[d].text = wr'[d].base.text
                                                   /\ wr'[d].text # Gone
      BY DEF WriterKnows
    <2>1. CASE d = c
      BY <1>3, <1>7, <1>8, <2>1 DEF VisibleInv, WriterKnows
    <2>2. CASE d # c
      <3>1. wr'[d] = wr[d] /\ NewRow(d)' = NewRow(d) /\ wr[d].f # f
        BY <1>4, <1>5, <2>2 DEF NewRow
      <3>2. wr[d].pc # "idle" => disk'[wr[d].f] = disk[wr[d].f]
        BY <1>7, <3>1 DEF VisibleInv, Typed, TypeOK
      <3> QED
        BY <3>1, <3>2 DEF VisibleInv, WriterKnows
    <2> QED
      BY <2>1, <2>2
  <1> HIDE DEF f
  <1>10. ASSUME NEW row, NEW g \in File, AgreeIn(row, disk, wr, g)
         PROVE  AgreeIn(row, disk', wr', g)
    <2>1. CASE g = f
      <3>1. Same(row, disk[f])
        BY <1>1, <1>5, <1>10, <2>1 DEF AgreeIn, f
      <3>2. wr[c].base = disk[f]
        BY <1>1 DEF VisibleInv, WriterKnows, f
      <3>3. wr'[c].f = f /\ wr'[c].pc = "written" /\ Same(row, wr'[c].base)
        BY <1>3, <3>1, <3>2
      <3> QED
        BY <2>1, <3>3 DEF AgreeIn
    <2>2. CASE g # f
      <3>1. disk'[g] = disk[g]
        BY <1>7, <2>2
      <3>2. \A d \in Client : wr[d].f = g /\ wr[d].pc \in {"written", "bumped"} => wr'[d] = wr[d]
        BY <1>1, <1>4
      <3> QED
        BY <1>10, <3>1, <3>2, AgreeFrame DEF Same
    <2> QED
      BY <2>1, <2>2
  <1>11. (cache'.on <=> cache.on) /\ cache'.rows = cache.rows
    BY <1>6 DEF Written, VisibleInv, Typed, TypeOK, Cached
  <1>12. CacheAgrees'
    BY <1>10, <1>11 DEF VisibleInv, CacheAgrees
  <1>13. BuildAgrees'
    BY <1>2, <1>10 DEF VisibleInv, BuildAgrees, Parsed
  <1> QED
    BY <1>9, <1>12, <1>13

\* A writer that leaves: the other writers keep what they know.
LEMMA LeaverKeepsKnows ==
    ASSUME VisibleInv, NEW c \in Client, wr' = [wr EXCEPT ![c] = NoWriter], disk' = disk
    PROVE  WriterKnows'
  <1>1. wr'[c] = NoWriter /\ \A d \in Client : d # c => wr'[d] = wr[d]
    BY DEF VisibleInv, Typed, TypeOK
  <1>2. NoWriter.pc = "idle" /\ NoWriter.kind = "none"
    BY DEF NoWriter
  <1> HIDE DEF NoWriter
  <1> SUFFICES ASSUME NEW d \in Client
               PROVE  /\ wr'[d].pc = "loaded" => wr'[d].base = disk'[wr'[d].f]
                      /\ wr'[d].pc \in {"written", "bumped"} => disk'[wr'[d].f] = NewRow(d)'
                      /\ wr'[d].kind = "touch" => /\ wr'[d].text = wr'[d].base.text
                                                 /\ wr'[d].text # Gone
    BY DEF WriterKnows
  <1>3. CASE d = c
    BY <1>1, <1>2, <1>3
  <1>4. CASE d # c
    <2>1. wr'[d] = wr[d] /\ NewRow(d)' = NewRow(d)
      BY <1>1, <1>4 DEF NewRow
    <2> QED
      BY <2>1 DEF VisibleInv, WriterKnows
  <1> QED
    BY <1>3, <1>4

LEMMA BumpKeepsVisible ==
    ASSUME VisibleInv, NEW c \in Client, Bump(c)
    PROVE  WriterKnows' /\ CacheAgrees' /\ BuildAgrees'
  <1> DEFINE f == wr[c].f
  <1>1. /\ wr \in [Client -> Writer] /\ wr[c] \in Writer /\ wr[c].pc = "written" /\ f \in File
        /\ cache \in Cached /\ cache.rows \in Rows /\ cache.rows[f] \in Row
    BY DEF Bump, VisibleInv, Typed, TypeOK, Cached, Rows
  <1>2. disk' = disk /\ bumped' = TRUE /\ wr[c].text # Gone
    BY DEF Bump
  <1>3. BuildAgrees'
    BY <1>2 DEF BuildAgrees
  <1>4. \A d \in Client : d # c => wr'[d] = wr[d] /\ wr[d].f # f
    BY <1>1, GoneAssumption DEF Bump, VisibleInv, Typed, TypeOK
  <1>5. disk[f] = NewRow(c)
    BY <1>1 DEF VisibleInv, WriterKnows
  <1>6. /\ cache'.on <=> cache.on
        /\ \A g \in File : cache.on /\ g # f => cache'.rows[g] = cache.rows[g]
    BY <1>1 DEF Bump, Patched, Cached, Rows
  <1>7. ASSUME NEW g \in File, g # f, cache.on
        PROVE  AgreeIn(cache'.rows[g], disk', wr', g)
    <2>1. AgreeIn(cache.rows[g], disk, wr, g)
      BY <1>7 DEF VisibleInv, CacheAgrees
    <2>2. \A d \in Client : wr[d].f = g /\ wr[d].pc \in {"written", "bumped"} => wr'[d] = wr[d]
      BY <1>4, <1>7
    <2> QED
      BY <1>2, <1>6, <1>7, <2>1, <2>2, AgreeFrame DEF Same
  <1>8. CASE wr[c].kind = "touch"
    <2>1. wr' = [wr EXCEPT ![c] = NoWriter]
      BY <1>8 DEF Bump
    <2>2. WriterKnows'
      BY <1>2, <2>1, LeaverKeepsKnows
    <2> DEFINE act == wr[c].base.act + 1
               old == cache.rows[f]
    <2>3. NewRow(c).text = wr[c].base.text /\ NewRow(c).act = act /\ wr[c].base.text # Gone
      <3>1. wr[c].base \in Row /\ wr[c].text = wr[c].base.text /\ wr[c].base.text # Gone
        BY <1>1, <1>2, <1>8 DEF VisibleInv, WriterKnows, Writer
      <3>2. NewRow(c) = [wr[c].base EXCEPT !.text = wr[c].text, !.act = act]
        BY <1>2, <1>8 DEF NewRow
      <3> QED
        BY <3>1, <3>2 DEF Row
    <2>4. ASSUME cache.on PROVE Same(cache'.rows[f], disk'[f])
      <3>1. AgreeIn(old, disk, wr, f)
        BY <1>1, <2>4 DEF VisibleInv, CacheAgrees
      <3>2. Same(old, NewRow(c)) \/ Same(old, wr[c].base)
        BY <1>4, <1>5, <1>8, <3>1 DEF AgreeIn
      <3>3. old.text = wr[c].base.text
        BY <2>3, <3>2 DEF Same
      <3>4. cache'.rows[f] = [old EXCEPT !.act = act]
        BY <1>1, <1>8, <2>3, <2>4, <3>3 DEF Bump, Patched, Cached, Rows
      <3>5. [old EXCEPT !.act = act].text = old.text /\ [old EXCEPT !.act = act].act = act
        BY <1>1 DEF Row
      <3> QED
        BY <1>2, <1>5, <2>3, <3>3, <3>4, <3>5 DEF Same
    <2>5. CacheAgrees'
      BY <1>6, <1>7, <2>4 DEF CacheAgrees, AgreeIn
    <2> QED
      BY <1>3, <2>2, <2>5
  <1>9. CASE wr[c].kind # "touch"
    <2>1. wr' = [wr EXCEPT ![c].pc = "bumped"]
      BY <1>9 DEF Bump
    <2>2. /\ wr'[c].pc = "bumped" /\ wr'[c].f = f /\ wr'[c].kind = wr[c].kind
          /\ wr'[c].base = wr[c].base /\ wr'[c].text = wr[c].text
      BY <1>1, <2>1 DEF Writer
    <2>3. WriterKnows'
      <3> SUFFICES ASSUME NEW d \in Client
                   PROVE  /\ wr'[d].pc = "loaded" => wr'[d].base = disk'[wr'[d].f]
                          /\ wr'[d].pc \in {"written", "bumped"} => disk'[wr'[d].f] = NewRow(d)'
                          /\ wr'[d].kind = "touch" => /\ wr'[d].text = wr'[d].base.text
                                                     /\ wr'[d].text # Gone
        BY DEF WriterKnows
      <3>1. CASE d = c
        BY <1>2, <1>5, <1>9, <2>2, <3>1 DEF NewRow
      <3>2. CASE d # c
        BY <1>2, <1>4, <3>2 DEF VisibleInv, WriterKnows, NewRow
      <3> QED
        BY <3>1, <3>2
    <2>4. AgreeIn(cache'.rows[f], disk', wr', f)
      BY <1>9, <2>2 DEF AgreeIn
    <2>5. CacheAgrees'
      BY <1>6, <1>7, <2>4 DEF CacheAgrees
    <2> QED
      BY <1>3, <2>3, <2>5
  <1> QED
    BY <1>8, <1>9

LEMMA LinkKeepsVisible ==
    ASSUME VisibleInv, NEW c \in Client, WriteLink(c)
    PROVE  WriterKnows' /\ CacheAgrees' /\ BuildAgrees'
  <1> DEFINE f == wr[c].f
  <1>1. /\ wr \in [Client -> Writer] /\ wr[c].pc = "loaded" /\ f \in File /\ disk \in Rows
        /\ rd' = rd /\ bumped' = bumped /\ wr' = [wr EXCEPT ![c] = NoWriter]
    BY DEF WriteLink, VisibleInv, Typed, TypeOK
  <1>2. wr'[c] = NoWriter /\ \A d \in Client : d # c => wr'[d] = wr[d] /\ wr[d].f # f
    BY <1>1, GoneAssumption DEF VisibleInv, Typed, TypeOK
  <1>3. Written(f, LinkRow(c)) /\ wr[c].base = disk[f]
    BY <1>1 DEF WriteLink, LinkRow, VisibleInv, WriterKnows
  <1>4. disk'[f] = LinkRow(c) /\ \A g \in File : g # f => disk'[g] = disk[g]
    BY <1>1, <1>3 DEF Written, Rows
  <1>5. \A g \in File : Same(disk[g], disk'[g])
    BY <1>3, <1>4, LinkRowType DEF Same, VisibleInv
  <1>6. NoWriter.pc = "idle" /\ NoWriter.kind = "none"
    BY DEF NoWriter
  <1> HIDE DEF f, NoWriter
  <1>7. WriterKnows'
    <2> SUFFICES ASSUME NEW d \in Client
                 PROVE  /\ wr'[d].pc = "loaded" => wr'[d].base = disk'[wr'[d].f]
                        /\ wr'[d].pc \in {"written", "bumped"} => disk'[wr'[d].f] = NewRow(d)'
                        /\ wr'[d].kind = "touch" => /\ wr'[d].text = wr'[d].base.text
                                                   /\ wr'[d].text # Gone
      BY DEF WriterKnows
    <2>1. CASE d = c
      BY <1>2, <1>6, <2>1
    <2>2. CASE d # c
      <3>1. wr'[d] = wr[d] /\ NewRow(d)' = NewRow(d) /\ wr[d].f # f
        BY <1>2, <2>2 DEF NewRow
      <3>2. wr[d].pc # "idle" => disk'[wr[d].f] = disk[wr[d].f]
        BY <1>4, <3>1 DEF VisibleInv, Typed, TypeOK
      <3> QED
        BY <3>1, <3>2 DEF VisibleInv, WriterKnows
    <2> QED
      BY <2>1, <2>2
  <1>8. \A g : \A d \in Client :
            wr[d].f = g /\ wr[d].pc \in {"written", "bumped"} => wr'[d] = wr[d]
    BY <1>1, <1>2
  <1>9. (cache'.on <=> cache.on) /\ cache'.rows = cache.rows
    BY <1>3 DEF Written, VisibleInv, Typed, TypeOK, Cached
  <1>10. CacheAgrees'
    BY <1>5, <1>8, <1>9, AgreeFrame DEF VisibleInv, CacheAgrees
  <1>11. BuildAgrees'
    BY <1>1, <1>5, <1>8, AgreeFrame DEF VisibleInv, BuildAgrees, Parsed
  <1> QED
    BY <1>7, <1>10, <1>11

LEMMA WriterKeepsVisible ==
    ASSUME VisibleInv, NEW c \in Client, WriterStep(c)
    PROVE  WriterKnows' /\ CacheAgrees' /\ BuildAgrees'
  <1>1. CASE GiveUp(c)
    <2>1. /\ wr \in [Client -> Writer] /\ wr[c].pc = "loaded"
          /\ UNCHANGED <<disk, cache, rd, bumped>> /\ wr' = [wr EXCEPT ![c] = NoWriter]
      BY <1>1 DEF GiveUp, VisibleInv, Typed, TypeOK
    <2>2. WriterKnows'
      BY <2>1, LeaverKeepsKnows
    <2>3. \A g : \A d \in Client :
              wr[d].f = g /\ wr[d].pc \in {"written", "bumped"} => wr'[d] = wr[d]
      BY <2>1
    <2>4. CacheAgrees'
      BY <2>1, <2>3, AgreeFrame DEF VisibleInv, CacheAgrees, Same
    <2>5. BuildAgrees'
      BY <2>1, <2>3, AgreeFrame DEF VisibleInv, BuildAgrees, Parsed, Same
    <2> QED
      BY <2>2, <2>4, <2>5
  <1>2. CASE Invalidate(c)
    <2>1. wr' = [wr EXCEPT ![c] = NoWriter] /\ disk' = disk
          /\ cache' = NoCache /\ bumped' = TRUE
      BY <1>2 DEF Invalidate
    <2>2. WriterKnows'
      BY <2>1, LeaverKeepsKnows
    <2> QED
      BY <2>1, <2>2 DEF CacheAgrees, BuildAgrees, NoCache
  <1> QED
    BY <1>1, <1>2, WriteKeepsVisible, LinkKeepsVisible, BumpKeepsVisible DEF WriterStep

LEMMA ReaderKeepsVisible ==
    ASSUME VisibleInv, ReaderStep
    PROVE  WriterKnows' /\ CacheAgrees' /\ BuildAgrees'
  <1>1. Reader
    BY DEF ReaderStep, Look, PollFile, PollDone, Capture, ScanBefore, Parse, ScanAfter,
           Publish, Reconcile, Pass
  <1>2. disk' = disk /\ wr' = wr
    BY <1>1 DEF Reader
  <1>3. WriterKnows'
    BY <1>2 DEF VisibleInv, WriterKnows, NewRow
  <1>4. rd \in Listing /\ rd.rows \in Rows /\ cache \in Cached /\ rd.left \in SUBSET File
    BY DEF VisibleInv, Typed, TypeOK, Listing
  <1>5. ASSUME cache' = cache \/ cache' = NoCache PROVE CacheAgrees'
    BY <1>2, <1>5 DEF CacheAgrees, VisibleInv, NoCache
  <1>6. ASSUME rd'.pc \in {"idle", "top", "poll", "capture", "before", "reconcile"}
        PROVE  BuildAgrees'
    BY <1>6 DEF BuildAgrees, Parsed
  <1>7. ASSUME NEW rows, Return(rows) PROVE rd'.pc = "idle"
    BY <1>7 DEF Return, NoReader
  <1>8. CASE Look
    <2>1. cache' = cache
      BY <1>8 DEF Look
    <2>2. rd'.pc \in {"idle", "poll", "capture"}
      <3>1. CASE cache.on /\ ~due
        BY <1>7, <1>8, <3>1 DEF Look
      <3>2. CASE ~(cache.on /\ ~due)
        BY <1>4, <1>8, <3>2 DEF Look, Listing
      <3> QED
        BY <3>1, <3>2
    <2> QED
      BY <1>3, <1>5, <1>6, <2>1, <2>2
  <1>9. CASE PollDone
    <2>1. cache' = cache \/ cache' = NoCache
      BY <1>9 DEF PollDone
    <2>2. rd'.pc \in {"idle", "top", "capture"}
      <3>1. CASE bumped
        BY <1>4, <1>9, <3>1 DEF PollDone, Listing
      <3>2. CASE ~bumped /\ ~rd.differs
        BY <1>7, <1>9, <3>2 DEF PollDone
      <3>3. CASE ~bumped /\ rd.differs
        BY <1>4, <1>9, <3>3 DEF PollDone, Listing
      <3> QED
        BY <3>1, <3>2, <3>3
    <2> QED
      BY <1>3, <1>5, <1>6, <2>1, <2>2
  <1>10. CASE Reconcile \/ Capture \/ \E f \in File : PollFile(f)
    <2>1. cache' = cache
      BY <1>10 DEF Reconcile, Capture, PollFile
    <2>2. rd'.pc \in {"idle", "before", "poll"}
      <3>1. CASE Reconcile
        BY <1>7, <3>1 DEF Reconcile
      <3>2. CASE Capture
        BY <1>4, <3>2 DEF Capture, Listing
      <3>3. CASE \E f \in File : PollFile(f)
        BY <1>4, <3>3 DEF PollFile, Listing
      <3> QED
        BY <1>10, <3>1, <3>2, <3>3
    <2> QED
      BY <1>3, <1>5, <1>6, <2>1, <2>2
  <1>11. ASSUME NEW f \in File, ScanBefore(f) PROVE CacheAgrees' /\ BuildAgrees'
    <2>1. cache' = cache
      BY <1>11 DEF ScanBefore, Pass
    <2>2. rd'.pc = "before" \/ (rd'.pc = "parse" /\ rd'.left = File)
      BY <1>4, <1>11 DEF ScanBefore, Pass, Listing
    <2> QED
      BY <1>5, <2>1, <2>2 DEF BuildAgrees, Parsed
  <1>12. ASSUME NEW f \in File, Parse(f) PROVE CacheAgrees' /\ BuildAgrees'
    <2>1. cache' = cache /\ bumped' = bumped /\ rd.pc = "parse" /\ f \in rd.left
      BY <1>12 DEF Parse, Pass
    <2>2. /\ rd'.rows = [rd.rows EXCEPT ![f] = disk[f]]
          /\ \/ rd'.pc = "after" /\ rd.left = {f}
             \/ rd'.pc = "parse" /\ rd'.left = rd.left \ {f}
      BY <1>4, <1>12 DEF Parse, Pass, Listing
    <2>3. rd'.rows[f] = disk[f] /\ \A g \in File : g # f => rd'.rows[g] = rd.rows[g]
      BY <1>4, <2>2 DEF Rows
    <2>4. AgreeIn(rd'.rows[f], disk', wr', f)
      BY <1>2, <2>3 DEF AgreeIn, Same
    <2>5. ASSUME NEW g \in File, g # f, Parsed(g)'
          PROVE  bumped' \/ AgreeIn(rd'.rows[g], disk', wr', g)
      <3>1. Parsed(g)
        BY <2>1, <2>2, <2>5 DEF Parsed
      <3>2. bumped \/ AgreeIn(rd.rows[g], disk, wr, g)
        BY <3>1 DEF VisibleInv, BuildAgrees
      <3> QED
        BY <1>2, <2>1, <2>3, <2>5, <3>2
    <2>6. BuildAgrees'
      BY <2>4, <2>5 DEF BuildAgrees
    <2> QED
      BY <1>5, <2>1, <2>6
  <1>13. ASSUME NEW f \in File, ScanAfter(f) PROVE CacheAgrees' /\ BuildAgrees'
    <2>1. cache' = cache /\ bumped' = bumped /\ rd.pc = "after"
      BY <1>13 DEF ScanAfter, Pass
    <2>2. rd'.rows = rd.rows /\ rd'.pc \in {"after", "top", "publish"}
      BY <1>4, <1>13 DEF ScanAfter, Pass, Listing
    <2>3. BuildAgrees'
      BY <1>2, <2>1, <2>2 DEF BuildAgrees, Parsed, VisibleInv
    <2> QED
      BY <1>5, <2>1, <2>3
  <1>14. CASE Publish
    <2>1. CASE bumped
      <3>1. cache' = cache /\ rd'.pc = "top"
        BY <1>4, <1>14, <2>1 DEF Publish, Listing
      <3> QED
        BY <1>3, <1>5, <1>6, <3>1
    <2>2. CASE ~bumped
      <3>1. cache' = [on |-> TRUE, rows |-> rd.rows, changed |-> moved] /\ rd.pc = "publish"
        BY <1>14, <2>2 DEF Publish
      <3>2. cache'.rows = rd.rows
        BY <3>1
      <3>3. \A f \in File : AgreeIn(rd.rows[f], disk, wr, f)
        BY <2>2, <3>1 DEF VisibleInv, BuildAgrees, Parsed
      <3>4. CacheAgrees'
        BY <1>2, <3>2, <3>3 DEF CacheAgrees
      <3>5. rd'.pc \in {"idle", "reconcile"}
        <4>1. CASE rd.prev.on
          BY <1>4, <1>14, <2>2, <4>1 DEF Publish, Listing
        <4>2. CASE ~rd.prev.on
          BY <1>7, <1>14, <2>2, <4>2 DEF Publish
        <4> QED
          BY <4>1, <4>2
      <3> QED
        BY <1>3, <1>6, <3>4, <3>5
    <2> QED
      BY <2>1, <2>2
  <1> QED
    BY <1>3, <1>8, <1>9, <1>10, <1>11, <1>12, <1>13, <1>14 DEF ReaderStep

LEMMA VisibleStep ==
    ASSUME "edit" \notin Ops, VisibleInv, [Next]_vars
    PROVE  VisibleInv'
  <1>1. Typed'
    BY NextType DEF VisibleInv
  <1>2. ~\E f \in File, text \in Content : Edit(f, text)
    BY DEF Edit
  <1>3. ASSUME NEW c \in Client, NEW f \in File, LoadTouch(c, f)
        PROVE  WriterKnows' /\ CacheAgrees' /\ BuildAgrees'
    BY <1>3, LoadKeepsVisible DEF LoadTouch
  <1>7. ASSUME NEW c \in Client, NEW f \in File, LoadLink(c, f)
        PROVE  WriterKnows' /\ CacheAgrees' /\ BuildAgrees'
    <2>1. Load(c, f, "link", disk[f].text)
      BY <1>7 DEF LoadLink
    <2> QED
      BY <2>1, LoadKeepsVisible
  <1>4. ASSUME NEW c \in Client, NEW f \in File, NEW text \in Content, LoadUpdate(c, f, text)
        PROVE  WriterKnows' /\ CacheAgrees' /\ BuildAgrees'
    BY <1>4, LoadKeepsVisible DEF LoadUpdate
  <1>5. ASSUME UNCHANGED <<disk, cache, rd, bumped, wr>>
        PROVE  WriterKnows' /\ CacheAgrees' /\ BuildAgrees'
    BY <1>5 DEF VisibleInv, WriterKnows, NewRow, CacheAgrees, BuildAgrees, Parsed
  <1>6. PollDue \/ SearchContinues \/ RebuildDone \/ RebuildFails \/ UNCHANGED vars
            => UNCHANGED <<disk, cache, rd, bumped, wr>>
    BY DEF PollDue, SearchContinues, RebuildDone, RebuildFails, BM25Step, vars
  <1> QED
    BY <1>1, <1>2, <1>3, <1>4, <1>5, <1>6, <1>7, WriterKeepsVisible, ReaderKeepsVisible
       DEF Next, VisibleInv

LEMMA InitVisible == Init => VisibleInv
  <1> SUFFICES ASSUME Init PROVE VisibleInv
    OBVIOUS
  <1>1. Typed
    BY InitType
  <1>2. WriterKnows
    BY DEF Init, WriterKnows, NoWriter
  <1>3. CacheAgrees
    BY DEF Init, CacheAgrees, AgreeIn, Same
  <1>4. BuildAgrees
    BY DEF Init, BuildAgrees, Parsed, NoReader
  <1> QED
    BY <1>1, <1>2, <1>3, <1>4 DEF VisibleInv

\* Where nobody edits outside, list_all shows the texts and activation counts of
\* every finished managed write, touches that patch the published rows included,
\* whatever link writes, which tell the cache nothing, come in between.
THEOREM ManagedWritesVisible ==
    ASSUME "edit" \notin Ops
    PROVE  Spec => []ReadsOwnWrites
  <1>1. VisibleInv /\ [Next]_vars => VisibleInv'
    BY VisibleStep
  <1>2. VisibleInv => ReadsOwnWrites
    BY DEF VisibleInv, CacheAgrees, ReadsOwnWrites, AgreeIn, Same, InFlight
  <1> QED
    BY <1>1, <1>2, InitVisible, PTL DEF Spec

-----------------------------------------------------------------------------
(* Edits are queued again.  Until the store updates or touches a memory,   *)
(* what is registered for embedding is the text of the published rows, or, *)
(* while there are none, of the rows published last, which the builder     *)
(* keeps through all its attempts.                                         *)

Quiet == ~bumped /\ \A c \in Client : wr[c].pc \in {"idle", "loaded"}

\* What told is compared with: the rows published last, reconciled.
Registered ==
    /\ cache.on /\ rd.pc # "reconcile" => told = Texts(cache.rows)
    /\ cache.on <=> rd.pc \in {"idle", "poll", "reconcile"}
    /\ rd.pc = "reconcile" => cache.rows = rd.rows
    /\ ~cache.on \/ rd.pc = "reconcile" => rd.prev.on /\ told = Texts(rd.prev.rows)

EditsInv == Watched /\ Quiet /\ Registered
RequeueInv == Typed /\ (~managed => EditsInv)

LEMMA WrittenRegistered ==
    ASSUME EditsInv, NEW f \in File, NEW row, Written(f, row), UNCHANGED <<rd, told>>
    PROVE  Registered'
  <1>1. cache'.on = cache.on /\ cache'.rows = cache.rows
    BY DEF EditsInv, Watched, Typed, TypeOK, Cached, Written
  <1> QED
    BY <1>1 DEF EditsInv, Registered

LEMMA ReaderKeepsRegistered ==
    ASSUME EditsInv, ReaderStep
    PROVE  ~bumped' /\ Registered'
  <1>1. ~bumped /\ Registered /\ rd \in Listing /\ cache \in Cached
    BY DEF EditsInv, Quiet, Watched, Typed, TypeOK
  <1>2. ASSUME NEW rows, Return(rows) PROVE rd'.pc = "idle"
    BY <1>2 DEF Return, NoReader
  <1>3. CASE Look
    <2>1. cache' = cache /\ told' = told /\ ~bumped'
      BY <1>1, <1>3 DEF Look
    <2>2. CASE cache.on /\ ~due
      <3>1. rd'.pc = "idle"
        BY <1>2, <1>3, <2>2 DEF Look
      <3> QED
        BY <1>1, <1>3, <2>1, <2>2, <3>1 DEF Look, Registered
    <2>3. CASE ~(cache.on /\ ~due)
      <3>1. rd' = IF cache.on THEN [rd EXCEPT !.pc = "poll", !.left = File, !.differs = FALSE]
                  ELSE [rd EXCEPT !.pc = "capture"]
        BY <1>3, <2>3 DEF Look
      <3>2. rd'.prev = rd.prev /\ (cache.on => rd'.pc = "poll") /\ (~cache.on => rd'.pc = "capture")
        BY <1>1, <3>1 DEF Listing
      <3> QED
        BY <1>1, <1>3, <2>1, <3>2 DEF Look, Registered
    <2> QED
      BY <2>2, <2>3
  <1>4. CASE PollDone
    <2>1. rd.pc = "poll" /\ told' = told /\ ~bumped' /\ ~bumped
      BY <1>1, <1>4 DEF PollDone
    <2>2. CASE ~rd.differs
      <3>1. cache' = cache /\ rd'.pc = "idle"
        BY <1>2, <1>4, <2>1, <2>2 DEF PollDone
      <3>2. cache.on /\ told = Texts(cache.rows)
        BY <1>1, <2>1 DEF Registered
      <3> QED
        BY <2>1, <3>1, <3>2 DEF Registered
    <2>3. CASE rd.differs
      <3>1. /\ rd' = [rd EXCEPT !.pc = "capture", !.prev = [on |-> TRUE, rows |-> cache.rows]]
            /\ cache' = NoCache
        BY <1>4, <2>1, <2>3 DEF PollDone
      <3>2. rd'.pc = "capture" /\ rd'.prev = [on |-> TRUE, rows |-> cache.rows] /\ ~cache'.on
        BY <1>1, <3>1 DEF Listing, NoCache
      <3> QED
        BY <1>1, <2>1, <3>2 DEF Registered
    <2> QED
      BY <2>2, <2>3
  <1>5. CASE Capture
    <2>1. /\ rd' = [rd EXCEPT !.pc = "before", !.left = File, !.differs = FALSE]
          /\ rd.pc = "capture" /\ ~bumped' /\ UNCHANGED <<cache, told>>
      BY <1>5 DEF Capture
    <2>2. rd'.pc = "before" /\ rd'.prev = rd.prev
      BY <1>1, <2>1 DEF Listing
    <2> QED
      BY <1>1, <2>1, <2>2 DEF Registered
  <1>6. CASE Publish
    <2>1. /\ rd.pc = "publish" /\ UNCHANGED <<told, bumped>>
          /\ cache' = [on |-> TRUE, rows |-> rd.rows, changed |-> moved]
      BY <1>1, <1>6 DEF Publish
    <2>2. ~cache.on /\ rd.prev.on /\ told = Texts(rd.prev.rows)
      BY <1>1, <2>1 DEF Registered
    <2>3. rd' = [rd EXCEPT !.pc = "reconcile"]
      BY <1>1, <1>6, <2>2 DEF Publish
    <2>4. rd'.pc = "reconcile" /\ rd'.prev = rd.prev /\ rd'.rows = rd.rows
      BY <1>1, <2>3 DEF Listing
    <2>5. cache'.on /\ cache'.rows = rd.rows
      BY <2>1
    <2> QED
      BY <1>1, <2>1, <2>2, <2>4, <2>5 DEF Registered
  <1>7. CASE Reconcile
    <2>1. /\ rd.pc = "reconcile" /\ rd'.pc = "idle" /\ UNCHANGED <<cache, bumped>>
          /\ told' = [f \in File |-> IF rd.prev.rows[f].text # rd.rows[f].text
                                     THEN rd.rows[f].text ELSE told[f]]
      BY <1>2, <1>7 DEF Reconcile
    <2>2. cache.on /\ cache.rows = rd.rows /\ told = Texts(rd.prev.rows)
      BY <1>1, <2>1 DEF Registered
    <2>3. told' = Texts(cache.rows)
      BY <2>1, <2>2 DEF Texts
    <2> QED
      BY <1>1, <2>1, <2>2, <2>3 DEF Registered
  <1>8. CASE \E f \in File : PollFile(f) \/ ScanBefore(f) \/ Parse(f) \/ ScanAfter(f)
    <2>1. UNCHANGED <<cache, told, bumped>> /\ rd.pc # "reconcile"
      BY <1>8 DEF PollFile, ScanBefore, Parse, ScanAfter, Pass
    <2>2. /\ rd'.prev = rd.prev
          /\ \/ rd.pc = "poll" /\ rd'.pc = "poll"
             \/ {rd.pc, rd'.pc} \cap {"idle", "poll", "reconcile"} = {}
      BY <1>1, <1>8 DEF PollFile, ScanBefore, Parse, ScanAfter, Pass, Listing
    <2> QED
      BY <1>1, <2>1, <2>2 DEF Registered
  <1> QED
    BY <1>3, <1>4, <1>5, <1>6, <1>7, <1>8 DEF ReaderStep

LEMMA RequeueStep == RequeueInv /\ [Next]_vars => RequeueInv'
  <1> SUFFICES ASSUME RequeueInv, [Next]_vars, ~managed'
               PROVE  EditsInv'
    BY NextType DEF RequeueInv
  <1>t. Typed'
    BY NextType DEF RequeueInv
  <1>w. \A c \in Client : ~Write(c)
    BY DEF Write
  <1>m. ~managed
    BY <1>w DEF Next, Edit, LoadTouch, LoadLink, LoadUpdate, Load, WriterStep, WriteLink, GiveUp, Bump, Invalidate, ReaderStep, Look,
                PollFile, PollDone, Capture, ScanBefore, Parse, ScanAfter, Publish, Reconcile, Pass, Reader,
                PollDue, SearchContinues, RebuildDone, RebuildFails, BM25Step, vars
  <1>i. EditsInv /\ wr \in [Client -> Writer] /\ \A f \in File : ~InFlight(f)
    BY <1>m DEF RequeueInv, EditsInv, Quiet, Typed, TypeOK, InFlight
  <1>1. ASSUME NEW f \in File, NEW text \in Content, Edit(f, text) PROVE EditsInv'
    <2>1. PICK row : Written(f, row)
      BY <1>1 DEF Edit
    <2>2. UNCHANGED <<rd, bumped, wr, told>>
      BY <1>1 DEF Edit
    <2>3. BuildTruthful' /\ CacheTruthful'
      BY <1>i, <2>1, <2>2, WrittenNoticed DEF EditsInv
    <2>4. Registered'
      BY <1>i, <2>1, <2>2, WrittenRegistered
    <2> QED
      BY <1>i, <1>t, <2>2, <2>3, <2>4 DEF EditsInv, Watched, Quiet
  \* A writer may load its file and give up.
  <1>2. ASSUME UNCHANGED <<disk, cache, rd, moved, told, bumped>>,
               \A c \in Client : wr'[c].pc \in {"idle", "loaded"}
        PROVE  EditsInv'
    <2>1. BuildTruthful' /\ CacheTruthful'
      BY <1>2, <1>i, NothingNoticed DEF EditsInv
    <2> QED
      BY <1>2, <1>i, <1>t, <2>1 DEF EditsInv, Watched, Quiet, Registered
  <1>3. ASSUME NEW c \in Client, NEW f \in File, NEW kind, NEW text, Load(c, f, kind, text)
        PROVE  EditsInv'
    <2>1. \A d \in Client : wr'[d].pc \in {"idle", "loaded"}
      BY <1>3, <1>i DEF Load, EditsInv, Quiet
    <2> QED
      BY <1>2, <1>3, <2>1 DEF Load
  <1>4. ASSUME NEW c \in Client, WriterStep(c) PROVE EditsInv'
    <2>1. GiveUp(c) \/ WriteLink(c)
      BY <1>4, <1>i, <1>w DEF WriterStep, Bump, Invalidate, EditsInv, Quiet
    <2>2. \A d \in Client : wr'[d].pc \in {"idle", "loaded"}
      BY <1>i, <2>1 DEF GiveUp, WriteLink, NoWriter, EditsInv, Quiet
    <2>3. CASE GiveUp(c)
      BY <1>2, <2>2, <2>3 DEF GiveUp
    <2>4. CASE WriteLink(c)
      <3>1. Written(wr[c].f, LinkRow(c)) /\ wr[c].f \in File /\ UNCHANGED <<rd, bumped, told>>
        BY <1>i, <2>4 DEF WriteLink, LinkRow, EditsInv, Watched, Typed, TypeOK
      <3>2. BuildTruthful' /\ CacheTruthful'
        BY <1>i, <3>1, WrittenNoticed DEF EditsInv
      <3>3. Registered'
        BY <1>i, <3>1, WrittenRegistered
      <3> QED
        BY <1>i, <1>t, <2>2, <3>1, <3>2, <3>3 DEF EditsInv, Watched, Quiet
    <2> QED
      BY <2>1, <2>3, <2>4
  <1>5. CASE ReaderStep
    <2>1. wr' = wr
      BY <1>5 DEF ReaderStep, Look, PollFile, PollDone, Capture, ScanBefore, Parse, ScanAfter,
                  Publish, Reconcile, Pass, Reader
    <2>2. BuildTruthful' /\ CacheTruthful'
      BY <1>5, <1>i, ReaderKeepsNotice DEF EditsInv
    <2> QED
      BY <1>5, <1>i, <1>t, <2>1, <2>2, ReaderKeepsRegistered DEF EditsInv, Watched, Quiet
  <1>6. CASE PollDue \/ SearchContinues \/ RebuildDone \/ RebuildFails \/ UNCHANGED vars
    <2>1. UNCHANGED <<disk, cache, rd, moved, told, wr, bumped>>
      BY <1>6 DEF PollDue, SearchContinues, RebuildDone, RebuildFails, BM25Step, vars
    <2> QED
      BY <1>2, <1>i, <2>1 DEF EditsInv, Quiet
  <1> QED
    BY <1>1, <1>3, <1>4, <1>5, <1>6 DEF Next, LoadTouch, LoadLink, LoadUpdate

LEMMA InitRequeue == Init => RequeueInv
  <1> SUFFICES ASSUME Init PROVE RequeueInv
    OBVIOUS
  <1>1. Quiet
    BY DEF Init, Quiet, NoWriter
  <1>2. cache.on /\ cache.rows = disk /\ rd.pc = "idle" /\ told = Texts(disk)
    BY DEF Init, NoReader
  <1> QED
    BY <1>1, <1>2, InitNotice DEF RequeueInv, EditsInv, Registered, NoticeInv, Watched

\* Until a memory is updated or touched through the store, every text that an
\* outside edit left and list_all noticed has been registered for embedding,
\* however often the build had to start over, whatever writers have loaded, and
\* whatever links they have written.
THEOREM EditsQueuedAgain == Spec => []EditsRequeued
  <1>1. RequeueInv => EditsRequeued
    <2> SUFFICES ASSUME RequeueInv, ~managed, cache.on, rd.pc = "idle", NEW f \in File \ cache.changed
                 PROVE  told[f] = disk[f].text
      BY DEF EditsRequeued
    <2>1. EditsInv
      BY DEF RequeueInv
    <2>2. told[f] = cache.rows[f].text
      BY <2>1 DEF EditsInv, Registered, Texts
    <2>3. cache.rows[f] = disk[f]
      BY <2>1 DEF EditsInv, Quiet, Watched, CacheTruthful, InFlight
    <2> QED
      BY <2>2, <2>3
  <1> QED
    BY <1>1, RequeueStep, InitRequeue, PTL DEF Spec
=============================================================================

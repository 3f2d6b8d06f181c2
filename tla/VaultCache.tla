------------------------------- MODULE VaultCache -------------------------------
(***************************************************************************)
(* The active cache of the bucket store.  list_all() parses every Markdown *)
(* file once and keeps the rows.  Managed writes drop or patch the cache,  *)
(* except those of relations and source links, which leave it alone;       *)
(* these, and edits by Obsidian, Git or hand, are found by comparing the   *)
(* file fingerprints (mtime, size) at most once per poll interval.         *)
(*                                                                         *)
(* One process with several loops and threads: builders exclude one        *)
(* another (_active_cache_lock), writers of one file exclude one another   *)
(* (the bucket lease), and everything else interleaves.  A fingerprint     *)
(* changes with every write, so a recorded set of fingerprints is          *)
(* represented by the set of files written since; a captured generation by *)
(* whether it has been bumped since.                                       *)
(***************************************************************************)
EXTENDS Naturals

CONSTANTS
    File,          \* Markdown files of the active directories
    Client,        \* handlers that write
    Text,          \* contents of a file
    Gone,          \* no such file
    MaxAct,        \* bound on activation counts
    MaxWrites,     \* bound on writes and external edits
    Ops            \* the operations that may be called

ASSUME GoneAssumption == Gone \notin Text \cup File
ASSUME BoundAssumption == MaxAct \in Nat /\ MaxWrites \in Nat

VARIABLES
    disk,          \* row of each file: its text, activation count and links
    cache,         \* published rows, if any, and the files written since
    due,           \* the poll interval has passed
    rd,            \* the list_all() that holds _active_cache_lock
    moved,         \* files written since rd last looked at their fingerprint
    bumped,        \* the generation is not the one that rd captured
    wr,            \* writers
    told,          \* text last registered with the embedding outbox
    bm,            \* BM25: indexed texts, dirty flag, search and rebuild
    writes,        \* number of writes so far
    edited,        \* history: files whose last write was external
    managed        \* history: the store has updated or touched a memory

vars == <<disk, cache, due, rd, moved, bumped, wr, told, bm, writes, edited, managed>>

-----------------------------------------------------------------------------
Content == Text \cup {Gone}
Row == [text : Content, act : 0..MaxAct, link : 0..1]
Rows == [File -> Row]
NoRow == [text |-> Gone, act |-> 0, link |-> 0]
NoRows == [f \in File |-> NoRow]
Texts(rows) == [f \in File |-> rows[f].text]

NoCache == [on |-> FALSE, rows |-> NoRows, changed |-> {}]
NoPrev == [on |-> FALSE, rows |-> NoRows]
NoReader == [pc |-> "idle", left |-> {}, differs |-> FALSE, rows |-> NoRows, prev |-> NoPrev]
NoWriter == [pc |-> "idle", f |-> Gone, kind |-> "none", text |-> Gone, base |-> NoRow]

\* After start-up, which lists all memories and registers what is missing.
Init ==
    /\ disk \in [File -> {NoRow} \cup [text : Text, act : {0}, link : {0}]]
    /\ cache = [on |-> TRUE, rows |-> disk, changed |-> {}]
    /\ due = FALSE
    /\ rd = NoReader
    /\ moved = {}
    /\ bumped = FALSE
    /\ wr = [c \in Client |-> NoWriter]
    /\ told = Texts(disk)
    /\ bm = [texts |-> [f \in File |-> Gone], dirty |-> TRUE,
             search |-> FALSE, found |-> [f \in File |-> Gone],
             rebuilding |-> FALSE, input |-> [f \in File |-> Gone]]
    /\ writes = 0
    /\ edited = {}
    /\ managed = FALSE

-----------------------------------------------------------------------------
(* Every write of a file changes its fingerprint. *)

Written(f, row) ==
    /\ disk' = [disk EXCEPT ![f] = row]
    /\ cache' = IF cache.on THEN [cache EXCEPT !.changed = @ \cup {f}] ELSE cache
    /\ moved' = IF rd.pc = "idle" THEN moved ELSE moved \cup {f}

\* An edit that bypasses the store.
Edit(f, text) ==
    /\ "edit" \in Ops
    /\ writes < MaxWrites
    /\ text # disk[f].text
    /\ Written(f, IF text = Gone THEN NoRow ELSE [disk[f] EXCEPT !.text = text])
    /\ edited' = edited \cup {f}
    /\ writes' = writes + 1
    /\ UNCHANGED <<due, rd, bumped, wr, told, bm, managed>>

-----------------------------------------------------------------------------
(* Managed writers, under the lease of the bucket *)

Load(c, f, kind, text) ==
    /\ kind \in Ops
    /\ writes < MaxWrites
    /\ wr[c].pc = "idle"
    /\ \A d \in Client : wr[d].f # f
    /\ wr' = [wr EXCEPT ![c] = [pc |-> "loaded", f |-> f, kind |-> kind,
                                text |-> text, base |-> disk[f]]]
    /\ writes' = writes + 1
    /\ UNCHANGED <<disk, cache, due, rd, moved, bumped, told, bm, edited, managed>>

\* create, update, archive, restore, delete
LoadUpdate(c, f, text) ==
    /\ ~(text = Gone /\ disk[f].text = Gone)
    /\ Load(c, f, "update", text)

\* touch and ripple
LoadTouch(c, f) ==
    /\ disk[f].text # Gone
    /\ disk[f].act < MaxAct
    /\ Load(c, f, "touch", disk[f].text)

\* mutate_source_links, mutate_relation_links, and mutate_relation_pair, which
\* writes two files so, and the first one again when the second fails
LoadLink(c, f) ==
    /\ disk[f].text # Gone
    /\ Load(c, f, "link", disk[f].text)

\* The new text is registered after the commit; what may happen in between
\* is the subject of EmbeddingOutbox.
Write(c) ==
    LET w == wr[c]
        act == IF w.kind = "touch" THEN w.base.act + 1 ELSE w.base.act
    IN /\ w.pc = "loaded" /\ w.kind # "link"
       /\ Written(w.f, IF w.text = Gone THEN NoRow ELSE [w.base EXCEPT !.text = w.text, !.act = act])
       /\ wr' = [wr EXCEPT ![c].pc = "written"]
       /\ told' = IF w.kind = "update" THEN [told EXCEPT ![w.f] = w.text] ELSE told
       /\ edited' = edited \ {w.f}
       /\ managed' = TRUE
       /\ UNCHANGED <<due, rd, bumped, bm, writes>>

\* Links change in the file and nowhere else: the cache is not told.
WriteLink(c) ==
    /\ wr[c].pc = "loaded" /\ wr[c].kind = "link"
    /\ Written(wr[c].f, [wr[c].base EXCEPT !.link = 1 - @])
    /\ wr' = [wr EXCEPT ![c] = NoWriter]
    /\ UNCHANGED <<due, rd, bumped, told, bm, writes, edited, managed>>

\* The write is refused or fails; nothing has changed.
GiveUp(c) ==
    /\ wr[c].pc = "loaded"
    /\ wr' = [wr EXCEPT ![c] = NoWriter]
    /\ UNCHANGED <<disk, cache, due, rd, moved, bumped, told, bm, writes, edited, managed>>

\* What _cache_bump does to a published cache: it patches the activation count
\* and records the fingerprint that the file has now.
Patched(c) ==
    LET f == wr[c].f
        act == IF wr[c].kind = "touch" THEN wr[c].base.act + 1 ELSE wr[c].base.act
        row == cache.rows[f]
    IN [cache EXCEPT !.rows[f] = IF row.text = Gone THEN row ELSE [row EXCEPT !.act = act],
                     !.changed = @ \ {f}]

\* (Mutant) Without a published cache nothing is done.
BumpLazily(c) ==
    /\ wr[c].pc = "written"
    /\ wr[c].text # Gone
    /\ bumped' = IF cache.on THEN TRUE ELSE bumped
    /\ cache' = IF cache.on THEN Patched(c) ELSE cache
    /\ due' = IF cache.on THEN FALSE ELSE due
    /\ wr' = IF wr[c].kind = "touch" THEN [wr EXCEPT ![c] = NoWriter]
             ELSE [wr EXCEPT ![c].pc = "bumped"]
    /\ UNCHANGED <<disk, rd, moved, told, bm, writes, edited, managed>>

\* touch ends with it; update(bump_active=True) goes on to invalidate.
Bump(c) ==
    /\ wr[c].pc = "written"
    /\ wr[c].text # Gone
    /\ bumped' = TRUE
    /\ cache' = IF cache.on THEN Patched(c) ELSE cache
    /\ due' = IF cache.on THEN FALSE ELSE due
    /\ wr' = IF wr[c].kind = "touch" THEN [wr EXCEPT ![c] = NoWriter]
             ELSE [wr EXCEPT ![c].pc = "bumped"]
    /\ UNCHANGED <<disk, rd, moved, told, bm, writes, edited, managed>>

\* _invalidate_bm25
Invalidate(c) ==
    /\ wr[c].kind = "update"
    /\ wr[c].pc \in {"written", "bumped"}
    /\ bumped' = TRUE
    /\ cache' = NoCache
    /\ due' = TRUE
    /\ bm' = [bm EXCEPT !.dirty = TRUE]
    /\ wr' = [wr EXCEPT ![c] = NoWriter]
    /\ UNCHANGED <<disk, rd, moved, told, writes, edited, managed>>

-----------------------------------------------------------------------------
(* list_all, by the reader that holds _active_cache_lock *)

Reader == UNCHANGED <<disk, wr, writes, edited, managed>>

\* The rows go to the caller; a search keeps them for its BM25 index.
Return(rows) ==
    /\ rd' = NoReader
    /\ moved' = {}
    /\ \/ bm' = bm
       \/ /\ "search" \in Ops
          /\ ~bm.search
          /\ bm' = [bm EXCEPT !.search = TRUE, !.found = Texts(rows)]

\* The top of the loop: serve the cache, poll the fingerprints, or build.
Look ==
    /\ rd.pc \in {"idle", "top"}
    /\ IF cache.on /\ ~due
       THEN Return(cache.rows) /\ UNCHANGED bumped
       ELSE /\ IF cache.on
               THEN rd' = [rd EXCEPT !.pc = "poll", !.left = File, !.differs = FALSE]
               ELSE rd' = [rd EXCEPT !.pc = "capture"]
            /\ bumped' = FALSE
            /\ UNCHANGED <<moved, bm>>
    /\ UNCHANGED <<cache, due, told>>
    /\ Reader

PollFile(f) ==
    /\ rd.pc = "poll"
    /\ f \in rd.left
    /\ rd' = [rd EXCEPT !.left = @ \ {f}, !.differs = @ \/ f \in cache.changed]
    /\ UNCHANGED <<cache, due, moved, bumped, told, bm>>
    /\ Reader

\* (Mutant) New fingerprints are taken over, and the rows kept.
PollDoneAcknowledges ==
    /\ rd.pc = "poll"
    /\ rd.left = {}
    /\ IF bumped
       THEN /\ rd' = [rd EXCEPT !.pc = "top", !.prev = NoPrev]
            /\ UNCHANGED <<cache, due, moved, bm>>
       ELSE due' = FALSE /\ Return(cache.rows) /\ cache' = [cache EXCEPT !.changed = {}]
    /\ UNCHANGED <<bumped, told>>
    /\ Reader

\* Compare the generation, and then the fingerprints.
PollDone ==
    /\ rd.pc = "poll"
    /\ rd.left = {}
    /\ UNCHANGED <<bumped, told>>
    /\ IF bumped
       THEN /\ rd' = [rd EXCEPT !.pc = "top", !.prev = NoPrev]
            /\ UNCHANGED <<cache, due, moved, bm>>
       ELSE IF ~rd.differs
       THEN due' = FALSE /\ Return(cache.rows) /\ UNCHANGED cache
       ELSE /\ rd' = [rd EXCEPT !.pc = "capture",
                                !.prev = [on |-> TRUE, rows |-> cache.rows]]
            /\ cache' = NoCache
            /\ due' = FALSE
            /\ bm' = [bm EXCEPT !.dirty = TRUE]
            /\ UNCHANGED moved
    /\ Reader

\* The generation to compare with when publishing.
Capture ==
    /\ rd.pc = "capture"
    /\ rd' = [rd EXCEPT !.pc = "before", !.left = File, !.differs = FALSE]
    /\ bumped' = FALSE
    /\ UNCHANGED <<cache, due, moved, told, bm>>
    /\ Reader

\* A pass over all files in any order: do it to f, and go on when it was the last.
Pass(f, pc, next) ==
    /\ rd.pc = pc
    /\ f \in rd.left
    /\ UNCHANGED <<cache, due, bumped, told, bm>>
    /\ Reader

\* state_before
ScanBefore(f) ==
    /\ Pass(f, "before", "parse")
    /\ moved' = moved \ {f}
    /\ rd' = IF rd.left = {f} THEN [rd EXCEPT !.pc = "parse", !.left = File]
             ELSE [rd EXCEPT !.left = @ \ {f}]

Parse(f) ==
    /\ Pass(f, "parse", "after")
    /\ UNCHANGED moved
    /\ rd' = LET parsed == [rd EXCEPT !.rows[f] = disk[f]]
             IN IF rd.left = {f} THEN [parsed EXCEPT !.pc = "after", !.left = File]
                ELSE [parsed EXCEPT !.left = @ \ {f}]

\* (Mutant) The second scan is recorded and not compared.
ScanAfterBlindly(f) ==
    /\ Pass(f, "after", "publish")
    /\ moved' = moved \ {f}
    /\ rd' = IF rd.left = {f} THEN [rd EXCEPT !.left = {}, !.pc = "publish"]
             ELSE [rd EXCEPT !.left = @ \ {f}]

\* (Mutant) A build that starts over forgets the rows published before it.
ScanAfterForgets(f) ==
    LET differs == rd.differs \/ f \in moved
    IN /\ Pass(f, "after", "publish")
       /\ moved' = moved \ {f}
       /\ rd' = [rd EXCEPT !.left = @ \ {f}, !.differs = differs,
                           !.pc = IF rd.left # {f} THEN "after"
                                  ELSE IF differs THEN "top" ELSE "publish",
                           !.prev = IF rd.left = {f} /\ differs THEN NoPrev ELSE @]

\* state_after, compared with state_before
ScanAfter(f) ==
    LET differs == rd.differs \/ f \in moved
    IN /\ Pass(f, "after", "publish")
       /\ moved' = moved \ {f}
       /\ rd' = [rd EXCEPT !.left = @ \ {f}, !.differs = differs,
                           !.pc = IF rd.left # {f} THEN "after"
                                  ELSE IF differs THEN "top" ELSE "publish"]

\* (Mutant) The generation is not compared.
PublishBlindly ==
    /\ rd.pc = "publish"
    /\ cache' = [on |-> TRUE, rows |-> rd.rows, changed |-> moved]
    /\ due' = FALSE
    /\ IF rd.prev.on
       THEN rd' = [rd EXCEPT !.pc = "reconcile"] /\ UNCHANGED <<moved, bm>>
       ELSE Return(rd.rows)
    /\ UNCHANGED <<bumped, told>>
    /\ Reader

\* Compare and swap by generation.
Publish ==
    /\ rd.pc = "publish"
    /\ IF bumped
       THEN /\ rd' = [rd EXCEPT !.pc = "top", !.prev = NoPrev]
            /\ UNCHANGED <<cache, due, moved, bm>>
       ELSE /\ cache' = [on |-> TRUE, rows |-> rd.rows, changed |-> moved]
            /\ due' = FALSE
            /\ IF rd.prev.on
               THEN rd' = [rd EXCEPT !.pc = "reconcile"] /\ UNCHANGED <<moved, bm>>
               ELSE Return(rd.rows)
    /\ UNCHANGED <<bumped, told>>
    /\ Reader

\* _reconcile_external_changes: register every text that was edited.
Reconcile ==
    /\ rd.pc = "reconcile"
    /\ told' = [f \in File |-> IF rd.prev.rows[f].text # rd.rows[f].text
                               THEN rd.rows[f].text ELSE told[f]]
    /\ Return(rd.rows)
    /\ UNCHANGED <<cache, due, bumped>>
    /\ Reader

ReaderStep ==
    \/ Look \/ PollDone \/ Capture \/ Publish \/ Reconcile
    \/ \E f \in File : PollFile(f) \/ ScanBefore(f) \/ Parse(f) \/ ScanAfter(f)

-----------------------------------------------------------------------------
(* Time, and the BM25 index *)

PollDue ==
    /\ cache.on
    /\ ~due
    /\ due' = TRUE
    /\ UNCHANGED <<disk, cache, rd, moved, bumped, wr, told, bm, writes, edited, managed>>

BM25Step(new) ==
    /\ bm' = new
    /\ UNCHANGED <<disk, cache, due, rd, moved, bumped, wr, told, writes, edited, managed>>

\* After its embedding query a search starts a rebuild from the rows it read.
SearchContinues ==
    /\ bm.search
    /\ BM25Step(IF bm.dirty /\ ~bm.rebuilding
                THEN [bm EXCEPT !.search = FALSE, !.rebuilding = TRUE, !.input = bm.found]
                ELSE [bm EXCEPT !.search = FALSE])

RebuildDone ==
    /\ bm.rebuilding
    /\ BM25Step([bm EXCEPT !.texts = bm.input, !.dirty = FALSE, !.rebuilding = FALSE])

RebuildFails ==
    /\ bm.rebuilding
    /\ BM25Step([bm EXCEPT !.rebuilding = FALSE])

WriterStep(c) == Write(c) \/ WriteLink(c) \/ GiveUp(c) \/ Bump(c) \/ Invalidate(c)

Next ==
    \/ \E f \in File, text \in Content : Edit(f, text)
    \/ \E c \in Client : \/ \E f \in File : LoadTouch(c, f) \/ LoadLink(c, f)
                         \/ \E f \in File, text \in Content : LoadUpdate(c, f, text)
                         \/ WriterStep(c)
    \/ ReaderStep
    \/ PollDue
    \/ SearchContinues \/ RebuildDone \/ RebuildFails

Spec == Init /\ [][Next]_vars

\* list_all is called again and again, handlers run on, and time passes.
LiveSpec == /\ Spec
            /\ WF_vars(ReaderStep)
            /\ WF_vars(PollDue)
            /\ \A c \in Client : WF_vars(WriterStep(c))

-----------------------------------------------------------------------------
(* Properties *)

Cached == [on : BOOLEAN, rows : Rows, changed : SUBSET File]
Prev == [on : BOOLEAN, rows : Rows]
Listing == [pc : {"idle", "top", "poll", "capture", "before", "parse",
                  "after", "publish", "reconcile"},
            left : SUBSET File, differs : BOOLEAN, rows : Rows, prev : Prev]
Writer == [pc : {"idle", "loaded", "written", "bumped"}, f : File \cup {Gone},
           kind : {"none", "update", "touch", "link"}, text : Content, base : Row]
Index == [texts : [File -> Content], dirty : BOOLEAN, search : BOOLEAN,
          found : [File -> Content], rebuilding : BOOLEAN, input : [File -> Content]]

\* Every variable has its type; a writer has a file, and no two have the same.
TypeOK ==
    /\ disk \in Rows
    /\ cache \in Cached
    /\ due \in BOOLEAN
    /\ rd \in Listing
    /\ moved \in SUBSET File
    /\ bumped \in BOOLEAN
    /\ wr \in [Client -> Writer]
    /\ told \in [File -> Content]
    /\ bm \in Index
    /\ writes \in 0..MaxWrites
    /\ edited \in SUBSET File
    /\ managed \in BOOLEAN
    /\ \A c \in Client : wr[c].pc = "idle" \/ wr[c].f \in File
    /\ \A c, d \in Client : c # d /\ wr[c].f # Gone => wr[c].f # wr[d].f

\* A writer of f is between its commit and the end of its cache update.
InFlight(f) == \E c \in Client : wr[c].f = f /\ wr[c].pc \in {"written", "bumped"}

\* A published row that is not what the file holds will be noticed: the next
\* poll sees another fingerprint, or the writer is about to tell the cache.
CacheTruthful ==
    cache.on => \A f \in File : cache.rows[f] # disk[f] => f \in cache.changed \/ InFlight(f)

\* A managed write of a text or an activation count is seen by every list_all
\* after it, without waiting for a poll: only an external edit may hide these from
\* the cache.  (A write of links may: until the next poll, or for good when a
\* touch takes over its fingerprint first.)
ReadsOwnWrites ==
    cache.on => \A f \in File :
        \/ cache.rows[f].text = disk[f].text /\ cache.rows[f].act = disk[f].act
        \/ f \in edited \/ InFlight(f)

\* As long as only editors have written, list_all has registered for embedding
\* every text that it has noticed (docs/OPERATIONS.md: changed bodies are queued
\* again), however often a build had to start over.  An update or a touch ends
\* this: it drops the rows, or takes over the fingerprints, that unnoticed edits
\* would have been compared with.
EditsRequeued ==
    ~managed /\ cache.on /\ rd.pc = "idle" =>
        \A f \in File \ cache.changed : told[f] = disk[f].text

\* As long as the index is not marked dirty it indexes what list_all returns.
\* (Fails when a rebuild finishes after a write.)
SparseFresh ==
    cache.on /\ ~bm.dirty => bm.texts = Texts(cache.rows)

\* Once writes and edits have ended, list_all returns what the files hold.
EventuallyTruthful == <>[](cache.on /\ cache.rows = disk)
=============================================================================

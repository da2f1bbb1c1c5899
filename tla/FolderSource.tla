---------------------------- MODULE FolderSource ----------------------------
(* The rows of some bookmark folders, as the table and an export read them   *)
(* (core/database/result-sources.ts, createFolderResultSource): by windows   *)
(* from a start, each served from the source's cache, from index pages of the*)
(* database, by a walk from a checkpoint the source remembers, or by offset, *)
(* whichever comes first.  Writes change the folders' documents, invalidate  *)
(* the index pages and signal the mutation, for which the table makes a new  *)
(* source; a background build walks the documents and puts the pages.  An    *)
(* export streams the windows of the source it started with, one after the   *)
(* other.                                                                    *)
(*                                                                           *)
(* A window is read at once (ResultWindows has the table that awaits it), the*)
(* counts are the database's, and no page is evicted from the cache.         *)
EXTENDS Naturals, FiniteSets, FiniteSetsExt, Sequences, SequencesExt

CONSTANTS
    Docs,         \* search documents, ordered as their ids
    Folders,      \* bookmark folders
    Chosen,       \* the folders of the source
    Empty,        \* documents whose row cannot be hydrated
    Limit,        \* rows of a window
    PageSize,     \* rows of an index page
    MaxWalk,      \* rows a walk from a checkpoint may skip
    Operations,   \* of "put", "remove", "clear", "backfill"
    MaxWrites,    \* bound on the writes
    MaxExports    \* bound on the exports: 0 or 1

VARIABLES
    at,           \* observed_at_ms of every document, 0 for none
    folder,       \* folder_id
    revision,     \* the revision of the folders' index pages
    pages,        \* the index pages: the rows they list, count and revision
    write,        \* what the current write has to do
    writes,       \* how many there were, which is the time
    source,       \* the table's source: its cache and checkpoints
    build,        \* the background build
    stream        \* the export

db == <<at, folder, revision, pages>>
vars == <<db, write, writes, source, build, stream>>

-----------------------------------------------------------------------------
(* The documents of the folders, newest first, and those after a cursor.     *)
Newer(d, e) == at[d] > at[e] \/ (at[d] = at[e] /\ d > e)
Listed == SetToSortSeq({d \in Docs : at[d] > 0 /\ folder[d] \in Chosen}, Newer)

Start == [at |-> MaxWrites + 1, id |-> 0]
Cursor(d) == [at |-> at[d], id |-> d]
After(c) == SelectSeq(Listed, LAMBDA d : at[d] < c.at \/ (at[d] = c.at /\ d < c.id))

Slice(rows, from) == SubSeq(rows, from + 1, Min({Len(rows), from + Limit}))
Starts == 0..Cardinality(Docs) - 1

NoSource == [cache |-> [i \in 0..2 * Cardinality(Docs) |-> [ids |-> <<>>, more |-> FALSE, kept |-> FALSE]],
             checkpoints |-> [i \in 0..2 * Cardinality(Docs) |->
                               IF i = 0 THEN Start ELSE [at |-> 0, id |-> 0]]]
NoPages == [rows |-> <<>>, count |-> 0, revision |-> 0]
NoBuild == [stage |-> "none", cursor |-> Start, rows |-> <<>>, count |-> 0, revision |-> 0]
NoStream == [stage |-> "none", start |-> 0, out |-> <<>>, own |-> NoSource,
             shares |-> FALSE, still |-> {}]

Init ==
    /\ at = [d \in Docs |-> 1] /\ folder \in [Docs -> Chosen]
    /\ revision = 0 /\ pages = NoPages
    /\ write = <<>> /\ writes = 1
    /\ source = NoSource /\ build = NoBuild /\ stream = NoStream

-----------------------------------------------------------------------------
(* getWindow().                                                              *)
Count == Len(Listed)

(* extGetFolderSourceIndexedPage() needs every page the window may reach, and*)
(* has no cursor unless the window ends with them.                           *)
Indexed(start) ==
    /\ Count > 0 /\ pages.revision = revision /\ pages.count = Count
    /\ ((start + Limit - 1) \div PageSize) * PageSize < Len(pages.rows)
EndsPages(start) ==
    start + Limit >= Min({Len(pages.rows), ((start + Limit - 1) \div PageSize + 1) * PageSize})

Nearest(src, start) ==
    Max({i \in DOMAIN src.checkpoints : i <= start /\ src.checkpoints[i].at > 0})

Remember(src, index, c) == [src EXCEPT !.checkpoints[index] = c]

(* A variant that takes the cursor at the other end.                         *)
CursorBefore(ids) == Cursor(Head(ids))

CursorAfter(ids) == Cursor(Last(ids))

(* The source with the window in its cache, and a checkpoint at its end.     *)
Keep(src, start, ids, more, ends) ==
    LET kept == [src EXCEPT !.cache[start] = [ids |-> ids, more |-> more, kept |-> TRUE]]
    IN IF ids = <<>> \/ ~ends THEN kept
       ELSE Remember(kept, start + Len(ids), CursorAfter(ids))

Walked(src, start) ==
    LET from == Nearest(src, start)
        rows == After(src.checkpoints[from])
        ids == SubSeq(rows, start - from + 1, Min({Len(rows), start - from + Limit}))
    IN Keep(src, start, ids, start + Len(ids) < Count \/ Len(rows) > start - from + Limit, TRUE)

Load(src, start) ==
    IF src.cache[start].kept THEN src
    ELSE IF Indexed(start)
    THEN LET ids == Slice(pages.rows, start)
         IN Keep(src, start, ids, start + Len(ids) < Count, EndsPages(start))
    ELSE IF start - Nearest(src, start) <= MaxWalk THEN Walked(src, start)
    ELSE LET ids == Slice(Listed, start)
         IN Keep(src, start, ids, start + Len(ids) < Count, TRUE)

Window(start) ==
    /\ source' = Load(source, start)
    /\ UNCHANGED <<db, write, writes, build, stream>>

-----------------------------------------------------------------------------
(* Writes.  Most commit, invalidate and signal; a clear signals before it    *)
(* invalidates; the backfill of a folder's name signals inside its           *)
(* transaction, for which the reads of the new source wait.                  *)
(* A variant that invalidates first.                                         *)
StepsInvalidatingFirst(op) == <<"bump", "commit", "signal">>

StepsOf(op) ==
    CASE op \in {"put", "remove"} -> <<"commit", "bump", "signal">>
      [] op = "clear" -> <<"commit", "signal", "bump">>
      [] OTHER -> <<"commit and signal", "bump">>

Begin(op, which, to) ==
    /\ write = <<>> /\ writes < MaxWrites
    /\ writes' = writes + 1
    /\ write' = [i \in DOMAIN StepsOf(op) |-> [do |-> StepsOf(op)[i], op |-> op,
                                               which |-> which, to |-> to]]
    /\ UNCHANGED <<db, source, build, stream>>

Committed(w) ==
    /\ at' = [d \in Docs |->
                IF d \notin w.which THEN at[d]
                ELSE CASE w.op = "put" -> writes
                       [] w.op = "backfill" -> IF at[d] > 0 THEN writes ELSE 0
                       [] OTHER -> 0]
    /\ folder' = [d \in Docs |-> IF w.op = "put" /\ d \in w.which THEN w.to ELSE folder[d]]

(* The export keeps the source it started with.                              *)
Signalled ==
    /\ source' = NoSource
    /\ stream' = IF stream.shares THEN [stream EXCEPT !.own = source, !.shares = FALSE]
                                  ELSE stream

Step ==
    /\ write # <<>>
    /\ LET w == Head(write)
       IN /\ IF w.do \in {"commit", "commit and signal"}
               THEN Committed(w)
               ELSE UNCHANGED <<at, folder>>
          /\ IF w.do = "bump"
               THEN revision' = revision + 1 /\ pages' = NoPages
               ELSE UNCHANGED <<revision, pages>>
          /\ IF w.do \in {"signal", "commit and signal"} THEN Signalled
             ELSE IF w.do = "commit" /\ stream.stage = "reads"
             THEN stream' = [stream EXCEPT !.still = @ \ w.which] /\ UNCHANGED source
             ELSE UNCHANGED <<source, stream>>
    /\ write' = Tail(write)
    /\ UNCHANGED <<writes, build>>

-----------------------------------------------------------------------------
(* buildFolderSourceIndexPages().  It reads a page of documents at a time,   *)
(* compares count and revision with those it began with, and puts the pages. *)
BuildStarts ==
    /\ build = NoBuild /\ Count > 0 /\ pages = NoPages
    /\ build' = [NoBuild EXCEPT !.stage = "walks", !.count = Count, !.revision = revision]
    /\ UNCHANGED <<db, write, writes, source, stream>>

BuildWalks ==
    /\ build.stage = "walks"
    /\ LET rows == After(build.cursor)
           ids == SubSeq(rows, 1, Min({Len(rows), PageSize}))
       IN build' = [build EXCEPT !.rows = @ \o ids,
                                 !.cursor = IF ids = <<>> THEN @ ELSE Cursor(Last(ids)),
                                 !.stage = IF Len(rows) > PageSize THEN @ ELSE "checks"]
    /\ UNCHANGED <<db, write, writes, source, stream>>

Unchanged == build.count = Count /\ build.revision = revision

BuildChecks ==
    /\ build.stage = "checks"
    /\ build' = IF Unchanged THEN [build EXCEPT !.stage = "puts"] ELSE NoBuild
    /\ UNCHANGED <<db, write, writes, source, stream>>

Labelled == [rows |-> build.rows, count |-> build.count, revision |-> build.revision]

BuildPuts ==
    /\ build.stage = "puts"
    /\ pages' = Labelled
    /\ build' = NoBuild
    /\ UNCHANGED <<at, folder, revision, write, writes, source, stream>>

-----------------------------------------------------------------------------
(* streamRows(), as an export runs it.                                       *)
Hydrated(ids) == SelectSeq(ids, LAMBDA d : d \notin Empty)

StreamStarts ==
    /\ stream.stage = "none" /\ MaxExports = 1
    /\ stream' = [NoStream EXCEPT !.stage = "reads", !.shares = TRUE, !.still = Range(Listed)]
    /\ UNCHANGED <<db, write, writes, source, build>>

EndsStream(page) == ~page.more \/ Hydrated(page.ids) = <<>>

StreamReads ==
    /\ stream.stage = "reads"
    /\ LET src == Load(IF stream.shares THEN source ELSE stream.own, stream.start)
           page == src.cache[stream.start]
           next == stream.start + Len(Hydrated(page.ids))
       IN /\ stream' = [stream EXCEPT
                          !.out = @ \o Hydrated(page.ids),
                          !.start = next,
                          !.stage = IF EndsStream(page) THEN "done" ELSE @,
                          !.own = IF stream.shares THEN @ ELSE src]
          /\ source' = IF stream.shares THEN src ELSE source
    /\ UNCHANGED <<db, write, writes, build>>

-----------------------------------------------------------------------------
Next ==
    \/ \E start \in Starts : Window(start)
    \/ \E op \in Operations, which \in SUBSET Docs \ {{}}, to \in Folders :
         Begin(op, IF op = "clear" THEN Docs ELSE which, to)
    \/ Step
    \/ BuildStarts \/ BuildWalks \/ BuildChecks \/ BuildPuts
    \/ StreamStarts \/ StreamReads

Spec == Init /\ [][Next]_vars
FairSpec == Spec /\ WF_vars(Step) /\ WF_vars(StreamReads)

-----------------------------------------------------------------------------
(* Once a write has done all it does, the windows of the table's source are  *)
(* the folders' rows, in their order, and its checkpoints stand where they   *)
(* say: index pages of an older state were served to no source that stays.   *)
(* (docs/db-backed-table-developer-guide.md:85; manager.ts:633)              *)
SourceIsExact ==
    write = <<>> =>
        /\ \A i \in DOMAIN source.cache : source.cache[i].kept => source.cache[i].ids = Slice(Listed, i)
        /\ \A i \in DOMAIN source.checkpoints :
             i > 0 /\ source.checkpoints[i].at > 0 =>
               i <= Count /\ source.checkpoints[i] = Cursor(Listed[i])

(* An export during which nothing is written gives every row of the folders, *)
(* once and in order.  (docs/db-backed-table-developer-guide.md:34)          *)
StreamIsWhole ==
    stream.stage = "done" /\ write = <<>> /\ stream.shares =>
        stream.out = Hydrated(Listed)

=============================================================================

--------------------------- MODULE ResultWindows ---------------------------
(* A table of captures and the database under it.  A write of any tab        *)
(* commits, invalidates the index pages, signals the mutation and publishes  *)
(* the new count, one await after the other (core/database/manager.ts); the  *)
(* table makes a new source for every mutation (result-sources.ts) and loads *)
(* windows of rows from it (hooks.ts, useDbBackedCapturedRecords), while a   *)
(* background build writes index pages that later windows are served from.   *)
(*                                                                           *)
(* A window is one row, and so is a page of the build's walk.  Captures are  *)
(* told apart by their created_at, the newest first.  A read that fails      *)
(* gives nothing and is not modelled; the folder hook differs by its key.    *)
EXTENDS Naturals, FiniteSets, FiniteSetsExt, Sequences, SequencesExt

CONSTANTS
    Captures,     \* captures, as ids
    Tabs,         \* tabs that write
    Self,         \* the tab of the table
    Copies,       \* of another tab's signal: 2, or 1 without BroadcastChannel
    Operations,   \* of "add" (again, too), "remove", "clear"
    MaxChanges,   \* bound on the writes
    MaxScrolls    \* bound on the user's scrolling

ASSUME WindowAssumption ==
    IsFiniteSet(Captures) /\ Self \in Tabs /\ Copies \in 1..2 /\ MaxChanges \in Nat
    /\ Operations \subseteq {"add", "remove", "clear"}

VARIABLES
    created,      \* created_at of every capture, 0 for none
    revision,     \* the revision of the captures' index pages, in localStorage
    counted,      \* the count snapshot in localStorage
    index,        \* the index pages: none, or the rows they list, count, revision
    write,        \* the steps each tab's current write has to take
    changes,      \* how many writes there were
    signals,      \* mutation signals on their way to the table's tab
    build,        \* the background build of index pages
    hook          \* the table

db == <<created, revision, counted, index>>
vars == <<db, write, changes, signals, build, hook>>

-----------------------------------------------------------------------------
(* The captures, newest first, and those after a cursor.                     *)
Present == {c \in Captures : created[c] > 0}
Newer(c, d) == created[c] > created[d]
NewestFirst(S) ==
    [n \in 1..Cardinality(S) |-> CHOOSE c \in S : Cardinality({d \in S : Newer(d, c)}) = n - 1]
Rows == NewestFirst(Present)
RowsAfter(cursor) == NewestFirst({c \in Present : created[c] < cursor})
Count == Cardinality(Present)
Starts == 0..(Cardinality(Captures) - 1)
NoCursor == MaxChanges + Cardinality(Captures) + 1

At(rows, start) == IF start < Len(rows) THEN <<rows[start + 1]>> ELSE <<>>

-----------------------------------------------------------------------------
(* Writes.  A clear lists what it will delete first, and signals the         *)
(* mutation before it invalidates.                                           *)
(* A variant that invalidates first.                                         *)
StepsInvalidatingFirst(op) ==
    IF op = "clear" THEN <<"list", "bump", "delete", "commit", "emit", "publish">>
                    ELSE <<"bump", "delete", "commit", "emit", "publish">>

StepsOf(op) ==
    IF op = "clear" THEN <<"list", "commit", "emit", "bump", "delete", "publish">>
                    ELSE <<"commit", "bump", "delete", "emit", "publish">>

NoWrite == [op |-> "none", captures |-> {}, steps |-> <<>>]

Committed(w) ==
    [c \in Captures |-> IF c \notin w.captures THEN created[c]
                       ELSE IF w.op = "add" THEN 1 + Max(Range(created)) ELSE 0]

(* One step of the write.  Another tab's signal comes through localStorage's *)
(* event and, where there is one, through the broadcast channel too.         *)
Perform(t, w) ==
    LET Is(step) == Head(w.steps) = step
    IN  /\ write' = [write EXCEPT ![t] = IF Len(w.steps) = 1 THEN NoWrite
                                          ELSE [w EXCEPT !.steps = Tail(@)]]
        /\ created' = IF Is("commit") THEN Committed(w) ELSE created
        /\ revision' = IF Is("bump") THEN revision + 1 ELSE revision
        /\ index' = IF Is("delete") THEN {} ELSE index
        /\ counted' = IF Is("publish") THEN Count ELSE counted
        /\ signals' = CASE Is("emit") /\ t = Self -> signals + 1
                        [] Is("emit") /\ t # Self -> signals + Copies
                        [] OTHER -> signals
        /\ UNCHANGED <<build, hook>>

(* enqueueWrite() holds adds back while index pages are put; removals and    *)
(* clears do not go through the queue.  The publication is not awaited, but  *)
(* the tab's next write is taken to come after it.                           *)
Begin(t) ==
    /\ write[t].steps = <<>> /\ changes < MaxChanges
    /\ \E op \in Operations, s \in {Present} \cup {{c} : c \in Captures} :
         /\ op = "add" /\ t = Self => build.stage # "put"
         /\ CASE op = "clear"  -> s = Present
              [] op = "remove" -> Cardinality(s) = 1 /\ s \subseteq Present
              [] op = "add"    -> Cardinality(s) = 1
         /\ Perform(t, [op |-> op, captures |-> s, steps |-> StepsOf(op)])
    /\ changes' = changes + 1

Step(t) ==
    /\ write[t].steps # <<>>
    /\ Perform(t, write[t])
    /\ UNCHANGED changes

-----------------------------------------------------------------------------
(* The build of index pages for a count (extBuildCaptureIndexPages).         *)
NoBuild == [stage |-> "off", count |-> 0, revision |-> 0, rows |-> <<>>, cursor |-> 0]

BuildStarts ==
    /\ build.stage = "due"
    /\ build' = [build EXCEPT !.stage = "walk", !.revision = revision, !.cursor = NoCursor]
    /\ UNCHANGED <<db, write, changes, signals, hook>>

BuildWalks ==
    LET rows == RowsAfter(build.cursor)
    IN  /\ build.stage = "walk"
        /\ build' = IF rows = <<>>
                      THEN [build EXCEPT !.stage = "check"]
                      ELSE [build EXCEPT !.rows = Append(@, Head(rows)),
                                         !.cursor = created[Head(rows)],
                                         !.stage = IF Len(rows) = 1 THEN "check" ELSE "walk"]
        /\ UNCHANGED <<db, write, changes, signals, hook>>

BuildChecks ==
    /\ build.stage = "check"
    /\ build' = IF Count = build.count /\ revision = build.revision
                  THEN [build EXCEPT !.stage = "queued"] ELSE NoBuild
    /\ UNCHANGED <<db, write, changes, signals, hook>>

BuildRechecks ==
    /\ build.stage = "queued"
    /\ write[Self].op = "add" => write[Self].steps = <<"publish">>
    /\ build' = IF revision = build.revision THEN [build EXCEPT !.stage = "put"] ELSE NoBuild
    /\ UNCHANGED <<db, write, changes, signals, hook>>

BuildPuts ==
    /\ build.stage = "put"
    /\ index' = {[rows |-> build.rows, count |-> build.count, revision |-> build.revision]}
    /\ build' = NoBuild
    /\ UNCHANGED <<created, revision, counted, write, changes, signals, hook>>

Served(pages, count) ==                                     \* extGetCaptureIdsIndexedPage
    pages.count = count /\ pages.revision = revision

-----------------------------------------------------------------------------
(* The table.  A key is the version of the mutations and the start of the    *)
(* window; the window of a reload is larger, so its key is another.  A       *)
(* source is kept with its version: its cached windows, and the cursors it   *)
(* knows by their position.                                                  *)
Key(version, start, initial) == [version |-> version, start |-> start, initial |-> initial]
NoKey == Key(0, 0, FALSE)
NewSource == [pages |-> {}, cursors |-> {<<0, NoCursor>>}]

(* Two loads of one key are told apart by a number.                          *)
Another(h, key) ==
    LET used == {load.n : load \in {l \in h.loads : l.key = key}}
    IN  Min(0..Cardinality(used) \ used)

StartLoad(h, key) ==
    [h EXCEPT !.key = key, !.inFlight = TRUE,
              !.loading = @ \/ key.initial, !.loadingWindow = ~key.initial,
              !.loads = @ \cup {[key |-> key, total |-> counted, stage |-> "read",
                                 rows |-> <<>>, after |-> {}, n |-> Another(h, key)]}]

(* loadWindow() of the closure of a version; no key is the empty one.        *)
LoadWindow(h, key) ==
    CASE h.key = key -> h
      [] h.key # key /\ h.inFlight /\ ~key.initial ->
           [h EXCEPT !.key = key, !.queued = {key.start}]
      [] OTHER -> StartLoad(h, key)

Request(h, start) == LoadWindow(h, Key(h.version, start, FALSE))
Reload(h) == LoadWindow([h EXCEPT !.key = NoKey], Key(h.version, 0, TRUE))

(* A mutation signal: a new render makes a new source and new callbacks; the *)
(* effect of the inner table, which asks for what it shows, runs before the  *)
(* reload of the hook.                                                       *)
Rerender ==
    /\ signals > 0
    /\ signals' = signals - 1
    /\ LET h == [hook EXCEPT !.version = @ + 1,
                             !.sources = Append(@, NewSource)]
       IN  hook' = Reload(Request(h, h.view))
    /\ UNCHANGED <<db, write, changes, build>>

Scroll ==
    /\ hook.scrolls < MaxScrolls
    /\ \E start \in Starts \ {hook.view} :
         hook' = Request([hook EXCEPT !.view = start, !.scrolls = @ + 1], start)
    /\ UNCHANGED <<db, write, changes, signals, build>>

(* getWindow(): from the cache, from index pages, or walked from the nearest *)
(* cursor; without index pages, a build is scheduled.                        *)
Nearest(source, start) ==
    CHOOSE p \in source.cursors :
      p[1] <= start /\ \A q \in source.cursors : q[1] <= start => q[1] <= p[1]

Read(load) ==
    LET source == hook.sources[load.key.version]
        cached == {page \in source.pages : page.key = load.key}
        served == {pages \in index : Served(pages, load.total)}
        near   == Nearest(source, load.key.start)
        walked == At(RowsAfter(near[2]), load.key.start - near[1])
        Done(read) == hook' = [hook EXCEPT !.loads = (@ \ {load}) \cup {read}]
        done   == [load EXCEPT !.stage = "done"]
    IN  /\ load.stage = "read"
        /\ \/ /\ \E page \in cached : Done([done EXCEPT !.rows = page.rows, !.total = page.total])
              /\ UNCHANGED build
           \/ /\ cached = {}
              /\ \E pages \in served : Done([done EXCEPT !.rows = At(pages.rows, load.key.start)])
              /\ UNCHANGED build
           \/ /\ cached = {} /\ served = {}
              /\ Done([done EXCEPT !.rows = walked,
                                   !.after = {<<load.key.start + 1, created[c]>> : c \in Range(walked)}])
              /\ build' = IF build.stage = "off" /\ load.total > 0
                            THEN [NoBuild EXCEPT !.stage = "due", !.count = load.total]
                            ELSE build
        /\ UNCHANGED <<db, write, changes, signals>>

(* The end of a load starts the window that was asked for last, with the     *)
(* callback, and so the source, of the load.                                 *)
NextQueued(h, version) ==
    IF h.queued = {} THEN h
    ELSE LET start == CHOOSE s \in h.queued : TRUE
         IN  LoadWindow([h EXCEPT !.queued = {}, !.key = NoKey], Key(version, start, FALSE))

(* A variant that shows every window that comes.                             *)
ArrivedAlways(h, load) ==
    [h EXCEPT !.shown = load.rows, !.total = load.total,
              !.loading = FALSE, !.loadingWindow = FALSE]

Arrived(h, load) ==
    IF h.key # load.key THEN h
    ELSE [h EXCEPT !.shown = load.rows, !.total = load.total,
                   !.loading = FALSE, !.loadingWindow = FALSE]

(* The inner table asks again when the number of rows it shows has changed.  *)
(* A source is gone with the last callback that has it.                      *)
InUse(h, version) ==
    version = h.version \/ \E load \in h.loads : load.key.version = version

Finish(load) ==
    LET kept == [hook EXCEPT !.sources[load.key.version] =
                   [pages |-> @.pages \cup
                      {[key |-> load.key, rows |-> load.rows, total |-> load.total]},
                    cursors |-> {p \in @.cursors : \A q \in load.after : q[1] # p[1]}
                                  \cup load.after]]
        ended == [Arrived(kept, load) EXCEPT !.loads = @ \ {load}, !.inFlight = FALSE]
        queued == NextQueued(ended, load.key.version)
        next == IF queued.total = hook.total THEN queued ELSE Request(queued, queued.view)
    IN  /\ load.stage = "done"
        /\ hook' = [next EXCEPT !.sources = [v \in DOMAIN @ |-> IF InUse(next, v) THEN @[v] ELSE NewSource]]
        /\ UNCHANGED <<db, write, changes, signals, build>>

-----------------------------------------------------------------------------
First == CHOOSE rank \in [Captures -> 1..Cardinality(Captures)] :
           \A c, d \in Captures : rank[c] = rank[d] => c = d
NewHook ==
    [version |-> 1, sources |-> <<NewSource>>, key |-> NoKey, inFlight |-> FALSE,
     queued |-> {}, loads |-> {}, view |-> 0, scrolls |-> 0, shown |-> <<>>,
     total |-> 0, loading |-> TRUE, loadingWindow |-> FALSE]

(* A table is opened on captures whose count was published.                  *)
Init ==
    /\ \E s \in SUBSET Captures :
         created = [c \in Captures |-> IF c \in s THEN First[c] ELSE 0]
    /\ revision = 0 /\ index = {} /\ counted = Count
    /\ write = [t \in Tabs |-> NoWrite]
    /\ changes = 0 /\ signals = 0 /\ build = NoBuild
    /\ hook = Reload(NewHook)

Next ==
    \/ \E t \in Tabs : Begin(t) \/ Step(t)
    \/ BuildStarts \/ BuildWalks \/ BuildChecks \/ BuildRechecks \/ BuildPuts
    \/ Rerender \/ Scroll
    \/ \E load \in hook.loads : Read(load) \/ Finish(load)

Spec == Init /\ [][Next]_vars

-----------------------------------------------------------------------------
(* Nothing runs, and nothing of a write is missing but its count.            *)
Quiet == hook.loads = {}
Settled == signals = 0 /\ \A t \in Tabs : write[t].steps \in {<<>>, <<"publish">>}

(* The flag that keeps windows from overlapping follows the loads: it is     *)
(* never set when none runs, and a window waits only while one does.         *)
TypeOK ==
    /\ created \in [Captures -> 0..NoCursor]
    /\ counted \in 0..Cardinality(Captures) /\ revision \in 0..MaxChanges
    /\ Cardinality(index) <= 1 /\ Cardinality(hook.queued) <= 1
    /\ hook.inFlight => ~Quiet
    /\ hook.queued # {} => ~Quiet
    /\ Len(hook.sources) = hook.version

(* Index pages that would be served list the captures as they are: no write  *)
(* of any tab, and no build that it interrupts, leaves pages of its count    *)
(* and revision behind, not even one that keeps the count.                   *)
(* (manager.ts:1281, extGetCaptureIdsIndexedPage)                            *)
InvalidatedAll == \A t \in Tabs : ~(\E i \in DOMAIN write[t].steps : write[t].steps[i] = "bump")
IndexPagesExact ==
    InvalidatedAll => \A pages \in index : Served(pages, Count) => pages.rows = Rows

(* A table at rest says nothing of loading any more, and if its last window  *)
(* came from its newest source it shows the row that is there, although      *)
(* windows are overtaken, queued or dropped, and come from caches, cursors   *)
(* and index pages that writes overtake.  (result-sources.ts:328, getWindow) *)
RowsAreCurrent ==
    Quiet => /\ ~hook.loading /\ ~hook.loadingWindow
             /\ Settled /\ hook.key.version = hook.version
                    => hook.shown = At(Rows, hook.key.start)

=============================================================================

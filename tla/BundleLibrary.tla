--------------------------- MODULE BundleLibrary ---------------------------
(* The library of imported bundles (core/bundles/importer.ts, legacy.ts,     *)
(* core/database/manager.ts) and the viewer that pages through one of them   *)
(* (components/bundles/bundle-viewer-panel.tsx).  Bundles are imported and   *)
(* deleted in the settings, in the viewer and in other tabs; a write that    *)
(* has committed signals its mutation a little later, in another tab by a    *)
(* message.  The viewer loads its first page anew at each signal and at each *)
(* selection, and one page after another below it.                           *)
(*                                                                           *)
(* A bundle's collection, items and search documents are written and deleted *)
(* with its snapshots, in one transaction; only these are kept here.  A file *)
(* that cannot be read or whose manifest is not valid changes nothing, and   *)
(* an envelope that is not valid is left out of its rows.  The reads of the  *)
(* viewer do not fail.                                                       *)
EXTENDS Naturals, FiniteSets, Sequences

CONSTANTS
    Bundles,
    Files,               \* [bundle, rows]; the files of a bundle may differ
    Writers, Viewer,     \* where bundles are imported and deleted
    InitialPage, NextPage,
    MaxWrites            \* bound: imports and deletions

NoBundle == "none"

ASSUME LibraryAssumption ==
    /\ NoBundle \notin Bundles
    /\ \A file \in Files : file.bundle \in Bundles /\ IsFiniteSet(file.rows)
    /\ InitialPage \in Nat \ {0} /\ NextPage \in Nat \ {0}

VARIABLES
    status,              \* the bundles' rows, "absent" for a bundle without
    stored,              \* snapshots of each bundle
    writer,              \* what each writer is at
    writes,
    selected,            \* selectedBundleId
    stale,               \* the viewer's effect has to run
    load,                \* the effect's reads of the count and the first page
    more,                \* a loadMore() in flight
    shown,               \* records, offset, total and hasMore
    crossed              \* history: the effect ran while a loadMore() was in flight

library == <<status, stored, writer, writes>>
viewer == <<selected, stale, load, more, shown, crossed>>
libraryVars == <<library, viewer>>

Idle == [at |-> "idle", bundle |-> NoBundle, rows |-> {}]
NoLoad == [on |-> FALSE, bundle |-> NoBundle, total |-> {}, page |-> {}]
NoMore == [on |-> FALSE, bundle |-> NoBundle, offset |-> 0, page |-> {}]
NothingShown == [records |-> <<>>, offset |-> 0, total |-> 0, hasMore |-> FALSE]

LibraryInit ==
    /\ status = [b \in Bundles |-> "absent"]
    /\ stored = [b \in Bundles |-> {}]
    /\ writer = [w \in Writers |-> Idle]
    /\ writes = 0
    /\ selected = NoBundle /\ stale = FALSE
    /\ load = NoLoad /\ more = NoMore
    /\ shown = NothingShown /\ crossed = FALSE

-----------------------------------------------------------------------------
(* importBundleZip(): the file says which bundle it is.                      *)
Import(w, file) ==
    /\ writer[w] = Idle /\ writes < MaxWrites
    /\ writer' = [writer EXCEPT ![w] = [at |-> "put", bundle |-> file.bundle, rows |-> file.rows]]
    /\ writes' = writes + 1
    /\ UNCHANGED <<status, stored, viewer>>

(* importLegacyBundleFile(): a bundle of its own for the rows of a file.     *)
ImportLegacy(w, rows) ==
    /\ writer[w] = Idle /\ writes < MaxWrites
    /\ \E b \in Bundles :
         /\ status[b] = "absent" /\ b # selected
         /\ \A other \in Writers : writer[other].bundle # b
         /\ writer' = [writer EXCEPT ![w] = [at |-> "put", bundle |-> b, rows |-> rows]]
    /\ writes' = writes + 1
    /\ UNCHANGED <<status, stored, viewer>>

(* bundlePutImportBatch().  A transaction that fails is logged, no more.     *)
Put(w) ==
    /\ writer[w].at = "put"
    /\ \/ /\ status' = [status EXCEPT ![writer[w].bundle] = "importing"]
          /\ stored' = [stored EXCEPT ![writer[w].bundle] = @ \union writer[w].rows]
       \/ UNCHANGED <<status, stored>>
    /\ writer' = [writer EXCEPT ![w].at = "told"]
    /\ UNCHANGED <<writes, viewer>>

(* bundleDelete()                                                            *)
Delete(w, b) ==
    /\ writer[w] = Idle /\ writes < MaxWrites
    /\ writer' = [writer EXCEPT ![w] = [Idle EXCEPT !.at = "delete", !.bundle = b]]
    /\ writes' = writes + 1
    /\ UNCHANGED <<status, stored, viewer>>

Deletes(w) ==
    /\ writer[w].at = "delete"
    /\ \/ /\ status' = [status EXCEPT ![writer[w].bundle] = "absent"]
          /\ stored' = [stored EXCEPT ![writer[w].bundle] = {}]
       \/ UNCHANGED <<status, stored>>
    /\ writer' = [writer EXCEPT ![w].at = "deleted"]
    /\ UNCHANGED <<writes, viewer>>

(* A variant that does not signal a deletion.                                *)
TellsOfImports(w) == stale' = (stale \/ writer[w].at = "told")

(* The index pages are invalidated, then the mutation is emitted.            *)
Tells(w) == stale' = TRUE

(* The viewer selects what it has imported and leaves what it has deleted.   *)
Selects(w, b) == selected' = IF w = Viewer THEN b ELSE selected

Emit(w) ==
    /\ writer[w].at \in {"told", "deleted"}
    /\ IF writer[w].at = "told"
         THEN writer' = [writer EXCEPT ![w].at = "mark"] /\ UNCHANGED selected
         ELSE writer' = [writer EXCEPT ![w] = Idle] /\ Selects(w, NoBundle)
    /\ Tells(w)
    /\ UNCHANGED <<status, stored, writes, load, more, shown, crossed>>

(* bundleMarkReady(): an update, of a bundle that is still there.            *)
Mark(w) ==
    /\ writer[w].at = "mark"
    /\ \/ status' = [status EXCEPT ![writer[w].bundle] = IF @ = "absent" THEN @ ELSE "ready"]
       \/ UNCHANGED status
    /\ writer' = [writer EXCEPT ![w] = Idle]
    /\ Selects(w, writer[w].bundle)
    /\ stale' = TRUE
    /\ UNCHANGED <<stored, writes, load, more, shown, crossed>>

-----------------------------------------------------------------------------
(* The viewer.                                                               *)
Select(b) ==
    /\ b # selected /\ (b # NoBundle => status[b] # "absent")
    /\ selected' = b /\ stale' = TRUE
    /\ UNCHANGED <<library, load, more, shown, crossed>>

(* useBundleRecords(): the effect gives up what an earlier one was loading.  *)
Effect ==
    /\ stale
    /\ stale' = FALSE
    /\ shown' = NothingShown
    /\ load' = IF selected = NoBundle THEN NoLoad
               ELSE [NoLoad EXCEPT !.on = TRUE, !.bundle = selected]
    /\ crossed' = (crossed \/ more.on)
    /\ UNCHANGED <<library, selected, more>>

Newest(b) ==
    [n \in 1..Cardinality(stored[b]) |->
       CHOOSE row \in stored[b] : Cardinality({newer \in stored[b] : newer > row}) = n - 1]
Page(b, offset, limit) ==
    LET rows == Newest(b)
        end == IF offset + limit < Len(rows) THEN offset + limit ELSE Len(rows)
    IN  [i \in 1..(IF offset < end THEN end - offset ELSE 0) |-> <<b, rows[offset + i]>>]

(* The two are read in transactions of their own.                            *)
ReadCount ==
    /\ load.on /\ load.total = {}
    /\ load' = [load EXCEPT !.total = {Cardinality(stored[load.bundle])}]
    /\ UNCHANGED <<library, selected, stale, more, shown, crossed>>

ReadPage ==
    /\ load.on /\ load.page = {}
    /\ load' = [load EXCEPT !.page = {Page(load.bundle, 0, InitialPage)}]
    /\ UNCHANGED <<library, selected, stale, more, shown, crossed>>

LoadEnds ==
    /\ load.on
    /\ \E total \in load.total, page \in load.page :
         shown' = [records |-> page, offset |-> Len(page), total |-> total,
                   hasMore |-> Len(page) < total]
    /\ load' = NoLoad
    /\ UNCHANGED <<library, selected, stale, more, crossed>>

(* loadMore(), when the table nears its end or to warm it.                   *)
MoreStarts ==
    /\ ~more.on /\ selected # NoBundle /\ ~load.on
    /\ shown.hasMore /\ (shown.total > 0 => shown.offset < shown.total)
    /\ more' = [NoMore EXCEPT !.on = TRUE, !.bundle = selected, !.offset = shown.offset]
    /\ UNCHANGED <<library, selected, stale, load, shown, crossed>>

MoreReads ==
    /\ more.on /\ more.page = {}
    /\ more' = [more EXCEPT !.page = {Page(more.bundle, more.offset, NextPage)}]
    /\ UNCHANGED <<library, selected, stale, load, shown, crossed>>

(* Whatever is shown by then goes on with the page.                          *)
MoreEnds ==
    /\ more.on
    /\ \E page \in more.page :
         LET records == shown.records \o page
         IN  shown' = [records |-> records, offset |-> shown.offset + Len(page),
                       total |-> IF shown.total < Len(records) THEN Len(records) ELSE shown.total,
                       hasMore |-> Len(page) >= NextPage]
    /\ more' = NoMore
    /\ UNCHANGED <<library, selected, stale, load, crossed>>

LibraryNext ==
    \/ \E w \in Writers : \/ \E file \in Files : Import(w, file) \/ ImportLegacy(w, file.rows)
                          \/ \E b \in Bundles : Delete(w, b)
                          \/ Put(w) \/ Deletes(w) \/ Emit(w) \/ Mark(w)
    \/ \E b \in Bundles \union {NoBundle} : Select(b)
    \/ Effect \/ ReadCount \/ ReadPage \/ LoadEnds \/ MoreStarts \/ MoreReads \/ MoreEnds

LibrarySpec == LibraryInit /\ [][LibraryNext]_libraryVars

-----------------------------------------------------------------------------
Quiet == /\ ~stale /\ ~load.on /\ ~more.on
         /\ \A w \in Writers : writer[w].at \notin {"told", "deleted"}

(* When nothing is on its way, the viewer shows the newest rows of the       *)
(* bundle that is selected, each once, and all of them when it says there    *)
(* are no more: whatever was imported and deleted between its reads          *)
(* (bundle-viewer-panel.tsx, useBundleRecords).  A page that was asked for   *)
(* before a new load and arrives after it is added to that load's rows; the  *)
(* property is about the other histories.                                    *)
ViewerShowsBundle ==
    Quiet /\ ~crossed =>
        IF selected = NoBundle THEN shown = NothingShown
        ELSE /\ shown.records = Page(selected, 0, Len(shown.records))
             /\ shown.hasMore \/ Len(shown.records) = Cardinality(stored[selected])
=============================================================================

---------------------------- MODULE ResultExport ----------------------------
(* The selection of a table and the exports of its rows (components/table,   *)
(* components/modals/export-data.tsx).  Rows are selected by exception (mode *)
(* "all") or one by one ("explicit").  The modal streams rows of the source  *)
(* into a file, into a bundle by a worker, or asks the companion for one, and*)
(* keeps in one reference per sort of export what Cancel must stop.  A page  *)
(* of rows is awaited from the database, so that an export that was cancelled*)
(* goes on until its next row arrives.                                       *)
(*                                                                           *)
(* A stream is taken to give the rows of its source at the click;            *)
(* FolderSource has how it pages through a source that changes.              *)
EXTENDS Naturals, FiniteSets, TLC

CONSTANTS
    Rows,         \* rows the source can have, finitely many
    MaxRuns       \* bound: exports at once

Runs == 1..MaxRuns

VARIABLES
    result,       \* the rows of the result set, and of these
    loaded,       \* those in the table's window (currentResultIds)
    mode,         \* selectionMode
    picked,       \* rowSelection
    modal,        \* the open modal and its scope
    loading,      \* loading and bundleLoading
    ref,          \* exportAbortRef and bundleAbortRef
    runs,         \* the exports
    file          \* history: the file this step saved

exportVars == <<result, loaded, mode, picked, modal, loading, ref, runs, file>>
table == <<result, loaded>>
selection == <<mode, picked>>

Closed == [open |-> FALSE, scope |-> "result_set"]
Sort(kind) == IF kind = "data" THEN "data" ELSE "bundle"
NoRun == [kind |-> "none", todo |-> {}, skip |-> {}, got |-> {},
          of |-> {}, want |-> {}, aborted |-> FALSE]

ExportInit ==
    /\ result \in SUBSET Rows /\ loaded \in SUBSET result
    /\ mode = "all" /\ picked = {}
    /\ modal = Closed
    /\ loading = [s \in {"data", "bundle"} |-> FALSE]
    /\ ref = [s \in {"data", "bundle"} |-> 0]
    /\ runs = [n \in Runs |-> NoRun]
    /\ file = NoRun

-----------------------------------------------------------------------------
(* Captures, removals, another query and another window.                     *)
Changes ==
    /\ result' \in SUBSET Rows /\ loaded' \in SUBSET result'
    /\ file' = NoRun /\ UNCHANGED <<selection, modal, loading, ref, runs>>

Shown(r) == IF mode = "all" THEN r \notin picked ELSE r \in picked  \* isResultRowSelected

Toggled(r) == IF r \in picked THEN picked \ {r} ELSE picked \cup {r}

(* A click on a row's box.  In mode "explicit" the selection becomes "all"   *)
(* when every row of the window is in it.                                    *)
toggleResultRowSelected(r) ==
    /\ ~modal.open /\ r \in loaded
    /\ picked' = Toggled(r)
    /\ mode' = IF mode = "all" \/ loaded \subseteq Toggled(r) THEN "all" ELSE "explicit"
    /\ file' = NoRun /\ UNCHANGED <<table, modal, loading, ref, runs>>

(* A click on the box of the header.                                         *)
toggleAllResultRowsSelected ==
    /\ ~modal.open
    /\ picked' = {}
    /\ mode' = IF mode = "all"
                 THEN IF picked = {} THEN "explicit" ELSE "all"
                 ELSE IF loaded # {} /\ loaded \subseteq picked THEN "explicit" ELSE "all"
    /\ file' = NoRun /\ UNCHANGED <<table, modal, loading, ref, runs>>

-----------------------------------------------------------------------------
Open ==
    /\ ~modal.open
    /\ modal' = [open |-> TRUE,
                 scope |-> IF mode = "explicit" /\ loaded \cap picked # {}
                             THEN "selected" ELSE "result_set"]
    /\ file' = NoRun /\ UNCHANGED <<table, selection, loading, ref, runs>>

Close ==
    /\ modal.open
    /\ modal' = Closed
    /\ file' = NoRun /\ UNCHANGED <<table, selection, loading, ref, runs>>

ChooseScope ==
    /\ modal.open
    /\ modal' = [modal EXCEPT !.scope = IF @ = "result_set" THEN "selected" ELSE "result_set"]
    /\ modal'.scope = "selected" => mode = "explicit" /\ picked # {}
    /\ file' = NoRun /\ UNCHANGED <<table, selection, loading, ref, runs>>

(* A variant that skips what is in rowSelection, whatever the mode.          *)
SkipPicked == IF modal.scope = "result_set" THEN picked ELSE {}

Skipped == IF modal.scope = "result_set" /\ mode = "all" THEN picked ELSE {}

Source == IF modal.scope = "selected" /\ mode = "explicit" THEN picked ELSE result

canExport == \/ modal.scope = "result_set" /\ Cardinality(result) > Cardinality(Skipped)
             \/ modal.scope = "selected" /\ mode = "explicit" /\ picked # {}

(* onExport(), onExportBundle(), onExportCompanionBundle().                  *)
Start(n, kind) ==
    /\ modal.open /\ ~loading[Sort(kind)]
    /\ runs[n] = NoRun /\ \A m \in Runs : m < n => runs[m] # NoRun
    /\ kind # "companion" => canExport
    /\ loading' = [loading EXCEPT ![Sort(kind)] = TRUE]
    /\ ref' = [ref EXCEPT ![Sort(kind)] = n]
    /\ runs' = [runs EXCEPT ![n] =
                  [kind |-> kind, aborted |-> FALSE, got |-> {}, of |-> result,
                   todo |-> IF kind = "companion" THEN {} ELSE Source,
                   skip |-> IF kind = "companion" THEN {} ELSE Skipped,
                   want |-> IF mode = "all" \/ modal.scope = "selected"
                              THEN {r \in result : Shown(r)} ELSE result]]
    /\ file' = NoRun /\ UNCHANGED <<table, selection, modal>>

Running(n) == runs[n] # NoRun
Save(n) == file' = runs[n]

(* What an export does in the end, whichever is in the reference by then.    *)
SettleExport(n) ==
    /\ runs' = [runs EXCEPT ![n] = NoRun]
    /\ ref' = [ref EXCEPT ![Sort(runs[n].kind)] = 0]
    /\ loading' = [loading EXCEPT ![Sort(runs[n].kind)] = FALSE]

ReturnOnAbort(n) == SettleExport(n) /\ file' = NoRun

(* exportDataFromAsyncRows() looks at the signal when a row arrives.  A row  *)
(* that is skipped does not arrive.                                          *)
Read(n) ==
    /\ Running(n) /\ runs[n].todo # {}
    /\ \E r \in runs[n].todo :
         IF r \notin runs[n].skip /\ runs[n].aborted
           THEN ReturnOnAbort(n)
           ELSE /\ runs' = [runs EXCEPT ![n].todo = @ \ {r},
                                        ![n].got = @ \cup ({r} \ runs[n].skip)]
                /\ file' = NoRun /\ UNCHANGED <<loading, ref>>
    /\ UNCHANGED <<table, selection, modal>>

(* The rows are at their end.  The companion's bundle looks at the signal    *)
(* once more; the worker of the other has been stopped.                      *)
SavesAtEnd(n) == runs[n].kind = "data" \/ ~runs[n].aborted

End(n) ==
    /\ Running(n) /\ runs[n].todo = {}
    /\ SettleExport(n)
    /\ IF SavesAtEnd(n) THEN Save(n) ELSE file' = NoRun
    /\ UNCHANGED <<table, selection, modal>>

Fail(n) ==
    /\ Running(n)
    /\ SettleExport(n)
    /\ file' = NoRun /\ UNCHANGED <<table, selection, modal>>

(* onCancel().  It stops the export to a file if one is shown, or else the   *)
(* bundle, or else closes the modal.  The job of a worker is at its end with *)
(* it.                                                                       *)
Cancelled(s) ==
    [n \in Runs |-> IF n # ref[s] THEN runs[n]
                    ELSE IF runs[n].kind = "bundle"
                    THEN NoRun
                    ELSE [runs[n] EXCEPT !.aborted = TRUE]]

Cancel ==
    /\ modal.open
    /\ \E s \in {"data", "bundle"} :
         /\ loading[s] /\ (s = "bundle" => ~loading["data"])
         /\ runs' = Cancelled(s)
         /\ ref' = [ref EXCEPT ![s] = 0]
         /\ loading' = [loading EXCEPT ![s] = FALSE]
    /\ file' = NoRun /\ UNCHANGED <<table, selection, modal>>

ExportNext ==
    \/ Changes
    \/ \E r \in Rows : toggleResultRowSelected(r)
    \/ toggleAllResultRowsSelected
    \/ Open \/ Close \/ ChooseScope \/ Cancel
    \/ \E n \in Runs : \/ \E kind \in {"data", "bundle", "companion"} : Start(n, kind)
                       \/ Read(n) \/ End(n) \/ Fail(n)

ExportSpec == ExportInit /\ [][ExportNext]_exportVars

-----------------------------------------------------------------------------
(* A file of rows that is saved has, of the rows in the result set at the    *)
(* click, those whose boxes were on, or all where that was chosen: whatever  *)
(* selections, cancellations and other exports there were; and a bundle that *)
(* was cancelled is not saved.                                               *)
(* (export-data.tsx:347, :657, shouldSkipResultSetRow; exporter.ts:147)      *)
SavedIsWhole ==
    /\ file.kind # "companion" => file.got \cap file.of = file.want
    /\ file.kind # "data" => ~file.aborted
=============================================================================

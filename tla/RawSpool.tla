------------------------------ MODULE RawSpool ------------------------------
(* The spool of raw capture events (modules/raw-capture/api.ts): an IndexedDB*)
(* store that all tabs of the site share.  Each tab puts the events of its   *)
(* own responses there, prunes the oldest rows beyond a limit, and sends     *)
(* batches of the rows that are due to a daemon, which takes some of them.   *)
(* Every access is a transaction of its own, so that the work of the tabs,   *)
(* and of several captures in one tab, interleaves between any two.          *)
(*                                                                           *)
(* Events are numbered in the order they are created, which is the order of  *)
(* the store's created_at index.  Of next_retry_at there remains whether a   *)
(* row still waits.                                                          *)
EXTENDS Integers, FiniteSets

CONSTANTS
    SpoolTabs,
    NoTab,
    EventCount,   \* bound: events captured
    Poison,       \* events the daemon never takes
    MaxRows,      \* RAW_SPOOL_MAX_ROWS
    BatchSize     \* RAW_SPOOL_FLUSH_BATCH_SIZE

ASSUME SpoolAssumption ==
    /\ EventCount \in Nat /\ MaxRows \in Nat /\ BatchSize \in Nat
    /\ NoTab \notin SpoolTabs

Events == 1..EventCount

VARIABLES
    streaming,    \* isDaemonStreamingEnabled()
    rows,         \* the events in the store
    waiting,      \* of these, those whose next_retry_at is to come
    put,          \* the capture of each event: its tab until it ends, stage, drop count
    flush,        \* flushSpoolToDaemon() of each tab
    maintain,     \* maintainSpoolBounds() of each tab
    timer,        \* the tabs with a flush interval
    connection,   \* spoolDbPromise and spoolUnavailableUntil of each tab
    settled,      \* events the daemon has taken, or an OK answer that names no
                  \* event was given for
    dropped       \* events pruned, or cleared by the user

spoolVars ==
    <<streaming, rows, waiting, put, flush, maintain, timer, connection, settled, dropped>>

Uncaptured == [tab |-> NoTab, stage |-> "none", drop |-> 0]
Ended(stage) == [Uncaptured EXCEPT !.stage = stage]
Resting == [stage |-> "idle", rows |-> {}, accepted |-> {}]
NoPrune == [stage |-> "idle", drop |-> 0]

RowsLeave(S) == rows' = rows \ S /\ waiting' = waiting \ S

SpoolInit ==
    /\ streaming = TRUE
    /\ rows = {} /\ waiting = {}
    /\ put = [e \in Events |-> Uncaptured]
    /\ flush = [t \in SpoolTabs |-> Resting]
    /\ maintain = [t \in SpoolTabs |-> NoPrune]
    /\ timer = {}
    /\ connection = [t \in SpoolTabs |-> "none"]
    /\ settled = {} /\ dropped = {}

-----------------------------------------------------------------------------
(* RawCaptureInterceptor: the loop is synchronized with the setting, and the *)
(* event goes to the spool if it streams and the spool is not unavailable.   *)
CaptureEvent(t, e) ==
    /\ \A d \in Events : (put[d].stage = "none") <=> d >= e
    /\ timer' = IF streaming THEN timer \cup {t} ELSE timer \ {t}
    /\ put' = [put EXCEPT ![e] =
                 IF streaming /\ connection[t] # "failed"
                 THEN [tab |-> t, stage |-> "put", drop |-> 0] ELSE Ended("unspooled")]
    /\ UNCHANGED <<streaming, rows, waiting, flush, maintain, connection, settled, dropped>>

(* enqueueSpoolEvent(): the row is put, the rows are counted, and in another *)
(* transaction as many of the oldest are deleted as there were too many.     *)
Put(e) ==
    LET t == put[e].tab
    IN  /\ put[e].stage = "put" /\ connection[t] # "failed"
        /\ connection' = [connection EXCEPT ![t] = "open"]
        /\ rows' = rows \cup {e} /\ waiting' = waiting \ {e}
        /\ put' = [put EXCEPT ![e].stage = "count"]
        /\ UNCHANGED <<streaming, flush, maintain, timer, settled, dropped>>

TooMany == Cardinality(rows) - MaxRows              \* spoolPruneOldest

Oldest(n) == {e \in rows : Cardinality({d \in rows : d < e}) < n}

Count(e) ==
    /\ put[e].stage = "count"
    /\ put' = [put EXCEPT ![e] =
                 IF TooMany > 0 THEN [tab |-> put[e].tab, stage |-> "prune", drop |-> TooMany]
                 ELSE Ended("spooled")]
    /\ UNCHANGED <<streaming, rows, waiting, flush, maintain, timer, connection, settled, dropped>>

Prune(e) ==
    /\ put[e].stage = "prune"
    /\ RowsLeave(Oldest(put[e].drop))
    /\ dropped' = dropped \cup Oldest(put[e].drop)
    /\ put' = [put EXCEPT ![e] = Ended("spooled")]
    /\ UNCHANGED <<streaming, flush, maintain, timer, connection, settled>>

(* maintainSpoolBounds(), at every eighth firing of the interval.            *)
Maintain(t) ==
    /\ t \in timer /\ maintain[t].stage = "idle" /\ connection[t] # "failed"
    /\ TooMany > 0
    /\ maintain' = [maintain EXCEPT ![t] = [stage |-> "prune", drop |-> TooMany]]
    /\ UNCHANGED <<streaming, rows, waiting, put, flush, timer, connection, settled, dropped>>

MaintainPrune(t) ==
    /\ maintain[t].stage = "prune"
    /\ RowsLeave(Oldest(maintain[t].drop))
    /\ dropped' = dropped \cup Oldest(maintain[t].drop)
    /\ maintain' = [maintain EXCEPT ![t] = NoPrune]
    /\ UNCHANGED <<streaming, put, flush, timer, connection, settled>>

-----------------------------------------------------------------------------
(* flushSpoolToDaemon(): the interval fires, or a capture calls it.  One that*)
(* is in flight makes the next return.  The rows are counted, and listed     *)
(* after that.                                                               *)
Fire(t) ==
    /\ t \in timer
    /\ \/ /\ flush[t].stage = "idle" /\ connection[t] # "failed"
          /\ rows # {}
          /\ flush' = [flush EXCEPT ![t].stage = "list"]
          /\ connection' = [connection EXCEPT ![t] = "open"]
       \/ /\ flush[t].stage # "idle" \/ connection[t] = "failed" \/ rows = {}
          /\ UNCHANGED <<flush, connection>>
    /\ UNCHANGED <<streaming, rows, waiting, put, maintain, timer, settled, dropped>>

(* A variant that lists rows before they are due.                            *)
AnyRow == rows

DueRows == rows \ waiting                           \* spoolListFlushBatch

List(t) ==
    LET first == {e \in DueRows : Cardinality({d \in DueRows : d <= e}) <= BatchSize}
    IN  /\ flush[t].stage = "list"
        /\ flush' = [flush EXCEPT ![t] =
                       IF ~streaming \/ first = {} THEN Resting
                       ELSE [stage |-> "sent", rows |-> first, accepted |-> {}]]
        /\ UNCHANGED <<streaming, rows, waiting, put, maintain, timer, connection, settled, dropped>>

(* A variant that takes an answer for the whole batch.                       *)
AnswerIsAll(t, S) == flush[t].rows

(* sendBatchToDaemon(): the identities an OK answer names are accepted.      *)
AcceptedIds(t, S) == S

Accept(t, S) ==
    /\ flush[t].stage = "sent"
    /\ S # {} /\ S \subseteq flush[t].rows \ Poison
    /\ settled' = settled \cup S
    /\ flush' = [flush EXCEPT ![t].stage = "delete", ![t].accepted = AcceptedIds(t, S)]
    /\ UNCHANGED <<streaming, rows, waiting, put, maintain, timer, connection, dropped>>

(* One that names none, or that is no JSON, stands for the whole batch,      *)
(* whatever the daemon has taken of it.                                      *)
AcceptUnnamed(t) ==
    /\ flush[t].stage = "sent"
    /\ settled' = settled \cup flush[t].rows
    /\ flush' = [flush EXCEPT ![t].stage = "delete", ![t].accepted = flush[t].rows]
    /\ UNCHANGED <<streaming, rows, waiting, put, maintain, timer, connection, dropped>>

AcceptAll(t) == Accept(t, flush[t].rows \ Poison)

(* The answer is not OK, or some is taken and the answer is lost.            *)
Fail(t) ==
    /\ flush[t].stage = "sent"
    /\ \E S \in SUBSET (flush[t].rows \ Poison) : settled' = settled \cup S
    /\ flush' = [flush EXCEPT ![t].stage = "restore"]
    /\ UNCHANGED <<streaming, rows, waiting, put, maintain, timer, connection, dropped>>

Answer(t) == Fail(t) \/ AcceptUnnamed(t) \/ \E S \in SUBSET Events : Accept(t, S)

Refused(t) == flush[t].rows \ flush[t].accepted

(* The rows accepted are deleted, and in another transaction the copies of   *)
(* those refused are put, whatever the store holds by then.                  *)
Delete(t) ==
    /\ flush[t].stage = "delete"
    /\ RowsLeave(flush[t].accepted)
    /\ flush' = [flush EXCEPT ![t] =
                   IF Refused(t) = {} THEN Resting ELSE [flush[t] EXCEPT !.stage = "update"]]
    /\ UNCHANGED <<streaming, put, maintain, timer, connection, settled, dropped>>

PutBack(S) == rows' = rows \cup S /\ waiting' = waiting \cup S   \* spoolUpdateRecords

Update(t) ==
    /\ flush[t].stage = "update"
    /\ PutBack(Refused(t))
    /\ flush' = [flush EXCEPT ![t] = Resting]
    /\ UNCHANGED <<streaming, put, maintain, timer, connection, settled, dropped>>

(* When one of the two fails, and after a failed request, the whole batch is *)
(* put back, with the rows that were accepted and deleted; or not even that. *)
TransactionFails(t) ==
    /\ flush[t].stage \in {"delete", "update"}
    /\ flush' = [flush EXCEPT ![t].stage = "restore", ![t].accepted = {}]
    /\ UNCHANGED <<streaming, rows, waiting, put, maintain, timer, connection, settled, dropped>>

RestoreBatch(t) ==
    /\ flush[t].stage = "restore"
    /\ PutBack(flush[t].rows)
    /\ flush' = [flush EXCEPT ![t] = Resting]
    /\ UNCHANGED <<streaming, put, maintain, timer, connection, settled, dropped>>

RestoreBatchFails(t) ==
    /\ flush[t].stage = "restore"
    /\ flush' = [flush EXCEPT ![t] = Resting]
    /\ UNCHANGED <<streaming, rows, waiting, put, maintain, timer, connection, settled, dropped>>

-----------------------------------------------------------------------------
(* openSpoolDb() fails in a tab that has no connection yet: what waits for it*)
(* is given up, and for a minute the tab does not try again.                 *)
GiveUp(t) ==
    [e \in Events |->
       CASE put[e].tab = t /\ put[e].stage = "put" -> Ended("unspooled")
         [] put[e].tab = t /\ put[e].stage \in {"count", "prune"} -> Ended("spooled")
         [] OTHER -> put[e]]

OpenFails(t) ==
    /\ connection[t] = "none"
    /\ \E e \in Events : put[e].tab = t /\ put[e].stage = "put"
    /\ connection' = [connection EXCEPT ![t] = "failed"]
    /\ put' = GiveUp(t)
    /\ UNCHANGED <<streaming, rows, waiting, flush, maintain, timer, settled, dropped>>

OpenAgain(t) ==
    /\ connection[t] = "failed"
    /\ connection' = [connection EXCEPT ![t] = "none"]
    /\ UNCHANGED <<streaming, rows, waiting, put, flush, maintain, timer, settled, dropped>>

(* The tab is closed, or loaded again, in the middle of whatever it does.    *)
CloseTab(t) ==
    /\ timer' = timer \ {t}
    /\ connection' = [connection EXCEPT ![t] = "none"]
    /\ put' = GiveUp(t)
    /\ flush' = [flush EXCEPT ![t] = Resting]
    /\ maintain' = [maintain EXCEPT ![t] = NoPrune]
    /\ UNCHANGED <<streaming, rows, waiting, settled, dropped>>

(* The user's setting, and the clearing of the spool.                        *)
Toggle ==
    /\ streaming' = ~streaming
    /\ UNCHANGED <<rows, waiting, put, flush, maintain, timer, connection, settled, dropped>>

ClearSpool ==
    /\ rows # {} /\ RowsLeave(rows)
    /\ dropped' = dropped \cup rows
    /\ UNCHANGED <<streaming, put, flush, maintain, timer, connection, settled>>

(* The wait of a row is over.                                                *)
Due(e) ==
    /\ e \in waiting
    /\ waiting' = waiting \ {e}
    /\ UNCHANGED <<streaming, rows, put, flush, maintain, timer, connection, settled, dropped>>

Work(t) ==
    \/ Fire(t) \/ List(t) \/ Delete(t) \/ Update(t) \/ RestoreBatch(t)
    \/ Maintain(t) \/ MaintainPrune(t)

SpoolNext ==
    \/ \E t \in SpoolTabs : \/ \E e \in Events : CaptureEvent(t, e)
                       \/ Work(t)
                       \/ Answer(t) \/ TransactionFails(t) \/ RestoreBatchFails(t)
                       \/ OpenFails(t) \/ OpenAgain(t) \/ CloseTab(t)
    \/ \E e \in Events : Put(e) \/ Count(e) \/ Prune(e) \/ Due(e)
    \/ Toggle \/ ClearSpool

(* Timers fire and transactions and requests come to an end; a daemon that   *)
(* is asked again and again takes what it can in the end, and a transaction  *)
(* that is tried again and again succeeds.  A row that was refused twice     *)
(* waits longer, up to a minute, than the 2.5 seconds of the flush interval: *)
(* the interval fires while it waits.                                        *)
Turn(e) == e \in DueRows /\ Poison \cap rows \subseteq waiting

SpoolFairness ==
    /\ \A t \in SpoolTabs :
         /\ WF_spoolVars(Fire(t)) /\ WF_spoolVars(List(t)) /\ WF_spoolVars(Answer(t))
         /\ \A e \in Events : SF_spoolVars(Turn(e) /\ Fire(t)) /\ SF_spoolVars(Turn(e) /\ List(t))
         /\ WF_spoolVars(Maintain(t)) /\ WF_spoolVars(MaintainPrune(t))
         /\ WF_spoolVars(OpenAgain(t))
         /\ SF_spoolVars(AcceptAll(t)) /\ SF_spoolVars(Delete(t))
         /\ SF_spoolVars(Update(t)) /\ SF_spoolVars(RestoreBatch(t))
    /\ \A e \in Events : WF_spoolVars(Due(e))

SpoolSpec == SpoolInit /\ [][SpoolNext]_spoolVars
SpoolFairSpec == SpoolSpec /\ SpoolFairness

-----------------------------------------------------------------------------
FlushType ==
    \A t \in SpoolTabs :
        /\ flush[t].stage \in {"idle", "list", "sent", "delete", "update", "restore"}
        /\ flush[t].rows \subseteq Events
        /\ flush[t].accepted \subseteq flush[t].rows

(* Every row, and every flush, has its type.                                 *)
SpoolTypeOK ==
    /\ waiting \subseteq rows /\ rows \subseteq Events
    /\ FlushType
    /\ timer \subseteq SpoolTabs
    /\ settled \cup dropped \subseteq Events

(* An event that reached the spool leaves it only when the daemon has taken  *)
(* it, when an OK answer of the daemon to its batch has named no event, or   *)
(* as one of the oldest of a spool beyond its limit, whatever partial        *)
(* answers, flushes of other tabs, failures and closed pages do to its row.  *)
(* (raw-capture/api.ts:1750, flushSpoolToDaemon)                             *)
Spooled(e) == put[e].stage \in {"count", "prune", "spooled"}
NothingLost == \A e \in Events : Spooled(e) => e \in rows \cup settled \cup dropped

(* A tab's interval runs, and its spool can be opened.                       *)
Runs(t) == t \in timer /\ connection[t] # "failed"

(* As long as one tab streams, every row the daemon would take leaves the    *)
(* spool, whatever rows it refuses again and again stand before it.          *)
(* (raw-capture/api.ts:1300, spoolListFlushBatch)                            *)
RowsAreDelivered ==
    \A t \in SpoolTabs : <>[](Runs(t) /\ streaming)
                      => \A e \in Events \ Poison : []<>(e \notin rows)
=============================================================================

----------------------------- MODULE BundleJob -----------------------------
(* The export of a bundle by a worker (core/bundles/export-worker-client.ts, *)
(* export-worker.ts, exporter.ts).  The page reads the rows of a source in   *)
(* batches and posts one whenever the worker has asked for it; the worker    *)
(* builds the record of a row after the other, asks for more when it has     *)
(* none, and at the end posts the file.  Messages of a side arrive in order. *)
(* A settled job has terminated its worker, which takes all messages with it.*)
EXTENDS Naturals, Sequences

CONSTANTS
    Totals,       \* numbers of rows a source can have
    BatchSize     \* BUNDLE_EXPORT_WORKER_BATCH_SIZE

VARIABLES
    total,        \* rows of the source, 1..total
    sender,       \* the page's loop: where it is, the rows read and unsent
    ready,        \* the worker has asked and was not answered yet
    job,          \* the job in the worker: the rows it has, and is at
    toWorker, toPage,
    outcome, saved

vars == <<total, sender, ready, job, toWorker, toPage, outcome, saved>>
page == <<sender, ready>>

NoJob == [at |-> "none", rows |-> <<>>, row |-> 0, built |-> <<>>,
          finished |-> FALSE, waiting |-> FALSE]

Init ==
    /\ total \in Totals
    /\ sender = [at |-> "new", read |-> 0, batch |-> <<>>]
    /\ ready = FALSE
    /\ job = NoJob
    /\ toWorker = <<>> /\ toPage = <<>>
    /\ outcome = "pending" /\ saved = <<>>

Pending == outcome = "pending"

Settle(how) ==
    /\ outcome' = how
    /\ job' = NoJob /\ toWorker' = <<>> /\ toPage' = <<>>

-----------------------------------------------------------------------------
(* The page.                                                                 *)
Start ==
    /\ Pending /\ sender.at = "new"
    /\ sender' = [sender EXCEPT !.at = "rows"]
    /\ toWorker' = <<[type |-> "start"]>>
    /\ UNCHANGED <<total, ready, job, toPage, outcome, saved>>

(* The worker cannot be made: the loop never runs.                           *)
NoWorker ==
    /\ Pending /\ sender.at = "new"
    /\ sender' = [sender EXCEPT !.at = "end"]
    /\ Settle("failed") /\ UNCHANGED <<total, ready, saved>>

ReadRow ==
    /\ Pending /\ sender.at = "rows" /\ sender.read < total
    /\ LET batch == Append(sender.batch, sender.read + 1)
       IN  sender' = [at |-> IF Len(batch) < BatchSize THEN "rows" ELSE "chunk",
                      read |-> sender.read + 1, batch |-> batch]
    /\ UNCHANGED <<total, ready, job, toWorker, toPage, outcome, saved>>

SourceEnds ==
    /\ Pending /\ sender.at = "rows" /\ sender.read = total
    /\ sender' = [sender EXCEPT !.at = IF sender.batch = <<>> THEN "finish" ELSE "last"]
    /\ UNCHANGED <<total, ready, job, toWorker, toPage, outcome, saved>>

SourceThrows ==
    /\ Pending /\ sender.at = "rows"
    /\ sender' = [sender EXCEPT !.at = "end"]
    /\ Settle("failed") /\ UNCHANGED <<total, ready, saved>>

(* waitForReadyForChunk(): an answer for each time the worker asked, whether *)
(* it asked before the page waits or after.                                  *)
Send ==
    /\ Pending /\ sender.at \in {"chunk", "last", "finish"} /\ ready
    /\ ready' = FALSE
    /\ toWorker' = Append(toWorker, IF sender.at = "finish" THEN [type |-> "finish"]
                                    ELSE [type |-> "chunk", rows |-> sender.batch])
    /\ sender' = [sender EXCEPT !.batch = <<>>,
                                !.at = CASE sender.at = "chunk" -> "rows"
                                         [] sender.at = "last" -> "finish"
                                         [] OTHER -> "end"]
    /\ UNCHANGED <<total, job, toPage, outcome, saved>>

(* The loop of a settled job returns when its row or its turn comes.         *)
Return ==
    /\ ~Pending /\ sender.at # "end"
    /\ sender' = [sender EXCEPT !.at = "end"]
    /\ UNCHANGED <<total, ready, job, toWorker, toPage, outcome, saved>>

(* worker.onmessage                                                          *)
Hear ==
    /\ Pending /\ toPage # <<>>
    /\ LET message == Head(toPage)
       IN  CASE message.type = "ready" ->
                    /\ ready' = TRUE
                    /\ toPage' = Tail(toPage)
                    /\ UNCHANGED <<job, toWorker, outcome, saved>>
             [] message.type = "error" ->
                    Settle("failed") /\ UNCHANGED <<ready, saved>>
             [] message.type = "done" ->
                    /\ saved' = message.file
                    /\ Settle("saved") /\ UNCHANGED ready
    /\ UNCHANGED <<total, sender>>

Cancel ==
    /\ Pending /\ sender.at # "new"
    /\ Settle("cancelled") /\ UNCHANGED <<total, page, saved>>

-----------------------------------------------------------------------------
(* The worker.                                                               *)
Woken == IF job.at = "asleep" THEN "pull" ELSE job.at

(* A variant that still counts as waiting when it is answered.               *)
AnsweredWaiting(rows) == [job EXCEPT !.rows = @ \o rows, !.at = Woken]

Answered(rows) == [job EXCEPT !.rows = @ \o rows, !.at = Woken, !.waiting = FALSE]

Take(message) ==
    CASE message.type = "start" -> [NoJob EXCEPT !.at = "pull"]
      [] job.at = "none" -> job
      [] message.type = "finish" -> [job EXCEPT !.finished = TRUE, !.at = Woken]
      [] OTHER -> Answered(message.rows)

(* self.onmessage                                                            *)
Receive ==
    /\ Pending /\ toWorker # <<>>
    /\ job' = Take(Head(toWorker))
    /\ toWorker' = Tail(toWorker)
    /\ UNCHANGED <<total, page, toPage, outcome, saved>>

(* streamJobRows(): the next row, or the end, or a question and sleep.       *)
Pull ==
    /\ job.at = "pull"
    /\ CASE job.rows # <<>> ->
                /\ job' = [job EXCEPT !.at = "row", !.row = Head(job.rows),
                                      !.rows = Tail(job.rows)]
                /\ UNCHANGED toPage
         [] job.rows = <<>> /\ job.finished ->
                job' = [job EXCEPT !.at = "zip"] /\ UNCHANGED toPage
         [] OTHER ->
                /\ job' = [job EXCEPT !.at = "asleep", !.waiting = TRUE]
                /\ toPage' = IF job.waiting THEN toPage
                             ELSE Append(toPage, [type |-> "ready"])
    /\ UNCHANGED <<total, page, toWorker, outcome, saved>>

(* createCanonicalBundleZipFromRows(): the record of a row, and the file.    *)
BuildRow ==
    /\ job.at = "row"
    /\ job' = [job EXCEPT !.at = "pull", !.built = Append(@, job.row)]
    /\ UNCHANGED <<total, page, toWorker, toPage, outcome, saved>>

Zip ==
    /\ job.at = "zip"
    /\ toPage' = Append(toPage, [type |-> "done", file |-> job.built])
    /\ job' = NoJob
    /\ UNCHANGED <<total, page, toWorker, outcome, saved>>

BuildFails ==
    /\ job.at \in {"row", "zip"}
    /\ toPage' = Append(toPage, [type |-> "error"])
    /\ job' = NoJob
    /\ UNCHANGED <<total, page, toWorker, outcome, saved>>

(* worker.onerror                                                            *)
WorkerDies ==
    /\ Pending /\ sender.at # "new"
    /\ Settle("failed") /\ UNCHANGED <<total, page, saved>>

Works == \/ Start \/ ReadRow \/ SourceEnds \/ Send \/ Return \/ Hear
         \/ Receive \/ Pull \/ BuildRow \/ Zip

Next == Works \/ NoWorker \/ SourceThrows \/ Cancel \/ BuildFails \/ WorkerDies

(* The source gives its rows, messages arrive, and both sides run.           *)
Spec == Init /\ [][Next]_vars /\ WF_vars(Works)

-----------------------------------------------------------------------------
(* The export comes to its end, by failure, by cancellation or with a file   *)
(* that has every row of the source once and in order: the two sides never   *)
(* wait for each other (waitForReadyForChunk, waitForRows), and no batch is  *)
(* lost, sent twice or overtaken.                                            *)
JobEndsWhole ==
    <>[](\/ outcome \in {"failed", "cancelled"}
         \/ outcome = "saved" /\ saved = [i \in 1..total |-> i])
=============================================================================

--------------------------- MODULE DeliveryPipeline ---------------------------
(***************************************************************************)
(* How a database operation of the userscript becomes durable: route() of  *)
(* the DurabilityCoordinator in each tab, the outbox those tabs share in   *)
(* IndexedDB (outbox.ts), the companion client over HTTP, and the          *)
(* companion's archive (CanonicalArchive).                                 *)
(*                                                                         *)
(* A tab runs one route() at a time (the operation lease), so its state is *)
(* a program counter whose values are the awaits at which another tab, the *)
(* companion or a crash can come between.  An exchange with the companion  *)
(* is a request on the tab's wire and an answer in its place; a request    *)
(* the tab has given up on may still arrive later.                         *)
(***************************************************************************)
EXTENDS Integers, Sequences, FiniteSets

CONSTANTS
  Tabs,           \* the tabs of one browser profile, paired once
  Ops,            \* durable operations: one call of the database proxy each
  NoOp,           \* a call that yields no mutation, or no call at all
  MutationsOf,    \* the mutations buildMutations() makes of each operation
  Stream,         \* the paired client id with its epoch
  Keys, MutationIds, NoRecord,   \* as in CanonicalArchive
  History,        \* batches committed before this pairing: by other browsers, by restores
  NoMessage,      \* an idle wire
  OutboxBound,    \* max_mutations of the outbox
  Failures,       \* the IndexedDB operations that may fail
  MaxSequence,    \* bound: the highest client sequence a batch starts with
  MaxCrashes      \* bound: how often tabs are reloaded or killed

VARIABLES
  \* one per tab
  pc,          \* the await route() is at
  doing,       \* the operation it runs
  next,        \* nextClientSequence
  known,       \* checkpoint
  queue,       \* the pending rows replayInternal() has yet to send
  sending,     \* the row of the operation itself
  wire,        \* the exchange with the companion
  \* shared by the tabs
  outbox,      \* the outbox table
  storedNext,  \* metadata next_client_sequence; 1 stands for no value
  stopped,     \* metadata stopped
  \* the surroundings
  late,        \* requests that were given up on and may still arrive
  outcome,     \* how the caller's promise for each operation settled
  crashes,
  \* the archive
  admitted, lastSeq, journal, stateRecords, receipts, checkpoints, head,
  retainedFrom

browserVars == <<pc, doing, next, known, queue, sending>>
outboxVars == <<outbox, storedNext, stopped>>
archiveVars == <<admitted, lastSeq, journal, stateRecords, receipts, checkpoints,
                 head, retainedFrom>>
vars == <<browserVars, wire, outboxVars, late, outcome, crashes, archiveVars>>

\* An operation that yields no mutation is a NoOp; batches and mutations are named by
\* random UUIDs (randomId), also those of the other clients.
ASSUME OperationsAssumption ==
  /\ NoOp \notin Ops
  /\ \A o \in Ops : MutationsOf[o] \in Seq([mid : MutationIds, key : Keys,
                                             kind : {"upsert", "tombstone"}])
  /\ \A o \in Ops : MutationsOf[o] # <<>>
  /\ \A o, p \in Ops : \A i \in DOMAIN MutationsOf[o], j \in DOMAIN MutationsOf[p] :
       MutationsOf[o][i].mid = MutationsOf[p][j].mid => o = p /\ i = j

Batch(o, n) == [id |-> o, client |-> Stream, from |-> n, muts |-> MutationsOf[o]]

Archive == INSTANCE CanonicalArchive WITH
  Clients <- {Stream} \union {History[i].client : i \in DOMAIN History},
  Batches <- {Batch(o, n) : o \in Ops, n \in 1..MaxSequence}
               \union {History[i] : i \in DOMAIN History}

ASSUME HistoryAssumption ==
  /\ History \in Seq({History[i] : i \in DOMAIN History})
  /\ \A i \in DOMAIN History :
       /\ Archive!WellFormed(History[i])
       /\ History[i].id \notin Ops
       /\ History[i].client # Stream
       /\ \A o \in Ops : \A j \in DOMAIN MutationsOf[o], k \in DOMAIN History[i].muts :
            MutationsOf[o][j].mid # History[i].muts[k].mid

ASSUME RecordAssumption == NoRecord \notin [kind : Archive!Kinds, seq : Nat]

-----------------------------------------------------------------------------
\* Rows of the outbox.  A row keeps the immutable request: the batch and the
\* checkpoint that was known when it was built.
Request(r) == [batch |-> r.batch, cp |-> r.cp]

PendingRows == {r \in outbox : r.status = "pending"}

QuarantinedRows == {r \in outbox : r.status = "quarantined"}

PendingRequests == {Request(r) : r \in PendingRows}

\* A variant that lists the table without sorting it.
ListedInAnyOrder(R) ==
  {s \in [1..Cardinality(R) -> R] : \A i, j \in DOMAIN s : i < j => s[i] # s[j]}

\* listAllPending: sorted by client_sequence_from; equal ones in any order.
Listed(R) ==
  {s \in [1..Cardinality(R) -> R] :
     \A i, j \in DOMAIN s :
       i < j => s[i] # s[j] /\ s[i].batch.from <= s[j].batch.from}

\* usage(): the mutations of pending and quarantined rows count against the bound.
MutationsHeld ==
  Cardinality(UNION {{<<r.batch.id, i>> : i \in 1..Len(r.batch.muts)} : r \in outbox})

Fits(b) == MutationsHeld + Len(b.muts) <= OutboxBound

\* A variant that deletes what the client has sent, not the one row.
WithoutClient(b) == {r \in outbox : r.batch.client # b.client}

Without(b) == {r \in outbox : r.batch.id # b.id}

Larger(m, n) == IF m > n THEN m ELSE n

\* A variant that trusts the metadata alone.
NextStored(stored, R) == stored

\* max(storedNext, 1, client_sequence_to + 1 of every pending row)
NextAfter(stored, R) ==
  CHOOSE n \in {stored} \union {Archive!To(r.batch) + 1 : r \in R} :
    \A m \in {stored} \union {Archive!To(r.batch) + 1 : r \in R} : m <= n

Unknown == Archive!NoCheckpoint

At(t, place) == pc[t] = place

Goto(t, place) == pc' = [pc EXCEPT ![t] = place]

\* The promise of route() settles and the lease is released.
Settle(t, how) ==
  /\ outcome' = IF doing[t] = NoOp THEN outcome ELSE [outcome EXCEPT ![doing[t]] = how]
  /\ doing' = [doing EXCEPT ![t] = NoOp]
  /\ queue' = [queue EXCEPT ![t] = <<>>]
  /\ Goto(t, "idle")

-----------------------------------------------------------------------------
Init ==
  /\ pc = [t \in Tabs |-> "idle"]
  /\ doing = [t \in Tabs |-> NoOp]
  /\ next = [t \in Tabs |-> 1]
  /\ known = [t \in Tabs |-> Unknown]
  /\ queue = [t \in Tabs |-> <<>>]
  /\ sending = [t \in Tabs |-> NoMessage]
  /\ wire = [t \in Tabs |-> NoMessage]
  /\ outbox = {}
  /\ storedNext = 1
  /\ stopped = FALSE
  /\ late = {}
  /\ outcome = [o \in Ops |-> "new"]
  /\ crashes = 0
  /\ Archive!Init

\* Before this browser is paired, others commit, and a restore, which is a client of
\* its own, leaves tombstones for what its snapshot does not hold.
Earlier ==
  /\ Stream \notin admitted
  /\ Len(head.chain) < Len(History)
  /\ LET b == History[Len(head.chain) + 1]
     IN  Archive!AdmitClient(b.client) \/ Archive!Commit(b, Unknown)
  /\ UNCHANGED <<browserVars, wire, outboxVars, late, outcome, crashes>>

\* The companion admits the client it is paired with, before any coordinator of
\* that pairing runs.  Nothing, or all of History, has happened before.
Pair ==
  /\ admitted = {} \/ Len(head.chain) >= Len(History)
  /\ Archive!AdmitClient(Stream)
  /\ UNCHANGED <<browserVars, wire, outboxVars, late, outcome, crashes>>

-----------------------------------------------------------------------------
\* route(), initialize(): the lease is taken and the outbox inspected.  A stopped
\* outbox, or one with a quarantined row, stops the stream and rejects the call.
Route(t, o) ==
  /\ At(t, "idle")
  /\ Stream \in admitted
  /\ IF stopped \/ QuarantinedRows # {}
     THEN /\ stopped' = TRUE
          /\ outcome' = IF o = NoOp THEN outcome ELSE [outcome EXCEPT ![o] = "rejected"]
          /\ UNCHANGED <<pc, doing>>
     ELSE /\ doing' = [doing EXCEPT ![t] = o]
          /\ Goto(t, "hello")
          /\ UNCHANGED <<stopped, outcome>>
  /\ o # NoOp => outcome[o] = "new" /\ \A u \in Tabs : doing[u] # o
  /\ UNCHANGED <<next, known, queue, sending, wire, outbox, storedNext, late, crashes,
                 archiveVars>>

\* initialize(): capabilities, health and checkpoint are read from the companion.
Hello(t) ==
  /\ At(t, "hello")
  /\ known' = [known EXCEPT ![t] = head]
  /\ Goto(t, "stored")
  /\ UNCHANGED <<doing, next, queue, sending, wire, outboxVars, late, outcome, crashes,
                 archiveVars>>

\* initialize() throws when one of them cannot be had, and route() with it.
HelloFails(t) ==
  /\ At(t, "hello")
  /\ Settle(t, "unreachable")
  /\ UNCHANGED <<next, known, sending, wire, outboxVars, late, crashes, archiveVars>>

\* A variant that never goes back behind what the tab has in memory.
ReadLargerNext(t) ==
  /\ At(t, "stored")
  /\ next' = [next EXCEPT ![t] = Larger(next[t], storedNext)]
  /\ Goto(t, "pending")
  /\ UNCHANGED <<doing, known, queue, sending, wire, outboxVars, late, outcome, crashes,
                 archiveVars>>

\* initialize(): the sequence of an earlier call that was not admitted is used again.
ReadStoredNext(t) ==
  /\ At(t, "stored")
  /\ next' = [next EXCEPT ![t] = storedNext]
  /\ Goto(t, "pending")
  /\ UNCHANGED <<doing, known, queue, sending, wire, outboxVars, late, outcome, crashes,
                 archiveVars>>

\* listAllPending and a second look at usage(), at the end of initialize().
ReadPending(t) ==
  /\ At(t, "pending")
  /\ next' = [next EXCEPT ![t] = NextAfter(next[t], PendingRows)]
  /\ IF stopped \/ QuarantinedRows # {}
     THEN Settle(t, "rejected")
     ELSE /\ Goto(t, "list")
          /\ UNCHANGED <<doing, queue, outcome>>
  /\ UNCHANGED <<known, sending, wire, outboxVars, late, crashes, archiveVars>>

\* replayInternal(): the rows to replay are listed once.
ListPending(t) ==
  /\ At(t, "list")
  /\ \E s \in Listed(PendingRequests) : queue' = [queue EXCEPT ![t] = s]
  /\ Goto(t, "replay")
  /\ UNCHANGED <<doing, next, known, sending, wire, outboxVars, late, outcome, crashes,
                 archiveVars>>

\* commitExact(): the row's request goes to the companion.
SendReplay(t) ==
  /\ At(t, "replay")
  /\ queue[t] # <<>>
  /\ wire' = [wire EXCEPT ![t] = [kind |-> "request", request |-> Head(queue[t])]]
  /\ Goto(t, "replaying")
  /\ UNCHANGED <<doing, next, known, queue, sending, outboxVars, late, outcome, crashes,
                 archiveVars>>

-----------------------------------------------------------------------------
\* The companion.  It handles a request in one transaction; the answer carries the
\* receipt's checkpoint, a stored one for a batch it already knows.
CheckpointOf(id) ==
  LET r == Archive!Receipt(id) IN [seq |-> r.to, chain |-> r.chain]

Handle(request) ==
  IF Archive!Answer(request.batch, request.cp) = "committed"
  THEN Archive!Commit(request.batch, request.cp)
  ELSE UNCHANGED archiveVars

\* A variant that does not recognise a batch sent again.
AnswerOnce(request) ==
  IF Archive!Answer(request.batch, request.cp) = "committed"
  THEN [kind |-> "receipt", cp |-> Archive!HeadAfter(request.batch)]
  ELSE [kind |-> "refusal"]

AnswerTo(request) ==
  CASE Archive!Answer(request.batch, request.cp) = "committed" ->
         [kind |-> "receipt", cp |-> Archive!HeadAfter(request.batch)]
    [] Archive!Answer(request.batch, request.cp) = "duplicate" ->
         [kind |-> "receipt", cp |-> CheckpointOf(request.batch.id)]
    [] OTHER -> [kind |-> "refusal"]

Serve(t) ==
  /\ wire[t] # NoMessage
  /\ wire[t].kind = "request"
  /\ wire' = [wire EXCEPT ![t] = AnswerTo(wire[t].request)]
  /\ Handle(wire[t].request)
  /\ UNCHANGED <<browserVars, outboxVars, late, outcome, crashes>>

\* A request that its tab no longer waits for arrives; nobody reads the answer.
ServeLate(request) ==
  /\ request \in late
  /\ late' = late \ {request}
  /\ Handle(request)
  /\ UNCHANGED <<browserVars, wire, outboxVars, outcome, crashes>>

\* A timeout, a broken connection, a busy companion: the tab gives up on the
\* exchange.  A request not served yet is lost, or arrives later.
Disconnect(t) ==
  /\ wire[t] # NoMessage
  /\ wire' = [wire EXCEPT ![t] = NoMessage]
  /\ late' \in {late} \union (IF wire[t].kind = "request"
                              THEN {late \union {wire[t].request}} ELSE {})

Received(t, kind) == wire[t] # NoMessage /\ wire[t].kind = kind

-----------------------------------------------------------------------------
\* What acknowledge(), in one IndexedDB transaction, and applyReceipt() do.
Acknowledge(t, b) ==
  /\ outbox' = Without(b)
  /\ storedNext' = Archive!To(b) + 1
  /\ known' = [known EXCEPT ![t] = wire[t].cp]
  /\ next' = [next EXCEPT ![t] = Larger(next[t], Archive!To(b) + 1)]
  /\ wire' = [wire EXCEPT ![t] = NoMessage]

\* acknowledgeReceipt() cannot write: the stream stops, in the outbox too if that
\* can be written, and the call is rejected although its batch is committed.
AcknowledgeFails(t) ==
  /\ "acknowledge" \in Failures
  /\ Received(t, "receipt")
  /\ wire' = [wire EXCEPT ![t] = NoMessage]
  /\ stopped' \in {stopped, TRUE}
  /\ Settle(t, "rejected")
  /\ UNCHANGED <<next, known, sending, outbox, storedNext, late, crashes, archiveVars>>

\* quarantine(): first the row, in one transaction, then (Stop) the stream.
Quarantine(t, b) ==
  /\ Received(t, "refusal")
  /\ outbox' = {IF r.batch.id = b.id THEN [r EXCEPT !.status = "quarantined"] ELSE r :
                  r \in outbox}
  /\ wire' = [wire EXCEPT ![t] = NoMessage]
  /\ Goto(t, "stopping")
  /\ UNCHANGED <<doing, next, known, queue, sending, storedNext, stopped, late, outcome,
                 crashes, archiveVars>>

QuarantineFails(t) ==
  /\ "quarantine" \in Failures
  /\ Received(t, "refusal")
  /\ wire' = [wire EXCEPT ![t] = NoMessage]
  /\ Settle(t, "rejected")
  /\ UNCHANGED <<next, known, sending, outboxVars, late, crashes, archiveVars>>

Stop(t) ==
  /\ At(t, "stopping")
  /\ stopped' = TRUE
  /\ Settle(t, "rejected")
  /\ UNCHANGED <<next, known, sending, wire, outbox, storedNext, late, crashes, archiveVars>>

\* replayInternal() goes on with the next row, ...
ReplayAcknowledged(t) ==
  /\ At(t, "replaying")
  /\ Received(t, "receipt")
  /\ Acknowledge(t, Head(queue[t]).batch)
  /\ queue' = [queue EXCEPT ![t] = Tail(queue[t])]
  /\ Goto(t, "replay")
  /\ UNCHANGED <<doing, sending, stopped, late, outcome, crashes, archiveVars>>

\* ... or leaves this row and the later ones pending; the call itself goes on.
ReplayRetryable(t) ==
  /\ At(t, "replaying")
  /\ Disconnect(t)
  /\ queue' = [queue EXCEPT ![t] = <<>>]
  /\ Goto(t, "replay")
  /\ UNCHANGED <<doing, next, known, sending, outboxVars, outcome, crashes, archiveVars>>

ReplayRefused(t) ==
  /\ At(t, "replaying")
  /\ Quarantine(t, Head(queue[t]).batch)

-----------------------------------------------------------------------------
\* A call that yields no mutation writes locally once the replay is over.
NothingToSend(t) ==
  /\ At(t, "replay")
  /\ queue[t] = <<>>
  /\ doing[t] = NoOp
  /\ Goto(t, "project")
  /\ UNCHANGED <<doing, next, known, queue, sending, wire, outboxVars, late, outcome, crashes,
                 archiveVars>>

\* buildMutations(), createRequest() and the usage() check of admit().
Build(t) ==
  LET b == Batch(doing[t], next[t]) IN
  /\ At(t, "replay")
  /\ queue[t] = <<>>
  /\ doing[t] # NoOp
  /\ next[t] <= MaxSequence
  /\ next' = [next EXCEPT ![t] = Archive!To(b) + 1]
  /\ IF stopped \/ ~ Fits(b)
     THEN /\ stopped' = TRUE
          /\ Settle(t, "rejected")
          /\ UNCHANGED sending
     ELSE /\ sending' = [sending EXCEPT ![t] = [batch |-> b, cp |-> known[t]]]
          /\ Goto(t, "add")
          /\ UNCHANGED <<doing, queue, stopped, outcome>>
  /\ UNCHANGED <<known, wire, outbox, storedNext, late, crashes, archiveVars>>

\* admit(): the row is added.
Add(t) ==
  /\ At(t, "add")
  /\ outbox' = outbox \union
                 {[batch |-> sending[t].batch, cp |-> sending[t].cp, status |-> "pending"]}
  /\ Goto(t, "setnext")
  /\ UNCHANGED <<doing, next, known, queue, sending, wire, storedNext, stopped, late,
                 outcome, crashes, archiveVars>>

AddFails(t) ==
  /\ "add" \in Failures
  /\ At(t, "add")
  /\ stopped' \in {stopped, TRUE}
  /\ Settle(t, "rejected")
  /\ UNCHANGED <<next, known, sending, wire, outbox, storedNext, late, crashes, archiveVars>>

\* setMetadata('next_client_sequence')
SetNext(t) ==
  /\ At(t, "setnext")
  /\ storedNext' = next[t]
  /\ Goto(t, "choose")
  /\ UNCHANGED <<doing, next, known, queue, sending, wire, outbox, stopped, late, outcome,
                 crashes, archiveVars>>

\* The row is in the outbox, but the call is rejected.
SetNextFails(t) ==
  /\ "setMetadata" \in Failures
  /\ At(t, "setnext")
  /\ Settle(t, "rejected")
  /\ UNCHANGED <<next, known, sending, wire, outboxVars, late, crashes, archiveVars>>

\* A variant that sends the row whatever waits before it.
SendAtOnce(t) ==
  /\ At(t, "choose")
  /\ wire' = [wire EXCEPT ![t] = [kind |-> "request", request |-> sending[t]]]
  /\ Goto(t, "sent")
  /\ UNCHANGED <<doing, next, known, queue, sending, outboxVars, late, outcome, crashes,
                 archiveVars>>

\* The row is sent only when it is the oldest pending one; otherwise it is queued
\* behind the older ones.
Choose(t) ==
  /\ At(t, "choose")
  /\ \E s \in Listed(PendingRequests) :
       IF s # <<>> /\ s[1].batch.id = sending[t].batch.id
       THEN /\ wire' = [wire EXCEPT ![t] = [kind |-> "request", request |-> sending[t]]]
            /\ Goto(t, "sent")
       ELSE /\ Goto(t, "project")
            /\ UNCHANGED wire
  /\ UNCHANGED <<doing, next, known, queue, sending, outboxVars, late, outcome, crashes,
                 archiveVars>>

SentAcknowledged(t) ==
  /\ At(t, "sent")
  /\ Received(t, "receipt")
  /\ Acknowledge(t, sending[t].batch)
  /\ Goto(t, "project")
  /\ UNCHANGED <<doing, queue, sending, stopped, late, outcome, crashes, archiveVars>>

SentRetryable(t) ==
  /\ At(t, "sent")
  /\ Disconnect(t)
  /\ Goto(t, "project")
  /\ UNCHANGED <<doing, next, known, queue, sending, outboxVars, outcome, crashes,
                 archiveVars>>

SentRefused(t) ==
  /\ At(t, "sent")
  /\ Quarantine(t, sending[t].batch)

\* The row is acknowledged, but the usage() read after it rejects, which is handled as a
\* refusal: there is no row left to quarantine, and the stream stops.
SentUsageFails(t) ==
  /\ "usage" \in Failures
  /\ At(t, "sent")
  /\ Received(t, "receipt")
  /\ Acknowledge(t, sending[t].batch)
  /\ Goto(t, "stopping")
  /\ UNCHANGED <<doing, queue, sending, stopped, late, outcome, crashes, archiveVars>>

\* noteRetry() cannot write the attempt: the call is rejected, the row stays pending.
RetryNotNoted(t) ==
  /\ "markAttempt" \in Failures
  /\ pc[t] \in {"replaying", "sent"}
  /\ Disconnect(t)
  /\ Settle(t, "rejected")
  /\ UNCHANGED <<next, known, sending, outboxVars, crashes, archiveVars>>

\* localProjection(): the operation's own write to the browser's database.
Project(t) ==
  /\ At(t, "project")
  /\ Settle(t, "resolved")
  /\ UNCHANGED <<next, known, sending, wire, outboxVars, late, crashes, archiveVars>>

ProjectFails(t) ==
  /\ "localWrite" \in Failures
  /\ At(t, "project")
  /\ Settle(t, "rejected")
  /\ UNCHANGED <<next, known, sending, wire, outboxVars, late, crashes, archiveVars>>

\* A read of the outbox, or the write of its stop, rejects, and route() with it.
OutboxFails(t) ==
  /\ "read" \in Failures
  /\ \/ pc[t] \in {"stored", "pending", "list", "choose", "stopping"}
     \/ At(t, "replay") /\ queue[t] = <<>>
  /\ Settle(t, "rejected")
  /\ UNCHANGED <<next, known, sending, wire, outboxVars, late, crashes, archiveVars>>

\* The tab is reloaded or killed: its memory and its wire are gone.
Crash(t) ==
  /\ crashes < MaxCrashes
  /\ ~ At(t, "idle")
  /\ crashes' = crashes + 1
  /\ Settle(t, "lost")
  /\ next' = [next EXCEPT ![t] = 1]
  /\ known' = [known EXCEPT ![t] = Unknown]
  /\ sending' = [sending EXCEPT ![t] = NoMessage]
  /\ IF wire[t] = NoMessage THEN UNCHANGED <<wire, late>> ELSE Disconnect(t)
  /\ UNCHANGED <<outboxVars, archiveVars>>

-----------------------------------------------------------------------------
Step(t) ==
  \/ Hello(t) \/ HelloFails(t) \/ ReadStoredNext(t) \/ ReadPending(t) \/ ListPending(t)
  \/ SendReplay(t) \/ ReplayAcknowledged(t) \/ ReplayRetryable(t) \/ ReplayRefused(t)
  \/ NothingToSend(t) \/ Build(t) \/ Add(t) \/ AddFails(t) \/ SetNext(t) \/ SetNextFails(t)
  \/ Choose(t) \/ SentAcknowledged(t) \/ SentRetryable(t) \/ SentRefused(t)
  \/ SentUsageFails(t) \/ RetryNotNoted(t) \/ AcknowledgeFails(t) \/ QuarantineFails(t)
  \/ Stop(t) \/ Project(t) \/ ProjectFails(t) \/ OutboxFails(t)

Next ==
  \/ Earlier
  \/ Pair
  \/ \E t \in Tabs :
       \/ \E o \in Ops \union {NoOp} : Route(t, o)
       \/ Step(t)
       \/ Serve(t)
       \/ Crash(t)
  \/ \E r \in late : ServeLate(r)

Spec == Init /\ [][Next]_vars

\* Every tab goes on with a call it has begun (promises settle: every request has
\* a timeout), the userscript keeps calling, and the companion is not unreachable
\* for ever: of endlessly many exchanges some succeed.
Fairness ==
  /\ WF_vars(Pair)
  /\ \A t \in Tabs :
       /\ WF_vars(Step(t))
       /\ WF_vars(Route(t, NoOp))
       /\ SF_vars(Hello(t))
       /\ SF_vars(Serve(t))
       /\ SF_vars(ReplayAcknowledged(t))

FairSpec == Spec /\ Fairness

-----------------------------------------------------------------------------
Places == {"idle", "hello", "stored", "pending", "list", "replay", "replaying", "add",
           "setnext", "choose", "sent", "project", "stopping"}

Committed(b) == \E r \in receipts : r.batch = b

Unsent == {r.batch : r \in {x \in PendingRows : ~ Committed(x.batch)}}

Claimed == {b \in {r.batch : r \in outbox \union receipts} : b.client = Stream}

\* An operation whose promise resolved is safe: its batch is still in the outbox or
\* the companion has committed it (route() admits to the outbox before anything else,
\* and only an acknowledged receipt removes a row).
ResolvedIsKept ==
  \A o \in Ops : outcome[o] = "resolved" => \E b \in Claimed : b.id = o

\* "The contiguous ordering assigned by one paired browser client epoch" (CONTEXT.md,
\* Client sequence): no sequence of the stream is assigned to two batches.
SequencesAssignedOnce ==
  \A b, c \in Claimed :
    b # c => Archive!To(b) < c.from \/ Archive!To(c) < b.from

\* What the outbox holds and the companion has not committed continues the archive's
\* stream without a gap, so that FIFO replay can drain it: the rows start at
\* last_client_seq + 1, and none is assigned past a refused one that is gone.
OutboxContinuesStream ==
  LET held == {b \in {r.batch : r \in outbox} : ~ Committed(b)} IN
  \A b \in held :
    b.from = lastSeq[Stream] + 1 \/ \E c \in held : Archive!To(c) + 1 = b.from

\* Retries, late requests, reloads and failing storage never make the companion refuse
\* a row: what is quarantined writes a record that a restore has taken back.
OnlyConflictsQuarantined ==
  \A r \in QuarantinedRows : Archive!TombstoneConflict(r.batch)

\* A row that is pending is committed and acknowledged in the end.
PendingIsDelivered ==
  \A o \in Ops :
    (\E r \in PendingRows : r.batch.id = o)
      ~> (\E c \in receipts : c.batch.id = o) /\ \A r \in outbox : r.batch.id # o

\* The delivery pipeline of one tab implements the durable log: an operation is
\* accepted when its row is added, and durable when the companion commits it.
InOrder(B) ==
  CHOOSE s \in [1..Cardinality(B) -> B] :
    \A i, j \in DOMAIN s : i < j => s[i].from < s[j].from

IdsInOrder(B) == [i \in 1..Cardinality(B) |-> InOrder(B)[i].id]

Durable == [i \in 1..Len(head.chain) |-> head.chain[i].batch.id]

Waiting == IdsInOrder(Unsent)

Log == INSTANCE DurableLog WITH
  accepted <- Durable \o Waiting,
  durable <- Len(head.chain)

AcceptedIsDurableInOrder == Log!Spec
=============================================================================

--------------------------- MODULE BrowserBootstrap ---------------------------
(***************************************************************************)
(* The bootstrap migration (migration.ts, started by main.tsx at every page *)
(* load): a browser that has captured without a companion commits its rows *)
(* to the empty archive, batch after batch, before the page's capture      *)
(* modules start and call the delivery pipeline.  A migration journal in   *)
(* the userscript's storage outlives the page.                             *)
(*                                                                         *)
(* A load is a sequence of awaits, at each of which another tab, loading   *)
(* too or capturing, can come between.  Each load goes by its own copy of  *)
(* the journal and writes it over whatever is stored.                      *)
(***************************************************************************)
EXTENDS DeliveryPipeline

CONSTANTS
  BootstrapOps,  \* the batches the browser's rows are sent in, in order
  NoPointer      \* no generation is active, or no target is named

\* A browser without rows has nothing to bootstrap.
ASSUME BootstrapAssumption == BootstrapOps \in Seq(Ops) /\ BootstrapOps # <<>>

VARIABLES
  \* one per tab
  page,     \* the await its page's load is at
  memory,   \* what the load has in memory
  \* shared by the tabs
  phase,    \* phase of the migration journal; "none" without a journal
  target,   \* the target generation the journal names
  pointer,  \* the active generation
  \* history
  apart     \* no two pages have loaded at the same time

bootVars == <<page, memory, phase, target, pointer>>

\* How many batches have been committed, the client sequence of the next mutation, the
\* checkpoint of the last receipt and the one the rebuild has pinned.
NoMemory == [sent |-> 0, next |-> 1, known |-> Unknown, pinned |-> Unknown]

\* Tabs name the same batch differently, but its mutations alike: a batch that another
\* tab has committed is refused under either name.
BootstrapBatch(t) == Batch(BootstrapOps[memory[t].sent + 1], memory[t].next)

IsBootstrap(o) == \E i \in DOMAIN BootstrapOps : BootstrapOps[i] = o

AllSent(t) == memory[t].sent = Len(BootstrapOps)

\* A generation is named by the tab that rebuilt it and the checkpoint it pinned.
Generation(t) == [tab |-> t, checkpoint |-> memory[t].pinned]

BootInit ==
  /\ Init
  /\ page = [t \in Tabs |-> "closed"]
  /\ memory = [t \in Tabs |-> NoMemory]
  /\ phase = "none"
  /\ target = NoPointer
  /\ pointer = NoPointer
  /\ apart = TRUE

\* The pipeline does nothing in a step of the bootstrap but what is named.
PipelineIdle == UNCHANGED <<browserVars, wire, outboxVars, late, outcome, crashes>>

Goes(t, place) == page' = [page EXCEPT ![t] = place] /\ UNCHANGED memory

Leaves(t, place) ==
  /\ page' = [page EXCEPT ![t] = place]
  /\ memory' = [memory EXCEPT ![t] = NoMemory]

WriteJournal(p, g) == phase' = p /\ target' = g

Opens(t) == page[t] = "closed" /\ Stream \in admitted

-----------------------------------------------------------------------------
\* A variant that knows a failed migration but not one whose page was closed.
FailedBefore == phase = "rollback_required"

\* recoverInterruptedMigration(): a journal that is neither missing, committed nor of
\* a verified and active target asks for an explicit recovery.
Interrupted ==
  /\ phase \notin {"none", "committed"}
  /\ ~ (phase = "browser_verified" /\ target = pointer)

\* The page starts with neither bootstrap nor projection, and captures all the same: also
\* when the journal cannot be written.
LoadBlocked(t) ==
  /\ Opens(t)
  /\ \/ Interrupted /\ phase' \in {phase, "rollback_required"}
     \/ phase = "browser_verified" /\ UNCHANGED phase
  /\ Leaves(t, "ready")
  /\ PipelineIdle
  /\ UNCHANGED <<target, pointer, archiveVars>>

\* The load goes on, and counts the browser's rows; a verified migration is resumed.
Recover(t) ==
  /\ Opens(t)
  /\ ~ Interrupted
  /\ phase' = IF phase = "browser_verified" THEN "committed" ELSE phase
  /\ Goes(t, "recovered")
  /\ PipelineIdle
  /\ UNCHANGED <<target, pointer, archiveVars>>

\* bootstrapExistingBrowserArchiveIfNeeded(): a browser with an active generation has
\* been bootstrapped; otherwise the archive's checkpoint is asked for ...
FindPointer(t) ==
  /\ page[t] = "recovered"
  /\ Goes(t, IF pointer = NoPointer THEN "checking" ELSE "projecting")
  /\ PipelineIdle
  /\ UNCHANGED <<phase, target, pointer, archiveVars>>

\* ... and an archive that holds anything is projected.  An empty one is bootstrapped:
\* a new journal is written.
Check(t) ==
  /\ page[t] = "checking"
  /\ IF head.seq > 0
     THEN Goes(t, "projecting") /\ UNCHANGED <<phase, target>>
     ELSE Goes(t, "planned") /\ WriteJournal("planned", NoPointer)
  /\ PipelineIdle
  /\ UNCHANGED <<pointer, archiveVars>>

\* The companion or the browser's database cannot be read, the journal not be begun, the
\* active generation is current, or its rebuild fails: the page starts with what it has.
LoadDeferred(t) ==
  /\ page[t] \in {"recovered", "checking", "projecting"}
  /\ Leaves(t, "ready")
  /\ PipelineIdle
  /\ UNCHANGED <<phase, target, pointer, archiveVars>>

-----------------------------------------------------------------------------
\* bootstrapExistingBrowserArchive(): the archive must still be empty.  main.tsx starts
\* the client sequence at 1.
Preflight(t) ==
  /\ page[t] = "planned"
  /\ head.seq = 0
  /\ WriteJournal("preflighted", NoPointer)
  /\ page' = [page EXCEPT ![t] = "preflighted"]
  /\ memory' = [memory EXCEPT ![t] = [NoMemory EXCEPT !.known = head]]
  /\ PipelineIdle
  /\ UNCHANGED <<pointer, archiveVars>>

\* The browser's rows are read and made into mutations.
ReadRows(t) ==
  /\ page[t] = "preflighted"
  /\ WriteJournal("staging", NoPointer)
  /\ Goes(t, "staging")
  /\ PipelineIdle
  /\ UNCHANGED <<pointer, archiveVars>>

\* commitBootstrapBatch(): the companion commits the next batch ...
CommitBootstrapBatch(t) ==
  LET b == BootstrapBatch(t) IN
  /\ page[t] = "staging"
  /\ ~ AllSent(t)
  /\ Archive!Commit(b, memory[t].known)
  /\ page' = [page EXCEPT ![t] = "committed"]
  /\ memory' = [memory EXCEPT ![t] =
       [sent |-> memory[t].sent + 1, next |-> Archive!To(b) + 1,
        known |-> Archive!HeadAfter(b), pinned |-> memory[t].pinned]]
  /\ PipelineIdle
  /\ UNCHANGED <<phase, target, pointer>>

\* ... and its receipt comes back.
ReceiveReceipt(t) ==
  /\ page[t] = "committed"
  /\ WriteJournal("staging", NoPointer)
  /\ Goes(t, "staging")
  /\ PipelineIdle
  /\ UNCHANGED <<pointer, archiveVars>>

BeginRebuild(t) ==
  /\ page[t] = "staging"
  /\ AllSent(t)
  /\ WriteJournal("browser_rebuilding", NoPointer)
  /\ Goes(t, "rebuilding")
  /\ PipelineIdle
  /\ UNCHANGED <<pointer, archiveVars>>

\* rebuildCanonicalGeneration(), of the bootstrap or of ensureCanonicalArchiveProjection():
\* the companion pins what the archive holds, the generation is staged from that ...
PinArchive(t) ==
  /\ page[t] \in {"rebuilding", "projecting"}
  /\ memory[t].pinned = Unknown
  /\ memory' = [memory EXCEPT ![t] = [@ EXCEPT !.pinned = head]]
  /\ PipelineIdle
  /\ UNCHANGED <<page, phase, target, pointer, archiveVars>>

\* ... and made the active one, whichever is active by now.
ActivateRebuilt(t) ==
  /\ page[t] = "rebuilding"
  /\ memory[t].pinned # Unknown
  /\ pointer' = Generation(t)
  /\ Goes(t, "activated")
  /\ PipelineIdle
  /\ UNCHANGED <<phase, target, archiveVars>>

ActivateProjected(t) ==
  /\ page[t] = "projecting"
  /\ memory[t].pinned # Unknown
  /\ pointer' = Generation(t)
  /\ Leaves(t, "ready")
  /\ PipelineIdle
  /\ UNCHANGED <<phase, target, archiveVars>>

\* A variant that names the generation that is active by now.
JournalActive(t) ==
  /\ page[t] = "activated"
  /\ WriteJournal("browser_verified", pointer)
  /\ Goes(t, "verified")
  /\ PipelineIdle
  /\ UNCHANGED <<pointer, archiveVars>>

\* Only after the activation the journal names the target.
JournalVerified(t) ==
  /\ page[t] = "activated"
  /\ WriteJournal("browser_verified", Generation(t))
  /\ Goes(t, "verified")
  /\ PipelineIdle
  /\ UNCHANGED <<pointer, archiveVars>>

JournalCommitted(t) ==
  /\ page[t] = "verified"
  /\ WriteJournal("committed", Generation(t))
  /\ Leaves(t, "ready")
  /\ PipelineIdle
  /\ UNCHANGED <<pointer, archiveVars>>

\* The request of an exchange that ends without an answer may still arrive.
AbandonExchange(t) ==
  late' \in {late} \union
    (IF page[t] = "staging" /\ ~ AllSent(t)
     THEN {late \union {[batch |-> BootstrapBatch(t), cp |-> memory[t].known]}}
     ELSE {})

\* An exchange, the rebuild or a write of the journal fails; so may the last write of it.
BootstrapFails(t) ==
  /\ page[t] \in {"planned", "preflighted", "staging", "committed", "rebuilding", "activated",
                  "verified"}
  /\ WriteJournal("rollback_required", NoPointer) \/ UNCHANGED <<phase, target>>
  /\ Leaves(t, "ready")
  /\ AbandonExchange(t)
  /\ UNCHANGED <<browserVars, wire, outboxVars, outcome, crashes, pointer, archiveVars>>

\* The page is closed while no call runs; the pipeline's Crash closes it in a call.
Close(t) ==
  /\ page[t] # "closed"
  /\ At(t, "idle")
  /\ crashes < MaxCrashes
  /\ crashes' = crashes + 1
  /\ Leaves(t, "closed")
  /\ AbandonExchange(t)
  /\ UNCHANGED <<browserVars, wire, outboxVars, outcome, phase, target, pointer, archiveVars>>

-----------------------------------------------------------------------------
\* The capture modules call the pipeline once the page is ready.
Capture(t) ==
  /\ page[t] = "ready"
  /\ \/ \E o \in Ops \union {NoOp} : ~ IsBootstrap(o) /\ Route(t, o)
     \/ Step(t)
     \/ Serve(t)
  /\ UNCHANGED bootVars

CloseInCall(t) ==
  /\ Crash(t)
  /\ Leaves(t, "closed")
  /\ UNCHANGED <<phase, target, pointer>>

Load(t) ==
  \/ LoadBlocked(t) \/ Recover(t) \/ FindPointer(t) \/ Check(t) \/ LoadDeferred(t)
  \/ PinArchive(t) \/ ActivateProjected(t)

Bootstrap(t) ==
  \/ Preflight(t) \/ ReadRows(t) \/ CommitBootstrapBatch(t) \/ ReceiveReceipt(t)
  \/ BeginRebuild(t) \/ ActivateRebuilt(t) \/ JournalVerified(t) \/ JournalCommitted(t)
  \/ BootstrapFails(t)

BootNext ==
  \/ (Earlier \/ Pair) /\ UNCHANGED bootVars
  \/ \E r \in late : ServeLate(r) /\ UNCHANGED bootVars
  \/ \E t \in Tabs : Load(t) \/ Bootstrap(t) \/ Capture(t) \/ Close(t) \/ CloseInCall(t)

\* The user opens one page after another: of two that are open, one is ready and goes on
\* capturing.
LoadsApart ==
  \A t, u \in Tabs : {page[t], page[u]} \intersect {"closed", "ready"} = {} => t = u

Remember == apart' = (apart /\ LoadsApart')

BootSpec == BootInit /\ [][BootNext /\ Remember]_<<vars, bootVars, apart>>

-----------------------------------------------------------------------------
\* What a generation rebuilt from a checkpoint holds of the bootstrap's batches.
Holds(checkpoint, i) ==
  \E n \in DOMAIN checkpoint.chain : checkpoint.chain[n].batch.id = BootstrapOps[i]

Whole(checkpoint) == \A i \in DOMAIN BootstrapOps : Holds(checkpoint, i)

\* "Partial generations are never presented as the active archive" (CONTEXT.md): the
\* active generation holds all of the browser's rows or none of them.
NoPartialBootstrapActive ==
  pointer # NoPointer => \/ Whole(pointer.checkpoint)
                         \/ \A i \in DOMAIN BootstrapOps : ~ Holds(pointer.checkpoint, i)

\* It is so wherever the bootstrap was interrupted (recoverInterruptedMigration), as long
\* as no two pages have loaded at the same time.
NoPartialBootstrapApart == apart => NoPartialBootstrapActive

\* A journal that calls its migration verified or committed, and with it the next load
\* go on, names a generation that holds all of the browser's rows: whatever pages load
\* at the same time and write the journal over each other's.
VerifiedIsWhole == phase \in {"browser_verified", "committed"} => Whole(target.checkpoint)
=============================================================================

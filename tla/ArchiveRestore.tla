---------------------------- MODULE ArchiveRestore ----------------------------
(***************************************************************************)
(* Snapshots of the canonical archive, the restore that rewinds it to one, *)
(* and its guarded destruction (snapshots.py, destructive.py), beside the  *)
(* clients that go on committing to CanonicalArchive.                      *)
(*                                                                         *)
(* A restore holds the store's lock while it switches the database file    *)
(* and nowhere else: what it reads before and what it appends after, in    *)
(* batches of a stream of its own, interleaves with commits, with the      *)
(* creation and rotation of snapshots, and with a destruction.  One        *)
(* restore runs at a time.  The companion may die between any two steps,   *)
(* and between the two renames of the switch.                              *)
(***************************************************************************)
EXTENDS Integers, Sequences, FiniteSets

CONSTANTS
  Streams, Keys, MutationIds, Batches, NoRecord,   \* as in CanonicalArchive
  Rank,           \* the order of the state keys as strings
  BatchLimit,     \* max_mutations_per_batch, also the restore's page size
  Epochs,         \* restore-agent epochs: one for each restore that is begun
  MaxSnapshots, MaxChallenges, MaxCrashes,   \* bounds
  Failures,       \* the steps that may fail: "create", "restore"
  NoImage, NoAgent

ASSUME BatchLimitAssumption == BatchLimit \in Nat \ {0}

ASSUME RankAssumption ==
  /\ IsFiniteSet(Keys)
  /\ Rank \in [Keys -> Nat \ {0}]
  /\ \A j, k \in Keys : Rank[j] = Rank[k] => j = k

\* A restore's stream and its mutations ("restore-...") are none of the clients'.
ASSUME EpochsAssumption ==
  /\ Epochs \intersect Streams = {}
  /\ \A m \in MutationIds : m \notin [epoch : Epochs, n : Nat, of : MutationIds \union {NoRecord}]

VARIABLES
  admitted, lastSeq, journal, stateRecords, receipts, checkpoints, head, retainedFrom,
  namespace,      \* the namespaces table holds the namespace
  audit,          \* operation_audit: the snapshots recorded as restored
  identity,       \* companion_meta.archive_id of the active database
  snapshots,      \* the published snapshots
  writing,        \* the snapshot that is being created
  created,        \* how many were begun: a later snapshot has a larger id
  pc,             \* where the restore is: "idle", "staged", "switched", "append"
  agent,          \* its local state
  begun,          \* the epochs of the restores begun
  challenges,     \* the destroy challenges that can be confirmed
  issued,         \* how many were issued
  destroying,     \* a confirmation has passed its checks
  crashes,
  touched,        \* history: keys committed by clients since the switch
  interrupted     \* history: the companion died between a switch and its restore's end

archiveVars == <<admitted, lastSeq, journal, stateRecords, receipts, checkpoints, head,
                 retainedFrom>>
activeVars == <<archiveVars, namespace, audit, identity>>
snapshotVars == <<snapshots, writing, created>>
restoreVars == <<pc, agent, begun>>
destroyVars == <<challenges, issued, destroying>>
vars == <<activeVars, snapshotVars, restoreVars, destroyVars, crashes, touched, interrupted>>

Archive == INSTANCE CanonicalArchive WITH Clients <- Streams \union Epochs

ASSUME ClientsAssumption ==
  /\ \A b \in Batches : Archive!WellFormed(b) /\ b.client \in Streams
  /\ NoRecord \notin [kind : Archive!Kinds, seq : Nat]

-----------------------------------------------------------------------------
\* Database files.

Active ==
  [admitted |-> admitted, lastSeq |-> lastSeq, journal |-> journal,
   stateRecords |-> stateRecords, receipts |-> receipts, checkpoints |-> checkpoints,
   head |-> head, retainedFrom |-> retainedFrom, namespace |-> namespace,
   audit |-> audit]

ActiveBecomes(db) ==
  /\ admitted' = db.admitted
  /\ lastSeq' = db.lastSeq
  /\ journal' = db.journal
  /\ stateRecords' = db.stateRecords
  /\ receipts' = db.receipts
  /\ checkpoints' = db.checkpoints
  /\ head' = db.head
  /\ retainedFrom' = db.retainedFrom
  /\ namespace' = db.namespace
  /\ audit' = db.audit

\* The schema without the rows of a namespace.
Blank(audited) ==
  [admitted |-> {}, lastSeq |-> [c \in Streams \union Epochs |-> 0], journal |-> <<>>,
   stateRecords |-> [k \in Keys |-> NoRecord], receipts |-> {}, checkpoints |-> {},
   head |-> [seq |-> 0, chain |-> <<>>], retainedFrom |-> 1, namespace |-> FALSE,
   audit |-> audited]

\* admit_namespace: an empty archive with its boundary 0.
Admitted(db) == [db EXCEPT !.namespace = TRUE, !.checkpoints = {db.head}]

\* _verify_journal: the receipts lead from the empty archive to the head without a
\* gap, the journal has their rows, and the last checkpoint is the head.
Verified(db) ==
  /\ Len(db.journal) = db.head.seq
  /\ db.head \in db.checkpoints
  /\ \A p \in db.checkpoints : p.seq <= db.head.seq
  /\ \A r \in db.receipts :
       /\ r.chain = Archive!Chain(r.prior, r.batch, r.from, r.to)
       /\ \/ r.from = 1 /\ r.prior = <<>>
          \/ \E q \in db.receipts : q.to = r.from - 1 /\ q.chain = r.prior
  /\ \/ db.head.seq = 0 /\ db.receipts = {} /\ db.head.chain = <<>>
     \/ \E r \in db.receipts : r.to = db.head.seq /\ r.chain = db.head.chain

-----------------------------------------------------------------------------
\* Clients and pairing.

Restoring == pc \in {"switched", "append"}

KeysOf(b) == {b.muts[i].key : i \in 1..Len(b.muts)}

AdmitNamespace ==
  /\ ~ namespace
  /\ ActiveBecomes(Admitted(Active))
  /\ UNCHANGED <<identity, snapshotVars, restoreVars, destroyVars, crashes, touched, interrupted>>

AdmitClient(c) ==
  /\ namespace
  /\ Archive!AdmitClient(c)
  /\ UNCHANGED <<namespace, audit, identity, snapshotVars, restoreVars, destroyVars, crashes,
                 touched, interrupted>>

ClientCommit(b) ==
  /\ Archive!Commit(b, Archive!NoCheckpoint)
  /\ touched' = IF Restoring THEN touched \union KeysOf(b) ELSE touched
  /\ UNCHANGED <<namespace, audit, identity, snapshotVars, restoreVars, destroyVars, crashes,
                 interrupted>>

-----------------------------------------------------------------------------
\* Snapshots.

\* create: the backup is taken under the store's lock; the rest works on the copy.
\* (A snapshot of an archive without the namespace can only be refused later.)
BeginSnapshot ==
  /\ writing = NoImage
  /\ created < MaxSnapshots
  /\ namespace
  /\ writing' = [id |-> created + 1, archive |-> identity, db |-> Active]
  /\ created' = created + 1
  /\ UNCHANGED <<activeVars, snapshots, restoreVars, destroyVars, crashes, touched, interrupted>>

\* The copy is verified, marked and renamed to its final name.
PublishSnapshot ==
  /\ writing # NoImage
  /\ Verified(writing.db)
  /\ snapshots' = snapshots \union {writing}
  /\ writing' = NoImage
  /\ UNCHANGED <<activeVars, created, restoreVars, destroyVars, crashes, touched, interrupted>>

\* Any failure on the way removes the temporary directory.
AbandonSnapshot ==
  /\ writing # NoImage
  /\ "create" \in Failures \/ ~ Verified(writing.db)
  /\ writing' = NoImage
  /\ UNCHANGED <<activeVars, snapshots, created, restoreVars, destroyVars, crashes, touched,
                 interrupted>>

\* list_verified
Ids == {s.id : s \in snapshots}

\* rotate: the newest, those recorded as restored, and whatever the hourly, daily
\* and monthly limits keep.
Rotate(kept) ==
  /\ Cardinality(snapshots) > 1
  /\ snapshots' = {s \in snapshots : s.id \in kept \union audit \/ \A i \in Ids : i <= s.id}
  /\ UNCHANGED <<activeVars, writing, created, restoreVars, destroyVars, crashes, touched,
                 interrupted>>

-----------------------------------------------------------------------------
\* Restore.

\* ORDER BY: the members of a set in the order of their ranks.
InOrder(S, rank) ==
  [i \in 1..Cardinality(S) |->
     CHOOSE x \in S : Cardinality({y \in S : rank[y] < rank[x]}) = i - 1]

\* verify: a published image does not change, so what can differ is the archive.
Restorable(s) == s.archive = identity

\* Verification and the copy to the staging file, before the lock is taken.
StageRestore(s, e) ==
  /\ pc = "idle"
  /\ Restorable(s)
  /\ pc' = "staged"
  /\ agent' = [epoch |-> e, snap |-> s, retained |-> NoImage, source |-> "snapshot",
               cursor |-> 0, queue |-> <<>>, next |-> 1, known |-> head]
  /\ begun' = begun \union {e}
  /\ UNCHANGED <<activeVars, snapshotVars, destroyVars, crashes, touched, interrupted>>

\* The rows of the active database from a sequence on.  INSERT OR IGNORE: a row whose
\* key the snapshot has is left out (which leaves a gap, here too short a journal).
RowsFrom(t, from) ==
  LET kept == {n \in from..Len(journal) :
                 \A i \in 1..Len(t.journal) : t.journal[i].mid # journal[n].mid}
      rows == InOrder(kept, [n \in kept |-> n])
  IN  [i \in DOMAIN rows |-> journal[rows[i]]]

WithHistoryFrom(t, from) ==
  [t EXCEPT
     !.journal = @ \o RowsFrom(t, from),
     !.receipts = @ \union {r \in receipts : /\ r.from >= from
                                             /\ \A q \in t.receipts : q.batch.id # r.batch.id},
     !.checkpoints = @ \union {p \in checkpoints : p.seq >= from}]

\* Every client of the active database, INSERT OR REPLACE.
WithClients(t) ==
  [t EXCEPT
     !.admitted = @ \union admitted,
     !.lastSeq = [c \in DOMAIN @ |-> IF c \in admitted THEN lastSeq[c] ELSE @[c]]]

WithHead(t) == [t EXCEPT !.head = head, !.retainedFrom = retainedFrom]

\* Variants: without the history, without the clients, and with the current state too.
MergedWithoutHistory(t) == WithHead(WithClients(t))
MergedWithoutClients(t) == WithHead(WithHistoryFrom(t, t.head.seq + 1))
MergedWithState(t) ==
  [WithHead(WithClients(WithHistoryFrom(t, t.head.seq + 1))) EXCEPT !.stateRecords = stateRecords]

\* _copy_future_history: what lies beyond the snapshot's head, the clients and the
\* head come from the active database; the current state and the audit stay those of
\* the snapshot.
Merged(t) == WithHead(WithClients(WithHistoryFrom(t, t.head.seq + 1)))

CanSwitch == namespace /\ head.seq >= agent.snap.db.head.seq

\* The namespaces differ, the snapshot is newer than the active archive, or another
\* step before the switch fails: the active archive is untouched.
RefuseRestore ==
  /\ pc = "staged"
  /\ ~ CanSwitch \/ "restore" \in Failures
  /\ pc' = "idle"
  /\ agent' = NoAgent
  /\ UNCHANGED <<activeVars, snapshotVars, begun, destroyVars, crashes, touched, interrupted>>

\* Under the lock: the staged file is merged, the active one retained, both renamed.
Switch ==
  /\ pc = "staged"
  /\ CanSwitch
  /\ ActiveBecomes(Merged(agent.snap.db))
  /\ agent' = [agent EXCEPT !.retained = Active]
  /\ pc' = "switched"
  /\ touched' = {}
  /\ UNCHANGED <<identity, snapshotVars, begun, destroyVars, crashes, interrupted>>

\* _append_restore_batches begins: a stream of its own, from the current checkpoint.
BeginAppend ==
  /\ pc = "switched"
  /\ namespace
  /\ Archive!AdmitClient(agent.epoch)
  /\ agent' = [agent EXCEPT !.known = head]
  /\ pc' = "append"
  /\ UNCHANGED <<namespace, audit, identity, snapshotVars, begun, destroyVars, crashes, touched,
                 interrupted>>

Held(records) == {k \in Keys : records[k] # NoRecord}

\* The next BatchLimit rows after the cursor, in the order of the keys.
Page(records) ==
  LET rows == InOrder({k \in Held(records) : Rank[k] > agent.cursor}, Rank)
  IN  SubSeq(rows, 1, IF Len(rows) < BatchLimit THEN Len(rows) ELSE BatchLimit)

\* What a mutation says of its key; a restored one says what the row it copies said.
Content(mid) == IF mid \in MutationIds THEN mid ELSE mid.of

RestoreMutation(n, k, kind, of) ==
  [mid |-> [epoch |-> agent.epoch, n |-> n, of |-> of], key |-> k, kind |-> kind]

Numbered(i) == agent.next + Len(agent.queue) + i - 1

CopyOf(k, n) ==
  RestoreMutation(n, k, stateRecords[k].kind, Content(journal[stateRecords[k].seq].mid))

Queued(mutations, page) ==
  [agent EXCEPT !.queue = @ \o mutations, !.cursor = Rank[page[Len(page)]]]

\* snapshot_rows: a page of the active database's state, copied as new mutations.
\* The rows are read without the lock and committed later.
ReadSnapshotPage ==
  /\ pc = "append"
  /\ agent.source = "snapshot"
  /\ Len(agent.queue) < BatchLimit
  /\ LET page == Page(stateRecords)
     IN  agent' = IF page = <<>>
                  THEN [agent EXCEPT !.source = "current", !.cursor = 0]
                  ELSE Queued([i \in 1..Len(page) |-> CopyOf(page[i], Numbered(i))], page)
  /\ UNCHANGED <<activeVars, snapshotVars, pc, begun, destroyVars, crashes, touched, interrupted>>

\* The rows of a retained page whose key the active database does not have.
Gone(page) ==
  InOrder({k \in {page[i] : i \in 1..Len(page)} : stateRecords[k] = NoRecord}, Rank)

\* current_only_rows: what the retained database holds and the active one does not
\* is deleted.
ReadRetainedPage ==
  /\ pc = "append"
  /\ agent.source = "current"
  /\ Len(agent.queue) < BatchLimit
  /\ LET page == Page(agent.retained.stateRecords)
         gone == Gone(page)
     IN  agent' = IF page = <<>>
                  THEN [agent EXCEPT !.source = "done"]
                  ELSE Queued([i \in 1..Len(gone) |->
                                 RestoreMutation(Numbered(i), gone[i], "tombstone", NoRecord)],
                              page)
  /\ UNCHANGED <<activeVars, snapshotVars, pc, begun, destroyVars, crashes, touched, interrupted>>

Due ==
  /\ pc = "append"
  /\ \/ Len(agent.queue) >= BatchLimit
     \/ agent.source = "done" /\ agent.queue # <<>>

DueBatch ==
  LET n == IF Len(agent.queue) < BatchLimit THEN Len(agent.queue) ELSE BatchLimit
  IN  [id |-> [epoch |-> agent.epoch, from |-> agent.next], client |-> agent.epoch,
       from |-> agent.next, muts |-> SubSeq(agent.queue, 1, n)]

CommitRestoreBatch ==
  /\ Due
  /\ Archive!Commit(DueBatch, agent.known)
  /\ LET n == Len(DueBatch.muts)
     IN  agent' = [agent EXCEPT !.queue = SubSeq(@, n + 1, Len(@)), !.next = @ + n,
                                !.known = head']
  /\ UNCHANGED <<namespace, audit, identity, snapshotVars, pc, begun, destroyVars, crashes,
                 touched, interrupted>>

\* All is appended and the archive is healthy.
FinishRestore ==
  /\ pc = "append"
  /\ agent.source = "done"
  /\ agent.queue = <<>>
  /\ namespace
  /\ audit' = audit \union {agent.snap.id}
  /\ pc' = "idle"
  /\ agent' = NoAgent
  /\ touched' = {}
  /\ UNCHANGED <<archiveVars, namespace, identity, snapshotVars, begun, destroyVars, crashes,
                 interrupted>>

\* A batch is refused, the namespace is gone, or anything else fails after the
\* switch: the retained file becomes the active one again.
RestoreFails ==
  /\ Restoring
  /\ \/ Due /\ Archive!Answer(DueBatch, agent.known) # "committed"
     \/ ~ namespace
     \/ "restore" \in Failures
  /\ ActiveBecomes(agent.retained)
  /\ pc' = "idle"
  /\ agent' = NoAgent
  /\ touched' = {}
  /\ UNCHANGED <<identity, snapshotVars, begun, destroyVars, crashes, interrupted>>

-----------------------------------------------------------------------------
\* The destroy guard.

\* preflight: the challenge is bound to the namespaces and the verified snapshots.
\* (A recent snapshot, or the acknowledgement of the loss, is the caller's.)
Preflight ==
  /\ issued < MaxChallenges
  /\ namespace
  /\ issued' = issued + 1
  /\ challenges' = challenges \union {[id |-> issued + 1, digest |-> Ids]}
  /\ UNCHANGED <<activeVars, snapshotVars, restoreVars, destroying, crashes, touched, interrupted>>

\* confirm: a challenge is used up by the first attempt; its phrase may be wrong or
\* it may have expired.
Confirm(ch, passes) ==
  /\ ~ destroying
  /\ challenges' = challenges \ {ch}
  /\ destroying' = (passes /\ namespace /\ ch.digest = Ids)
  /\ UNCHANGED <<activeVars, snapshotVars, restoreVars, issued, crashes, touched, interrupted>>

\* One transaction; snapshots and the audit are kept.
Destroy ==
  /\ destroying
  /\ destroying' = FALSE
  /\ ActiveBecomes(Blank(audit))
  /\ touched' = IF Restoring THEN Keys ELSE touched
  /\ UNCHANGED <<identity, snapshotVars, restoreVars, challenges, issued, crashes, interrupted>>

-----------------------------------------------------------------------------
\* What the process holds in memory is gone.
Dies ==
  /\ crashes < MaxCrashes
  /\ crashes' = crashes + 1
  /\ writing' = NoImage
  /\ pc' = "idle"
  /\ agent' = NoAgent
  /\ challenges' = {}
  /\ destroying' = FALSE
  /\ touched' = {}
  /\ UNCHANGED <<snapshots, created, begun, issued>>

Crash ==
  /\ Dies
  /\ interrupted' = (interrupted \/ Restoring)
  /\ UNCHANGED activeVars

\* The active file is renamed and the staged one is not: the restarted companion
\* finds no database and creates an empty archive with an identity of its own.
CrashInSwitch ==
  /\ pc = "staged"
  /\ CanSwitch
  /\ Dies
  /\ ActiveBecomes(Blank({}))
  /\ identity' = identity + 1
  /\ UNCHANGED interrupted

-----------------------------------------------------------------------------
Init ==
  /\ Archive!Init
  /\ namespace = TRUE
  /\ audit = {}
  /\ identity = 1
  /\ snapshots = {}
  /\ writing = NoImage
  /\ created = 0
  /\ pc = "idle"
  /\ agent = NoAgent
  /\ begun = {}
  /\ challenges = {}
  /\ issued = 0
  /\ destroying = FALSE
  /\ crashes = 0
  /\ touched = {}
  /\ interrupted = FALSE

Next ==
  \/ AdmitNamespace
  \/ \E c \in Streams : AdmitClient(c)
  \/ \E b \in Batches : ClientCommit(b)
  \/ BeginSnapshot
  \/ PublishSnapshot
  \/ AbandonSnapshot
  \/ \E kept \in SUBSET Ids : Rotate(kept)
  \/ \E s \in snapshots, e \in Epochs \ begun : StageRestore(s, e)
  \/ RefuseRestore
  \/ Switch
  \/ BeginAppend
  \/ ReadSnapshotPage
  \/ ReadRetainedPage
  \/ CommitRestoreBatch
  \/ FinishRestore
  \/ RestoreFails
  \/ Preflight
  \/ \E ch \in challenges, passes \in BOOLEAN : Confirm(ch, passes)
  \/ Destroy
  \/ Crash
  \/ CrashInSwitch

Spec == Init /\ [][Next]_vars

-----------------------------------------------------------------------------
\* Whatever is snapshot, merged by a restore, rolled back or interrupted, the history
\* stays exact: each mutation journaled once, every stream contiguous up to the
\* sequence its client is expected to send next, every receipt a proof of the rows it
\* names, and the whole a journal that a snapshot would be verified by ("restored
\* archive journal integrity failed", recovery_harness.py:151).  Once a restore has
\* ended the current state is again that journal replayed, so that a browser that
\* replays the deltas and one that starts anew see the same; not after a crash between
\* the switch and the last restore batch.
HistoryStaysExact ==
  /\ namespace => /\ Archive!MutationsJournaledOnce
                  /\ Archive!ClientSequenceContiguous
                  /\ Archive!ReceiptsProveJournal
                  /\ Verified(Active)
  /\ pc = "idle" /\ ~ interrupted => Archive!StateIsJournalReplayed

\* What a reader of the current state sees of a key.
Shown(db, k) ==
  IF db.stateRecords[k] = NoRecord \/ db.stateRecords[k].kind = "tombstone"
  THEN NoRecord
  ELSE Content(db.journal[db.stateRecords[k].seq].mid)

\* A restore that reports success has rewound the archive: every key shows what it
\* showed in the snapshot, unless a client wrote it, or the archive was destroyed,
\* after the switch.
RestoredShowsSnapshot ==
  [][/\ pc = "append" /\ pc' = "idle" /\ agent.snap.id \in audit'
     /\ UNCHANGED <<journal, stateRecords, crashes>>
     => \A k \in Keys \ touched : Shown(Active', k) = Shown(agent.snap.db, k)]_vars

\* "restore reused archive sequence" (recovery_harness.py:149): a restore, however it
\* interleaves with commits, takes back no acknowledged row, receipt or checkpoint and
\* no client sequence.  Only a roll-back to the retained file does, and it goes back to
\* the moment of the switch exactly; and a destruction, and a crash between the renames.
RestoreKeepsAcknowledged ==
  [][\/ destroying /\ ~ destroying'
     \/ identity' # identity
     \/ Restoring /\ pc' = "idle" /\ Active' = agent.retained
     \/ /\ head.seq <= head'.seq
        /\ receipts \subseteq receipts'
        /\ checkpoints \subseteq checkpoints'
        /\ \A c \in Streams \union Epochs : lastSeq[c] <= lastSeq'[c]]_vars
=============================================================================

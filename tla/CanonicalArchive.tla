--------------------------- MODULE CanonicalArchive ---------------------------
(***************************************************************************)
(* The companion's canonical archive: one account namespace of one SQLite  *)
(* database (scrollmark_companion/store.py).  Every public method of the   *)
(* store holds the store's re-entrant lock and writes in one BEGIN         *)
(* IMMEDIATE transaction, so each is one atomic action here.  A crash or a *)
(* failpoint before COMMIT leaves the state as it was (SQLite rolls back), *)
(* and one after COMMIT loses only the answer: neither needs an action of  *)
(* its own at this level, and the modules that add the network lose the    *)
(* answers.                                                                *)
(*                                                                         *)
(* Hashes are taken to be injective.  A batch hash is the batch itself,    *)
(* and the chain hash of an archive boundary is the sequence of the        *)
(* batches, with their archive ranges, that were committed up to it: the   *)
(* empty sequence is the ZERO_HASH of an empty archive.                    *)
(***************************************************************************)
EXTENDS Integers, Sequences, FiniteSets

CONSTANTS
  Clients,      \* client streams: a paired client id with one client epoch
  Keys,         \* state keys: the canonical records mutations write
  MutationIds,  \* mutation identities
  Batches,      \* the immutable batches that clients may send
  NoRecord      \* state_records holds no row for a key

Kinds == {"upsert", "tombstone"}

Mutation == [mid : MutationIds, key : Keys, kind : Kinds]

\* What validate_request admits: a non-empty batch of mutations whose identities
\* are unique within the batch, with a client sequence that starts at 1 or later.
WellFormed(b) ==
  /\ b.client \in Clients
  /\ b.from \in Nat \ {0}
  /\ b.muts \in Seq(Mutation)
  /\ Len(b.muts) >= 1
  /\ \A i, j \in 1..Len(b.muts) : b.muts[i].mid = b.muts[j].mid => i = j

ASSUME BatchesAssumption ==
  /\ \A b \in Batches : WellFormed(b)
  /\ \A b \in Batches : DOMAIN b = {"id", "client", "from", "muts"}

ASSUME NoRecordAssumption == NoRecord \notin [kind : Kinds, seq : Nat]

VARIABLES
  admitted,      \* the client streams admitted to the namespace
  lastSeq,       \* clients.last_client_seq
  journal,       \* the journal; the archive sequence is the position
  stateRecords,  \* state_records: the last mutation kept for every key
  receipts,      \* batches: one row with its receipt per committed batch
  checkpoints,   \* committed archive boundaries
  head,          \* archive_state.next_archive_seq and .chain_hash
  retainedFrom   \* archive_state.retained_from

vars == <<admitted, lastSeq, journal, stateRecords, receipts, checkpoints,
          head, retainedFrom>>

-----------------------------------------------------------------------------
Chain(prior, b, from, to) == Append(prior, [batch |-> b, from |-> from, to |-> to])

To(b) == b.from + Len(b.muts) - 1

JournalRows(b) ==
  [i \in 1..Len(b.muts) |->
     [batch |-> b.id, client |-> b.client, cseq |-> b.from + i - 1,
      mid |-> b.muts[i].mid, key |-> b.muts[i].key, kind |-> b.muts[i].kind]]

Touches(b, k) == \E i \in 1..Len(b.muts) : b.muts[i].key = k

\* A variant that forgets that archive sequences start at 1.
ArchiveFromHead(b) == head.seq

\* The archive range the batch gets, its receipt, and the archive's head after it.
ArchiveFrom(b) == head.seq + 1

ArchiveTo(b) == head.seq + Len(b.muts)

\* A variant that starts the chain anew with every batch.
HeadAfterUnlinked(b) ==
  [seq |-> ArchiveTo(b), chain |-> Chain(<<>>, b, ArchiveFrom(b), ArchiveTo(b))]

HeadAfter(b) ==
  [seq |-> ArchiveTo(b), chain |-> Chain(head.chain, b, ArchiveFrom(b), ArchiveTo(b))]

ReceiptFor(b) ==
  [batch |-> b, from |-> ArchiveFrom(b), to |-> ArchiveTo(b),
   prior |-> head.chain, chain |-> HeadAfter(b).chain]

\* A variant that keeps the first mutation of the batch on a key.
FirstOn(b, k) ==
  CHOOSE i \in 1..Len(b.muts) :
    /\ b.muts[i].key = k
    /\ \A j \in 1..Len(b.muts) : b.muts[j].key = k => i <= j

\* Mutations of one batch are written in order, so the last one on a key stays.
LastOn(b, k) ==
  CHOOSE i \in 1..Len(b.muts) :
    /\ b.muts[i].key = k
    /\ \A j \in 1..Len(b.muts) : b.muts[j].key = k => j <= i

-----------------------------------------------------------------------------
\* The conditions commit() checks, in the order it checks them.

\* known_checkpoint is optional; when it is there it must be a committed boundary
\* of this chain that is not older than the retained history.
NoCheckpoint == [seq |-> -1, chain |-> <<>>]

Expired(cp) == cp.seq < retainedFrom - 1

CheckpointAccepted(cp) ==
  \/ cp = NoCheckpoint
  \/ /\ cp.seq <= head.seq
     /\ ~ Expired(cp)
     /\ cp \in checkpoints

Receipt(id) == CHOOSE r \in receipts : r.batch.id = id

Known(b) == \E r \in receipts : r.batch.id = b.id

\* A variant that looks for mutation identities in the sender's own stream only.
FreshInStream(b) ==
  \A i \in 1..Len(b.muts) : \A n \in 1..Len(journal) :
    journal[n].client = b.client => journal[n].mid # b.muts[i].mid

Fresh(b) ==
  \A i \in 1..Len(b.muts) : \A n \in 1..Len(journal) : journal[n].mid # b.muts[i].mid

NextInSequence(b) == b.from = lastSeq[b.client] + 1

\* A variant that looks at the first mutation of the batch only.
FirstTombstoneConflict(b) ==
  /\ b.muts[1].kind # "tombstone"
  /\ stateRecords[b.muts[1].key] # NoRecord
  /\ stateRecords[b.muts[1].key].kind = "tombstone"

\* Checked for the whole batch before the first of its mutations is written.
TombstoneConflict(b) ==
  \E i \in 1..Len(b.muts) :
    /\ b.muts[i].kind # "tombstone"
    /\ stateRecords[b.muts[i].key] # NoRecord
    /\ stateRecords[b.muts[i].key].kind = "tombstone"

\* The refusals in the order of the code, and whether each applies.  No refusal and
\* a known batch is a "duplicate": the stored receipt is answered.
Reasons ==
  <<"client_epoch_unknown", "checkpoint_mismatch", "checkpoint_expired",
    "checkpoint_mismatch", "mutation_hash_conflict", "duplicate",
    "mutation_hash_conflict", "client_sequence_gap", "validation_failed">>

Applies(b, cp) ==
  << b.client \notin admitted,
     cp # NoCheckpoint /\ cp.seq > head.seq,
     cp # NoCheckpoint /\ Expired(cp),
     cp # NoCheckpoint /\ cp \notin checkpoints,
     Known(b) /\ Receipt(b.id).batch # b,
     Known(b),
     ~ Fresh(b),
     ~ NextInSequence(b),
     TombstoneConflict(b) >>

\* The first one that applies is the answer.
Answer(b, cp) ==
  LET applying == {i \in DOMAIN Reasons : Applies(b, cp)[i]}
  IN  IF applying = {} THEN "committed"
      ELSE Reasons[CHOOSE i \in applying : \A j \in applying : i <= j]

-----------------------------------------------------------------------------
Init ==
  /\ admitted = {}
  /\ lastSeq = [c \in Clients |-> 0]
  /\ journal = <<>>
  /\ stateRecords = [k \in Keys |-> NoRecord]
  /\ receipts = {}
  /\ head = [seq |-> 0, chain |-> <<>>]
  /\ checkpoints = {[seq |-> 0, chain |-> <<>>]}
  /\ retainedFrom = 1

\* A variant with INSERT OR REPLACE: pairing again restarts the sequence.
AdmitClientAnew(c) ==
  /\ admitted' = admitted \union {c}
  /\ lastSeq' = [lastSeq EXCEPT ![c] = 0]
  /\ UNCHANGED <<journal, stateRecords, receipts, checkpoints, head, retainedFrom>>

\* admit_client: INSERT OR IGNORE, so a stream that is known keeps its sequence.
AdmitClient(c) ==
  /\ c \notin admitted
  /\ admitted' = admitted \union {c}
  /\ UNCHANGED <<lastSeq, journal, stateRecords, receipts, checkpoints, head, retainedFrom>>

\* commit: all the checks pass and the transaction commits.
Commit(b, cp) ==
  /\ b.client \in admitted
  /\ CheckpointAccepted(cp)
  /\ ~ Known(b)
  /\ Fresh(b)
  /\ NextInSequence(b)
  /\ ~ TombstoneConflict(b)
  /\ journal' = journal \o JournalRows(b)
  /\ stateRecords' =
       [k \in Keys |->
          IF Touches(b, k)
          THEN [kind |-> b.muts[LastOn(b, k)].kind, seq |-> head.seq + LastOn(b, k)]
          ELSE stateRecords[k]]
  /\ receipts' = receipts \union {ReceiptFor(b)}
  /\ checkpoints' = checkpoints \union {HeadAfter(b)}
  /\ head' = HeadAfter(b)
  /\ lastSeq' = [lastSeq EXCEPT ![b.client] = To(b)]
  /\ UNCHANGED <<admitted, retainedFrom>>

\* A variant that retains what is before the named sequence, not from it.
CompactJournalBefore(before) ==
  /\ before <= head.seq + 1
  /\ retainedFrom' = before - 1
  /\ UNCHANGED <<admitted, lastSeq, journal, stateRecords, receipts, checkpoints, head>>

\* compact_journal: retention is logical, the journal itself is kept.
CompactJournal(before) ==
  /\ before >= 1
  /\ before <= head.seq + 1
  /\ retainedFrom' = IF before > retainedFrom THEN before ELSE retainedFrom
  /\ UNCHANGED <<admitted, lastSeq, journal, stateRecords, receipts, checkpoints, head>>

\* The checkpoints a client may quote: the boundaries it has been told of.  (That
\* a quoted checkpoint may come from another chain is for the restoring models.)
Next ==
  \/ \E c \in Clients : AdmitClient(c)
  \/ \E b \in Batches, cp \in checkpoints \union {NoCheckpoint} : Commit(b, cp)
  \/ \E before \in 1..(head.seq + 1) : CompactJournal(before)

Spec == Init /\ [][Next]_vars

-----------------------------------------------------------------------------
Row == [batch : {b.id : b \in Batches}, client : Clients, cseq : Nat \ {0},
        mid : MutationIds, key : Keys, kind : Kinds]

ChainHash == Seq([batch : Batches, from : Nat, to : Nat])

Boundary == [seq : Nat, chain : ChainHash]

ReceiptRow ==
  [batch : Batches, from : Nat \ {0}, to : Nat, prior : ChainHash, chain : ChainHash]

\* Every variable holds a value of the shape its table column has.
TypeOK ==
  /\ admitted \subseteq Clients
  /\ lastSeq \in [Clients -> Nat]
  /\ journal \in Seq(Row)
  /\ stateRecords \in [Keys -> [kind : Kinds, seq : Nat] \union {NoRecord}]
  /\ receipts \subseteq ReceiptRow
  /\ checkpoints \subseteq Boundary
  /\ head \in Boundary
  /\ retainedFrom \in Nat \ {0}

Rows == 1..Len(journal)

\* Exactly once: a mutation identity has one row in the journal however often the
\* batch that carries it, or another batch, is sent (store.commit's duplicate and
\* mutation identity checks).
MutationsJournaledOnce ==
  \A i, j \in Rows : journal[i].mid = journal[j].mid => i = j

\* The client sequence is contiguous (CONTEXT.md, Client sequence): the rows of a
\* client stream carry 1, 2, ..., last_client_seq, each once and in archive order.
ClientSequenceContiguous ==
  \A c \in Clients :
    /\ \A i \in Rows : journal[i].client = c => journal[i].cseq <= lastSeq[c]
    /\ \A n \in 1..lastSeq[c] : \E i \in Rows : journal[i].client = c /\ journal[i].cseq = n
    /\ \A i, j \in Rows : /\ journal[i].client = c
                          /\ journal[j].client = c
                          /\ i < j
                          => journal[i].cseq < journal[j].cseq

\* A receipt is a proof of what the journal holds: its archive range is exactly the
\* batch it names, every row is under one receipt, and no two receipts overlap.
ReceiptsProveJournal ==
  /\ \A r \in receipts :
       /\ r.to = r.from + Len(r.batch.muts) - 1
       /\ r.to <= Len(journal)
       /\ \A i \in 1..Len(r.batch.muts) : journal[r.from + i - 1] = JournalRows(r.batch)[i]
  /\ \A i \in Rows : \E r \in receipts : r.from <= i /\ i <= r.to
  /\ \A r, q \in receipts : r.from <= q.to /\ q.from <= r.to => r = q

\* verify_integrity finds nothing: from the head back to the empty archive, every
\* prior hash is the chain hash of the receipt before it, and every boundary a
\* receipt was answered with is a checkpoint the archive accepts.
ChainVerifies ==
  /\ head.seq = Len(journal)
  /\ head \in checkpoints
  /\ \A p \in checkpoints : p.seq <= head.seq
  /\ \A r \in receipts :
       /\ r.chain = Chain(r.prior, r.batch, r.from, r.to)
       /\ [seq |-> r.to, chain |-> r.chain] \in checkpoints
       /\ [seq |-> r.from - 1, chain |-> r.prior] \in checkpoints
  /\ \A p, q \in checkpoints : p.seq = q.seq => p = q

\* The current state is the journal replayed: state_records keeps for each key the
\* last row of the journal that names it, and nothing else.
StateIsJournalReplayed ==
  \A k \in Keys :
    /\ stateRecords[k] = NoRecord => \A i \in Rows : journal[i].key # k
    /\ stateRecords[k] # NoRecord =>
         /\ stateRecords[k].seq \in Rows
         /\ journal[stateRecords[k].seq].key = k
         /\ journal[stateRecords[k].seq].kind = stateRecords[k].kind
         /\ \A i \in Rows : journal[i].key = k => i <= stateRecords[k].seq

Tombstoned(k) == stateRecords[k] # NoRecord /\ stateRecords[k].kind = "tombstone"

\* A key whose canonical record is a tombstone is never written by an upsert again
\* (_tombstone_conflict).
TombstonesStay == [][\A k \in Keys : Tombstoned(k) => Tombstoned(k)']_vars

\* What was acknowledged stays: no step drops or rewrites a journal row, a receipt
\* or a checkpoint, and no client stream goes back.
AcknowledgedStays ==
  [][/\ Len(journal) <= Len(journal')
     /\ \A i \in Rows : journal'[i] = journal[i]
     /\ receipts \subseteq receipts'
     /\ checkpoints \subseteq checkpoints'
     /\ \A c \in Clients : lastSeq[c] <= lastSeq'[c]]_vars
=============================================================================

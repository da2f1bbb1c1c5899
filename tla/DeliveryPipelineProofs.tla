------------------------ MODULE DeliveryPipelineProofs ------------------------
(***************************************************************************)
(* What the delivery pipeline guarantees for any operations, history and   *)
(* failures.  The invariant has four layers: what the archive holds, what  *)
(* any number of tabs keep true of the batches they claim, what one tab    *)
(* keeps true of the client sequences of those batches, and the order of   *)
(* what it has claimed and the archive has not committed, in which the     *)
(* pipeline is the durable log of DurableLog.  A batch is claimed while    *)
(* the outbox holds it or the companion has committed it; only Add claims  *)
(* one, so that most steps leave what is said of claimed batches alone.    *)
(* The last section is about the bootstrap that runs before the pipeline:  *)
(* there the invariant needs no layer of these, only that what a capture   *)
(* sends is not one of the bootstrap's batches.                            *)
(***************************************************************************)
EXTENDS BrowserBootstrap, FiniteSetTheorems, SequenceTheorems, WellFoundedInduction, TLAPS

\* The batches of this stream and of History.
StreamBatches ==
  {b \in [id : Ops, client : {Stream}, from : Nat \ {0}, muts : {MutationsOf[o] : o \in Ops}] :
     b.muts = MutationsOf[b.id]}

HistoryBatches == {History[i] : i \in DOMAIN History}

KnownBatches == StreamBatches \union HistoryBatches

ArchiveClients == {Stream} \union {History[i].client : i \in DOMAIN History}

JournalRow ==
  [batch : {b.id : b \in KnownBatches}, client : ArchiveClients, cseq : Nat,
   mid : MutationIds, key : Keys, kind : Archive!Kinds]

-----------------------------------------------------------------------------
\* The archive's layer: its batches, boundaries and rows, and where rows come from.
MutationsReceipted ==
  \A n \in 1..Len(journal) :
    \E r \in receipts : \E i \in 1..Len(r.batch.muts) : r.batch.muts[i].mid = journal[n].mid

ArchiveSound ==
  /\ \A r \in receipts :
       r.batch \in KnownBatches /\ [seq |-> r.to, chain |-> r.chain] \in checkpoints
  /\ head \in checkpoints
  /\ head.chain \in Seq([batch : KnownBatches, from : Nat, to : Nat])
  /\ \A p \in checkpoints : p.seq \in Nat /\ p.seq <= head.seq
  /\ retainedFrom = 1
  /\ lastSeq \in [ArchiveClients -> Nat]
  /\ stateRecords \in [Keys -> [kind : Archive!Kinds, seq : Nat] \union {NoRecord}]
  /\ journal \in Seq(JournalRow)
  /\ MutationsReceipted

LEMMA StreamBatchFacts ==
  ASSUME NEW b \in StreamBatches
  PROVE  /\ b.id \in Ops /\ b.client = Stream /\ b.from \in Nat \ {0}
         /\ b.muts = MutationsOf[b.id]
         /\ Len(b.muts) \in Nat \ {0}
         /\ DOMAIN b.muts = 1..Len(b.muts)
         /\ \A i \in 1..Len(b.muts) : b.muts[i] \in Archive!Mutation
         /\ Archive!To(b) \in Nat /\ b.from <= Archive!To(b)
         /\ Archive!To(b) = b.from + Len(b.muts) - 1
<1>1. /\ b.id \in Ops /\ b.client = Stream /\ b.from \in Nat \ {0}
      /\ b.muts = MutationsOf[b.id]
  BY DEF StreamBatches
<1>2. b.muts \in Seq(Archive!Mutation) /\ b.muts # <<>>
  BY <1>1, OperationsAssumption DEF Archive!Mutation, Archive!Kinds
<1>3. Len(b.muts) \in Nat \ {0} /\ DOMAIN b.muts = 1..Len(b.muts)
  BY <1>2, EmptySeq, LenProperties
<1>4. \A i \in 1..Len(b.muts) : b.muts[i] \in Archive!Mutation
  BY <1>2, ElementOfSeq
<1> QED
  BY <1>1, <1>3, <1>4 DEF Archive!To

LEMMA HistoryBatchFacts ==
  ASSUME NEW b \in HistoryBatches
  PROVE  /\ b.id \notin Ops /\ b.client \in ArchiveClients /\ b.client # Stream
         /\ b.from \in Nat \ {0}
         /\ Len(b.muts) \in Nat \ {0}
         /\ DOMAIN b.muts = 1..Len(b.muts)
         /\ \A i \in 1..Len(b.muts) : b.muts[i] \in Archive!Mutation
         /\ Archive!To(b) \in Nat
<1>1. PICK i \in DOMAIN History : b = History[i]
  BY DEF HistoryBatches
<1>2. Archive!WellFormed(b) /\ b.id \notin Ops /\ b.client # Stream
  BY <1>1, HistoryAssumption
<1>3. b.muts \in Seq(Archive!Mutation) /\ Len(b.muts) >= 1 /\ b.from \in Nat \ {0}
  BY <1>2 DEF Archive!WellFormed
<1>4. /\ Len(b.muts) \in Nat \ {0} /\ DOMAIN b.muts = 1..Len(b.muts)
      /\ \A j \in 1..Len(b.muts) : b.muts[j] \in Archive!Mutation
  BY <1>3, LenProperties, ElementOfSeq
<1> QED
  BY <1>1, <1>2, <1>3, <1>4 DEF Archive!To, ArchiveClients

LEMMA KnownBatchFacts ==
  ASSUME NEW b \in KnownBatches
  PROVE  /\ b.client \in ArchiveClients
         /\ b.from \in Nat \ {0}
         /\ Len(b.muts) \in Nat \ {0}
         /\ DOMAIN b.muts = 1..Len(b.muts)
         /\ \A i \in 1..Len(b.muts) : b.muts[i] \in Archive!Mutation
         /\ Archive!To(b) \in Nat
  BY StreamBatchFacts, HistoryBatchFacts DEF KnownBatches, ArchiveClients

\* A non-empty bounded set of naturals has a greatest element.
LEMMA GreatestExists ==
  ASSUME NEW n \in Nat, NEW T, T \subseteq 0..n, T # {}
  PROVE  \E i \in T : \A j \in T : j <= i
<1> DEFINE R == {p \in Nat \X Nat : p[1] < p[2]}
           Below == {n - i : i \in T}
<1>1. IsWellFoundedOn(R, Nat)
  BY NatLessThanWellFounded DEF OpToRel
<1>2. Below \subseteq Nat /\ Below # {}
  <2>1. \A i \in T : i \in 0..n /\ n - i \in Nat
    OBVIOUS
  <2>2. PICK i \in T : TRUE
    OBVIOUS
  <2>3. n - i \in Below
    BY <2>2
  <2> QED
    BY <2>1, <2>3
<1>3. PICK x \in Below : \A y \in Below : ~ (<<y, x>> \in R)
  BY <1>1, <1>2, WFMin
<1>4. PICK i \in T : x = n - i
  OBVIOUS
<1>5. ASSUME NEW j \in T PROVE j <= i
  <2>1. n - j \in Below /\ n - j \in Nat /\ x \in Nat
    BY <1>2
  <2>2. ~ (n - j < x)
    BY <1>3, <2>1
  <2> QED
    BY <1>4, <2>2
<1> QED
  BY <1>5

LEMMA LastOnFacts ==
  ASSUME NEW b \in KnownBatches, NEW k, Archive!Touches(b, k)
  PROVE  /\ Archive!LastOn(b, k) \in 1..Len(b.muts)
         /\ b.muts[Archive!LastOn(b, k)].key = k
<1> DEFINE T == {i \in 1..Len(b.muts) : b.muts[i].key = k}
<1>1. Len(b.muts) \in Nat
  BY KnownBatchFacts
<1>2. T \subseteq 0..Len(b.muts) /\ T # {}
  BY <1>1 DEF Archive!Touches
<1>3. \E i \in T : \A j \in T : j <= i
  BY <1>1, <1>2, GreatestExists
<1>4. \E i \in 1..Len(b.muts) :
        /\ b.muts[i].key = k
        /\ \A j \in 1..Len(b.muts) : b.muts[j].key = k => j <= i
  BY <1>3
<1> QED
  BY <1>4 DEF Archive!LastOn

LEMMA JournalRowsFacts ==
  ASSUME NEW b \in KnownBatches
  PROVE  /\ Archive!JournalRows(b) \in Seq(JournalRow)
         /\ Len(Archive!JournalRows(b)) = Len(b.muts)
         /\ \A i \in 1..Len(b.muts) : Archive!JournalRows(b)[i].mid = b.muts[i].mid
<1> DEFINE n == Len(b.muts)
           rows == Archive!JournalRows(b)
<1>1. /\ n \in Nat /\ b.client \in ArchiveClients /\ b.from \in Nat \ {0}
      /\ \A i \in 1..n : b.muts[i] \in Archive!Mutation
  BY KnownBatchFacts
<1>2. ASSUME NEW i \in 1..n
      PROVE  rows[i] \in JournalRow /\ rows[i].mid = b.muts[i].mid
  <2>1. b.from + i - 1 \in Nat
    BY <1>1
  <2>2. b.muts[i].mid \in MutationIds /\ b.muts[i].key \in Keys /\ b.muts[i].kind \in Archive!Kinds
    BY <1>1 DEF Archive!Mutation
  <2>3. b.id \in {c.id : c \in KnownBatches}
    OBVIOUS
  <2>4. rows[i] = [batch |-> b.id, client |-> b.client, cseq |-> b.from + i - 1,
                   mid |-> b.muts[i].mid, key |-> b.muts[i].key, kind |-> b.muts[i].kind]
    BY DEF Archive!JournalRows
  <2> QED
    BY <1>1, <2>1, <2>2, <2>3, <2>4 DEF JournalRow
<1>3. rows \in [1..n -> JournalRow]
  BY <1>2 DEF Archive!JournalRows
<1>4. rows \in Seq(JournalRow)
  BY <1>1, <1>3, SeqDef
<1>5. Len(rows) = n
  BY <1>1, <1>3, <1>4, LenProperties
<1> QED
  BY <1>2, <1>4, <1>5
-----------------------------------------------------------------------------
LEMMA InitArchiveSound == Archive!Init => ArchiveSound
<1> SUFFICES ASSUME Archive!Init PROVE ArchiveSound
  OBVIOUS
<1>1. /\ receipts = {} /\ retainedFrom = 1 /\ head = [seq |-> 0, chain |-> <<>>]
      /\ checkpoints = {[seq |-> 0, chain |-> <<>>]}
      /\ lastSeq \in [ArchiveClients -> Nat]
      /\ stateRecords \in [Keys -> {NoRecord}]
      /\ journal = <<>>
  BY DEF Archive!Init, ArchiveClients
<1>2. /\ journal \in Seq(JournalRow) /\ Len(journal) = 0
      /\ head.chain \in Seq([batch : KnownBatches, from : Nat, to : Nat])
  BY <1>1, EmptySeq
<1>3. MutationsReceipted
  BY <1>2 DEF MutationsReceipted
<1> QED
  BY <1>1, <1>2, <1>3 DEF ArchiveSound

LEMMA AdmitArchiveSound ==
  ASSUME ArchiveSound, NEW c, Archive!AdmitClient(c)
  PROVE  ArchiveSound'
<1>1. UNCHANGED <<lastSeq, journal, stateRecords, receipts, checkpoints, head, retainedFrom>>
  BY DEF Archive!AdmitClient
<1>2. MutationsReceipted'
  BY <1>1 DEF ArchiveSound, MutationsReceipted
<1> QED
  BY <1>1, <1>2 DEF ArchiveSound

\* What a commit adds to the archive.
LEMMA CommitAdds ==
  ASSUME ArchiveSound, NEW b \in KnownBatches, NEW cp, Archive!Commit(b, cp)
  PROVE  /\ Archive!ReceiptFor(b).batch = b
         /\ receipts' = receipts \union {Archive!ReceiptFor(b)}
         /\ checkpoints' = checkpoints \union {Archive!HeadAfter(b)}
         /\ Archive!HeadAfter(b) = [seq |-> Archive!ReceiptFor(b).to,
                                   chain |-> Archive!ReceiptFor(b).chain]
         /\ Archive!HeadAfter(b).seq \in Nat /\ head.seq < Archive!HeadAfter(b).seq
         /\ head.seq \in Nat
         /\ lastSeq' = [lastSeq EXCEPT ![b.client] = Archive!To(b)]
         /\ b.from = lastSeq[b.client] + 1
<1>1. head.seq \in Nat /\ Len(b.muts) \in Nat \ {0}
  BY KnownBatchFacts DEF ArchiveSound
<1>2. Archive!HeadAfter(b).seq = head.seq + Len(b.muts)
  BY DEF Archive!HeadAfter, Archive!ArchiveTo
<1>3. Archive!ReceiptFor(b).batch = b
  BY DEF Archive!ReceiptFor
<1>4. Archive!HeadAfter(b) = [seq |-> Archive!ReceiptFor(b).to,
                              chain |-> Archive!ReceiptFor(b).chain]
  BY DEF Archive!ReceiptFor, Archive!HeadAfter
<1>5. /\ receipts' = receipts \union {Archive!ReceiptFor(b)}
      /\ checkpoints' = checkpoints \union {Archive!HeadAfter(b)}
      /\ lastSeq' = [lastSeq EXCEPT ![b.client] = Archive!To(b)]
      /\ b.from = lastSeq[b.client] + 1
  BY DEF Archive!Commit, Archive!NextInSequence
<1> QED
  BY <1>1, <1>2, <1>3, <1>4, <1>5

LEMMA CommitMutationsReceipted ==
  ASSUME ArchiveSound, NEW b \in KnownBatches, NEW cp, Archive!Commit(b, cp)
  PROVE  journal' \in Seq(JournalRow) /\ MutationsReceipted'
<1> DEFINE rows == Archive!JournalRows(b)
           both == journal \o rows
<1>1. /\ journal \in Seq(JournalRow) /\ rows \in Seq(JournalRow)
      /\ Len(rows) = Len(b.muts)
      /\ Len(journal) \in Nat /\ Len(b.muts) \in Nat
      /\ \A i \in 1..Len(b.muts) : rows[i].mid = b.muts[i].mid
  BY JournalRowsFacts, KnownBatchFacts, LenProperties DEF ArchiveSound
<1>2. journal' = both
  BY DEF Archive!Commit
<1> HIDE DEF rows
<1>3. /\ both \in Seq(JournalRow)
      /\ Len(both) = Len(journal) + Len(rows)
      /\ \A i \in 1..(Len(journal) + Len(rows)) :
           both[i] = IF i <= Len(journal) THEN journal[i] ELSE rows[i - Len(journal)]
  BY <1>1, ConcatProperties
<1> HIDE DEF both
<1>4. /\ Archive!ReceiptFor(b).batch = b
      /\ receipts' = receipts \union {Archive!ReceiptFor(b)}
  BY CommitAdds
<1>5. ASSUME NEW n \in 1..Len(journal')
      PROVE  \E r \in receipts' : \E i \in 1..Len(r.batch.muts) :
               r.batch.muts[i].mid = journal'[n].mid
  <2>1. CASE n <= Len(journal)
    <3>1. n \in 1..Len(journal) /\ journal'[n] = journal[n]
      BY <1>1, <1>2, <1>3, <2>1
    <3> QED
      BY <1>4, <3>1 DEF ArchiveSound, MutationsReceipted
  <2>2. CASE ~ (n <= Len(journal))
    <3>1. n - Len(journal) \in 1..Len(b.muts) /\ journal'[n] = rows[n - Len(journal)]
      BY <1>1, <1>2, <1>3, <2>2
    <3>2. b.muts[n - Len(journal)].mid = journal'[n].mid
      BY <1>1, <3>1
    <3> QED
      BY <1>4, <3>1, <3>2
  <2> QED
    BY <2>1, <2>2
<1> QED
  BY <1>2, <1>3, <1>5 DEF MutationsReceipted

LEMMA CommitStateRecords ==
  ASSUME ArchiveSound, NEW b \in KnownBatches, NEW cp, Archive!Commit(b, cp)
  PROVE  /\ stateRecords' \in [Keys -> [kind : Archive!Kinds, seq : Nat] \union {NoRecord}]
         /\ \A k \in Keys : Archive!Tombstoned(k) => Archive!Tombstoned(k)'
<1> DEFINE written(k) == [kind |-> b.muts[Archive!LastOn(b, k)].kind,
                          seq |-> head.seq + Archive!LastOn(b, k)]
<1>1. stateRecords' = [k \in Keys |-> IF Archive!Touches(b, k) THEN written(k)
                                                                ELSE stateRecords[k]]
  BY DEF Archive!Commit
<1>2. ASSUME NEW k \in Keys, Archive!Touches(b, k)
      PROVE  /\ written(k) \in [kind : Archive!Kinds, seq : Nat]
             /\ Archive!Tombstoned(k) => written(k).kind = "tombstone"
  <2>1. /\ Archive!LastOn(b, k) \in 1..Len(b.muts)
        /\ b.muts[Archive!LastOn(b, k)].key = k
    BY <1>2, LastOnFacts
  <2>2. head.seq \in Nat /\ Len(b.muts) \in Nat
    BY KnownBatchFacts DEF ArchiveSound
  <2>3. b.muts[Archive!LastOn(b, k)].kind \in Archive!Kinds
    BY <2>1, KnownBatchFacts DEF Archive!Mutation
  <2>4. Archive!Tombstoned(k) => b.muts[Archive!LastOn(b, k)].kind = "tombstone"
    BY <2>1 DEF Archive!Commit, Archive!TombstoneConflict, Archive!Tombstoned
  <2> QED
    BY <2>1, <2>2, <2>3, <2>4
<1>3. stateRecords \in [Keys -> [kind : Archive!Kinds, seq : Nat] \union {NoRecord}]
  BY DEF ArchiveSound
<1> HIDE DEF written
<1>4. stateRecords' \in [Keys -> [kind : Archive!Kinds, seq : Nat] \union {NoRecord}]
  BY <1>1, <1>2, <1>3
<1>5. ASSUME NEW k \in Keys, Archive!Tombstoned(k) PROVE Archive!Tombstoned(k)'
  <2>1. CASE Archive!Touches(b, k)
    <3>1. stateRecords'[k] = written(k)
      BY <1>1, <2>1
    <3>2. written(k) # NoRecord /\ written(k).kind = "tombstone"
      BY <1>2, <1>5, <2>1, RecordAssumption
    <3> QED
      BY <3>1, <3>2 DEF Archive!Tombstoned
  <2>2. CASE ~ Archive!Touches(b, k)
    BY <1>1, <1>5, <2>2 DEF Archive!Tombstoned
  <2> QED
    BY <2>1, <2>2
<1> QED
  BY <1>4, <1>5

LEMMA CommitArchiveSound ==
  ASSUME ArchiveSound, NEW b \in KnownBatches, NEW cp, Archive!Commit(b, cp)
  PROVE  ArchiveSound'
<1> DEFINE new == Archive!ReceiptFor(b)
           top == Archive!HeadAfter(b)
           Links == [batch : KnownBatches, from : Nat, to : Nat]
           link == [batch |-> b, from |-> Archive!ArchiveFrom(b), to |-> Archive!ArchiveTo(b)]
<1>1. /\ new.batch = b /\ receipts' = receipts \union {new}
      /\ checkpoints' = checkpoints \union {top}
      /\ top = [seq |-> new.to, chain |-> new.chain]
      /\ top.seq \in Nat /\ head.seq < top.seq /\ head.seq \in Nat
      /\ lastSeq' = [lastSeq EXCEPT ![b.client] = Archive!To(b)]
  BY CommitAdds
<1>2. head' = top /\ retainedFrom' = retainedFrom
  BY DEF Archive!Commit
<1>3. top.chain = Append(head.chain, link)
  BY DEF Archive!HeadAfter, Archive!Chain
<1>4. link \in Links
  BY <1>1, KnownBatchFacts DEF Archive!ArchiveFrom, Archive!ArchiveTo
<1> HIDE DEF new, top, link
<1>5. top.chain \in Seq(Links)
  BY <1>3, <1>4, AppendProperties DEF ArchiveSound
<1>6. \A r \in receipts' :
        r.batch \in KnownBatches /\ [seq |-> r.to, chain |-> r.chain] \in checkpoints'
  BY <1>1 DEF ArchiveSound
<1>7. \A p \in checkpoints' : p.seq \in Nat /\ p.seq <= head'.seq
  BY <1>1, <1>2 DEF ArchiveSound
<1>8. lastSeq' \in [ArchiveClients -> Nat]
  BY <1>1, KnownBatchFacts DEF ArchiveSound
<1>9. /\ journal' \in Seq(JournalRow) /\ MutationsReceipted'
      /\ stateRecords' \in [Keys -> [kind : Archive!Kinds, seq : Nat] \union {NoRecord}]
  BY CommitMutationsReceipted, CommitStateRecords
<1> QED
  BY <1>1, <1>2, <1>5, <1>6, <1>7, <1>8, <1>9 DEF ArchiveSound

LEMMA CommitKeepsConflict ==
  ASSUME ArchiveSound, NEW b \in KnownBatches, NEW cp, Archive!Commit(b, cp),
         NEW c \in KnownBatches, Archive!TombstoneConflict(c)
  PROVE  Archive!TombstoneConflict(c)'
<1>1. PICK i \in 1..Len(c.muts) : c.muts[i].kind # "tombstone" /\ Archive!Tombstoned(c.muts[i].key)
  BY DEF Archive!TombstoneConflict, Archive!Tombstoned
<1>2. c.muts[i].key \in Keys
  BY KnownBatchFacts DEF Archive!Mutation
<1>3. Archive!Tombstoned(c.muts[i].key)'
  BY <1>1, <1>2, CommitStateRecords
<1> QED
  BY <1>1, <1>3 DEF Archive!TombstoneConflict, Archive!Tombstoned

-----------------------------------------------------------------------------
\* The answer is the first refusal that applies.
LEMMA AnswerFacts ==
  ASSUME NEW b, NEW cp
  PROVE  /\ Archive!Answer(b, cp) = "duplicate"
              => Archive!Known(b) /\ Archive!Receipt(b.id).batch = b
         /\ /\ b.client \in admitted
            /\ ~ (cp # Unknown /\ cp.seq > head.seq)
            /\ ~ (cp # Unknown /\ Archive!Expired(cp))
            /\ ~ (cp # Unknown /\ cp \notin checkpoints)
            /\ ~ (Archive!Known(b) /\ Archive!Receipt(b.id).batch # b)
            /\ ~ Archive!Known(b) => Archive!Fresh(b) /\ Archive!NextInSequence(b)
            => \/ Archive!Answer(b, cp) \in {"committed", "duplicate"}
               \/ Archive!TombstoneConflict(b)
<1> DEFINE applies == Archive!Applies(b, cp)
           applying == {i \in DOMAIN Archive!Reasons : applies[i]}
           first == CHOOSE i \in applying : \A j \in applying : i <= j
<1>1. DOMAIN Archive!Reasons = 1..9
  BY DEF Archive!Reasons
<1>2. ASSUME applying # {}
      PROVE  first \in applying /\ \A j \in applying : first <= j
  <2>1. applying \subseteq 1..9
    BY <1>1
  <2>2. \E i \in applying : \A j \in applying : i <= j
    <3> HIDE DEF applying
    <3>1. \E k \in applying : TRUE
      BY <1>2
    <3>2. \A k \in applying : k = 1 \/ k = 2 \/ k = 3 \/ k = 4 \/ k = 5 \/ k = 6 \/ k = 7 \/ k = 8 \/ k = 9
      BY <2>1
    <3> QED
      BY <3>1, <3>2
  <2> QED
    BY <2>2
<1>3. Archive!Answer(b, cp) = IF applying = {} THEN "committed" ELSE Archive!Reasons[first]
  BY DEF Archive!Answer
<1>4. /\ applies[1] <=> b.client \notin admitted
      /\ applies[2] <=> cp # Unknown /\ cp.seq > head.seq
      /\ applies[3] <=> cp # Unknown /\ Archive!Expired(cp)
      /\ applies[4] <=> cp # Unknown /\ cp \notin checkpoints
      /\ applies[5] <=> Archive!Known(b) /\ Archive!Receipt(b.id).batch # b
      /\ applies[6] <=> Archive!Known(b)
      /\ applies[7] <=> ~ Archive!Fresh(b)
      /\ applies[8] <=> ~ Archive!NextInSequence(b)
      /\ applies[9] <=> Archive!TombstoneConflict(b)
  BY DEF Archive!Applies, Unknown
<1>5. /\ Archive!Reasons[6] = "duplicate"
      /\ \A i \in 1..9 : Archive!Reasons[i] = "duplicate" => i = 6
  BY DEF Archive!Reasons
<1>6. ASSUME Archive!Answer(b, cp) = "duplicate"
      PROVE  Archive!Known(b) /\ Archive!Receipt(b.id).batch = b
  <2>1. applying # {} /\ first = 6
    BY <1>1, <1>2, <1>3, <1>5, <1>6
  <2>2. applies[6] /\ ~ applies[5]
    BY <1>1, <1>2, <2>1
  <2> QED
    BY <1>4, <2>2
<1>7. ASSUME /\ b.client \in admitted
             /\ ~ (cp # Unknown /\ cp.seq > head.seq)
             /\ ~ (cp # Unknown /\ Archive!Expired(cp))
             /\ ~ (cp # Unknown /\ cp \notin checkpoints)
             /\ ~ (Archive!Known(b) /\ Archive!Receipt(b.id).batch # b)
             /\ ~ Archive!Known(b) => Archive!Fresh(b) /\ Archive!NextInSequence(b)
      PROVE  \/ Archive!Answer(b, cp) \in {"committed", "duplicate"}
             \/ Archive!TombstoneConflict(b)
  <2>1. ~ applies[1] /\ ~ applies[2] /\ ~ applies[3] /\ ~ applies[4] /\ ~ applies[5]
    BY <1>4, <1>7
  <2>2. CASE applying = {}
    BY <1>3, <2>2
  <2>3. CASE applying # {} /\ Archive!Known(b)
    <3>1. 6 \in applying
      BY <1>1, <1>4, <2>3
    <3>2. first \in 1..9 /\ first <= 6 /\ applies[first]
      BY <1>1, <1>2, <2>3, <3>1
    <3>3. first = 6
      <4> HIDE DEF first, applies
      <4> QED
        BY <2>1, <3>2
    <3> QED
      BY <1>3, <1>5, <2>3, <3>3
  <2>4. CASE applying # {} /\ ~ Archive!Known(b)
    <3>1. ~ applies[6] /\ ~ applies[7] /\ ~ applies[8]
      BY <1>4, <1>7, <2>4
    <3>2. first \in 1..9 /\ applies[first]
      BY <1>1, <1>2, <2>4
    <3>3. first = 9
      <4> HIDE DEF first, applies
      <4> QED
        BY <2>1, <3>1, <3>2
    <3> QED
      BY <1>4, <3>2, <3>3
  <2> QED
    BY <2>2, <2>3, <2>4
<1> QED
  BY <1>6, <1>7
-----------------------------------------------------------------------------
\* The layer of any number of tabs.  What may be quoted, asked for, kept and answered.
Quotable == checkpoints \union {Unknown}

Requests == [batch : StreamBatches, cp : Quotable]

OutboxRows == [batch : StreamBatches, cp : Quotable, status : {"pending", "quarantined"}]

Messages ==
  {NoMessage} \union [kind : {"request"}, request : Requests]
    \union [kind : {"receipt"}, cp : checkpoints] \union [kind : {"refusal"}]

Outcomes == {"new", "unreachable", "rejected", "resolved", "lost"}

Held(b) == \E r \in outbox : r.batch = b

HasClaim(o) == \E b \in Claimed : b.id = o

SharedTypes ==
  /\ outbox \subseteq OutboxRows /\ IsFiniteSet(outbox)
  /\ storedNext \in Nat \ {0}
  /\ late \subseteq Requests
  /\ outcome \in [Ops -> Outcomes]

TabTypes ==
  /\ pc \in [Tabs -> Places]
  /\ doing \in [Tabs -> Ops \union {NoOp}]
  /\ next \in [Tabs -> Nat \ {0}]
  /\ known \in [Tabs -> Quotable]
  /\ queue \in [Tabs -> Seq(Requests)]
  /\ sending \in [Tabs -> Requests \union {NoMessage}]
  /\ wire \in [Tabs -> Messages]

\* An operation has one batch, and a batch one row; what was given up on is claimed.
ClaimSound ==
  /\ \A b, c \in Claimed : b.id = c.id => b = c
  /\ \A r, q \in outbox : r.batch = q.batch => r = q
  /\ \E n \in Nat : \A c \in Claimed : Archive!To(c) < n
  /\ \A q \in late : q.batch \in Claimed

\* An operation that has settled or not begun claims nothing, one tab runs it, and
\* what has resolved is claimed.
OutcomeSound ==
  /\ \A o \in Ops : outcome[o] = "new" /\ (\A t \in Tabs : doing[t] # o) => ~ HasClaim(o)
  /\ \A t, u \in Tabs : doing[t] = doing[u] => t = u \/ doing[t] = NoOp
  /\ ResolvedIsKept

\* What a tab has asked the companion for.
Asked(t) == IF At(t, "sent") THEN sending[t] ELSE Head(queue[t])

BeforeAdd == {"hello", "stored", "pending", "list", "replay", "replaying", "add"}

\* What a tab knows at each await.
TabSound(t) ==
  /\ \A i \in 1..Len(queue[t]) : queue[t][i].batch \in Claimed
  /\ At(t, "replaying") => queue[t] # <<>>
  /\ pc[t] \in {"add", "setnext", "choose", "sent"} =>
       sending[t] \in Requests /\ sending[t].batch.id = doing[t]
  /\ pc[t] \in {"setnext", "choose", "sent"} => sending[t].batch \in Claimed
  /\ wire[t] # NoMessage => pc[t] \in {"replaying", "sent"}
  /\ Received(t, "request") => wire[t].request = Asked(t)
  /\ Received(t, "receipt") => Committed(Asked(t).batch) /\ wire[t].cp \in checkpoints
  /\ At(t, "idle") => doing[t] = NoOp
  /\ doing[t] \in Ops => outcome[doing[t]] = "new"
  /\ doing[t] \in Ops /\ pc[t] \in BeforeAdd => ~ HasClaim(doing[t])
  /\ At(t, "project") /\ doing[t] # NoOp => HasClaim(doing[t])

Sound ==
  /\ ArchiveSound
  /\ SharedTypes
  /\ TabTypes
  /\ ClaimSound
  /\ OutcomeSound
  /\ \A t \in Tabs : TabSound(t)

-----------------------------------------------------------------------------
\* What a step of the shared parts does to the claimed batches.
LEMMA ClaimedIff ==
  ASSUME outbox \subseteq OutboxRows
  PROVE  \A b : b \in Claimed <=> Held(b) \/ (Committed(b) /\ b.client = Stream)
<1>1. \A r \in outbox : r.batch.client = Stream
  BY StreamBatchFacts DEF OutboxRows
<1> QED
  BY <1>1 DEF Claimed, Held, Committed

LEMMA ClaimedIffPrime ==
  ASSUME outbox' \subseteq OutboxRows'
  PROVE  \A b : b \in Claimed' <=> Held(b)' \/ (Committed(b)' /\ b.client = Stream)
<1>1. \A r \in outbox' : r.batch.client = Stream
  BY StreamBatchFacts DEF OutboxRows
<1> QED
  BY <1>1 DEF Claimed, Held, Committed

LEMMA ClaimedAreStream ==
  ASSUME ArchiveSound, SharedTypes, NEW b \in Claimed
  PROVE  b \in StreamBatches
<1>1. CASE Held(b)
  BY <1>1 DEF Held, SharedTypes, OutboxRows
<1>2. CASE Committed(b) /\ b.client = Stream
  BY <1>2, HistoryBatchFacts DEF Committed, ArchiveSound, KnownBatches
<1> QED
  BY <1>1, <1>2, ClaimedIff DEF SharedTypes

LEMMA SameTypes ==
  ASSUME UNCHANGED checkpoints
  PROVE  /\ Quotable' = Quotable /\ Requests' = Requests
         /\ OutboxRows' = OutboxRows /\ Messages' = Messages
  BY DEF Quotable, Requests, OutboxRows, Messages

LEMMA MoreTypes ==
  ASSUME checkpoints \subseteq checkpoints'
  PROVE  /\ Quotable \subseteq Quotable' /\ Requests \subseteq Requests'
         /\ OutboxRows \subseteq OutboxRows' /\ Messages \subseteq Messages'
         /\ Seq(Requests) \subseteq Seq(Requests')
<1>1. /\ Quotable \subseteq Quotable' /\ Requests \subseteq Requests'
      /\ OutboxRows \subseteq OutboxRows'
  BY DEF Quotable, Requests, OutboxRows
<1>2. Messages \subseteq Messages'
  BY <1>1 DEF Messages
<1>3. Seq(Requests) \subseteq Seq(Requests')
  BY <1>1, SeqMonotonic
<1> QED
  BY <1>1, <1>2, <1>3

LEMMA SameClaims ==
  ASSUME UNCHANGED <<outbox, receipts>>
  PROVE  /\ Claimed' = Claimed
         /\ \A b : Committed(b)' <=> Committed(b)
         /\ \A b : Held(b)' <=> Held(b)
  BY DEF Claimed, Committed, Held

\* What a commit of a claimed batch, or of History, does.
LEMMA CommitClaims ==
  ASSUME ArchiveSound, SharedTypes, NEW b \in KnownBatches, NEW cp, Archive!Commit(b, cp),
         b \in Claimed \/ b \in HistoryBatches, UNCHANGED outbox
  PROVE  /\ Claimed' = Claimed
         /\ \A c : Committed(c)' <=> Committed(c) \/ c = b
         /\ \A c : Held(c)' <=> Held(c)
<1>1. \A c : Committed(c)' <=> Committed(c) \/ c = b
  <2>1. receipts' = receipts \union {Archive!ReceiptFor(b)} /\ Archive!ReceiptFor(b).batch = b
    BY CommitAdds
  <2> QED
    BY <2>1 DEF Committed
<1>2. \A c : Held(c)' <=> Held(c)
  BY DEF Held
<1>3. outbox' \subseteq OutboxRows'
  <2>1. checkpoints \subseteq checkpoints'
    BY DEF Archive!Commit
  <2> QED
    BY <2>1, MoreTypes DEF SharedTypes
<1>4. b.client = Stream => b \in Claimed
  BY HistoryBatchFacts
<1>5. \A c : c \in Claimed' <=> c \in Claimed
  BY <1>1, <1>2, <1>3, <1>4, ClaimedIff, ClaimedIffPrime DEF SharedTypes
<1> QED
  BY <1>1, <1>2, <1>5

\* Acknowledging a committed batch removes its row, and nothing else.
LEMMA AcknowledgeClaims ==
  ASSUME ArchiveSound, SharedTypes, ClaimSound, NEW b \in Claimed, Committed(b),
         outbox' = Without(b), UNCHANGED <<receipts, checkpoints>>
  PROVE  /\ Claimed' = Claimed
         /\ \A c : Committed(c)' <=> Committed(c)
         /\ \A c : Held(c)' <=> Held(c) /\ c # b
         /\ outbox' \subseteq outbox
         /\ \A r \in outbox' : r.batch # b
<1>1. \A c : Committed(c)' <=> Committed(c)
  BY DEF Committed
<1>2. outbox' \subseteq outbox /\ outbox' \subseteq OutboxRows'
  BY SameTypes DEF Without, SharedTypes
<1>3. \A r \in outbox : r.batch.id = b.id <=> r.batch = b
  <2>1. \A r \in outbox : r.batch \in Claimed
    BY ClaimedIff DEF SharedTypes, Held
  <2> QED
    BY <2>1 DEF ClaimSound
<1>4. \A c : Held(c)' <=> Held(c) /\ c # b
  BY <1>3 DEF Held, Without
<1>5. \A c : c \in Claimed' <=> c \in Claimed
  <2>1. b.client = Stream
    BY ClaimedAreStream, StreamBatchFacts
  <2> QED
    BY <1>1, <1>2, <1>4, <2>1, ClaimedIff, ClaimedIffPrime DEF SharedTypes
<1>6. \A r \in outbox' : r.batch # b
  BY DEF Without
<1> QED
  BY <1>1, <1>2, <1>4, <1>5, <1>6

\* Quarantining a batch changes the status of its row, and nothing else.
LEMMA QuarantineClaims ==
  ASSUME ArchiveSound, SharedTypes, ClaimSound, NEW b \in Claimed,
         outbox' = {IF r.batch.id = b.id THEN [r EXCEPT !.status = "quarantined"] ELSE r :
                      r \in outbox},
         UNCHANGED <<receipts, checkpoints>>
  PROVE  /\ Claimed' = Claimed
         /\ \A c : Committed(c)' <=> Committed(c)
         /\ \A c : Held(c)' <=> Held(c)
         /\ outbox' \subseteq OutboxRows' /\ IsFiniteSet(outbox')
         /\ \A r, q \in outbox' : r.batch = q.batch => r = q
         /\ \A r \in outbox' : r.status = "quarantined" => r \in outbox \/ r.batch = b
<1> DEFINE mark(r) == IF r.batch.id = b.id THEN [r EXCEPT !.status = "quarantined"] ELSE r
           marks == [r \in outbox |-> mark(r)]
<1>1. \A r \in outbox : r.batch \in Claimed /\ r \in OutboxRows
  BY ClaimedIff DEF SharedTypes, Held
<1>2. \A r \in outbox : /\ mark(r) \in OutboxRows
                        /\ mark(r).batch = r.batch
                        /\ mark(r).status = "quarantined" => mark(r) = r \/ r.batch = b
  <2> SUFFICES ASSUME NEW r \in outbox
               PROVE  /\ mark(r) \in OutboxRows
                      /\ mark(r).batch = r.batch
                      /\ mark(r).status = "quarantined" => mark(r) = r \/ r.batch = b
    OBVIOUS
  <2>1. r.batch.id = b.id => r.batch = b
    BY <1>1 DEF ClaimSound
  <2>2. r \in OutboxRows
    BY <1>1
  <2> QED
    BY <2>1, <2>2 DEF OutboxRows
<1> HIDE DEF mark
<1>3. outbox' = {mark(r) : r \in outbox}
  BY DEF mark
<1>4. outbox' \subseteq OutboxRows'
  BY <1>2, <1>3, SameTypes
<1>5. IsFiniteSet(outbox')
  <2>1. marks \in Surjection(outbox, outbox')
    BY <1>3 DEF Surjection
  <2> QED
    BY <2>1, FS_Surjection DEF SharedTypes
<1>6. \A c : (Committed(c)' <=> Committed(c)) /\ (Held(c)' <=> Held(c))
  BY <1>2, <1>3 DEF Committed, Held
<1>7. \A c : c \in Claimed' <=> c \in Claimed
  BY <1>4, <1>6, ClaimedIff, ClaimedIffPrime DEF SharedTypes
<1>8. \A r, q \in outbox' : r.batch = q.batch => r = q
  BY <1>2, <1>3 DEF ClaimSound
<1>9. \A r \in outbox' : r.status = "quarantined" => r \in outbox \/ r.batch = b
  BY <1>2, <1>3
<1> QED
  BY <1>4, <1>5, <1>6, <1>7, <1>8, <1>9

\* Adding a row claims its batch.
LEMMA AddClaims ==
  ASSUME ArchiveSound, SharedTypes, NEW row \in OutboxRows, outbox' = outbox \union {row},
         UNCHANGED <<receipts, checkpoints>>
  PROVE  /\ Claimed' = Claimed \union {row.batch}
         /\ \A c : Committed(c)' <=> Committed(c)
         /\ \A c : Held(c)' <=> Held(c) \/ c = row.batch
         /\ outbox' \subseteq OutboxRows' /\ IsFiniteSet(outbox')
<1>1. outbox' \subseteq OutboxRows' /\ IsFiniteSet(outbox')
  BY SameTypes, FS_AddElement DEF SharedTypes
<1>2. \A c : (Committed(c)' <=> Committed(c)) /\ (Held(c)' <=> Held(c) \/ c = row.batch)
  BY DEF Committed, Held
<1>3. \A c : c \in Claimed' <=> c \in Claimed \/ c = row.batch
  BY <1>1, <1>2, ClaimedIff, ClaimedIffPrime DEF SharedTypes
<1> QED
  BY <1>1, <1>2, <1>3

-----------------------------------------------------------------------------
\* A step of one tab leaves the others alone.
OnlyTab(t) ==
  \A u \in Tabs : u # t =>
    /\ pc'[u] = pc[u] /\ doing'[u] = doing[u] /\ queue'[u] = queue[u]
    /\ sending'[u] = sending[u] /\ wire'[u] = wire[u]

LEMMA OtherTab ==
  ASSUME Sound, NEW t \in Tabs, NEW u \in Tabs, u # t, OnlyTab(t),
         checkpoints \subseteq checkpoints', Claimed \subseteq Claimed',
         \A b \in Claimed' : b \in Claimed \/ (b.id = doing[t] /\ doing[t] \in Ops),
         \A b : Committed(b) => Committed(b)',
         \A o \in Ops : outcome'[o] = outcome[o] \/ (\A w \in Tabs : w # t => doing[w] # o)
  PROVE  TabSound(u)'
<1>1. /\ pc'[u] = pc[u] /\ doing'[u] = doing[u] /\ queue'[u] = queue[u]
      /\ sending'[u] = sending[u] /\ wire'[u] = wire[u]
      /\ TabSound(u)
  BY DEF OnlyTab, Sound
<1>2. Requests \subseteq Requests'
  BY MoreTypes
<1>3. ASSUME NEW o \in Ops, o = doing[u] PROVE HasClaim(o)' <=> HasClaim(o)
  <2>1. o # doing[t]
    BY <1>3, OperationsAssumption DEF Sound, OutcomeSound
  <2> QED
    BY <2>1 DEF HasClaim
<1>4. Asked(u)' = Asked(u)
  BY <1>1 DEF Asked, At
<1>5. /\ \A i \in 1..Len(queue'[u]) : queue'[u][i].batch \in Claimed'
      /\ pc'[u] = "replaying" => queue'[u] # <<>>
      /\ pc'[u] \in {"add", "setnext", "choose", "sent"} =>
           sending'[u] \in Requests' /\ sending'[u].batch.id = doing'[u]
      /\ pc'[u] \in {"setnext", "choose", "sent"} => sending'[u].batch \in Claimed'
      /\ wire'[u] # NoMessage => pc'[u] \in {"replaying", "sent"}
      /\ pc'[u] = "idle" => doing'[u] = NoOp
  BY <1>1, <1>2 DEF TabSound, At
<1>6. /\ Received(u, "request")' => wire'[u].request = Asked(u)'
      /\ Received(u, "receipt")' => Committed(Asked(u).batch)' /\ wire'[u].cp \in checkpoints'
  <2>1. \A b : Committed(b) => (\E r \in receipts' : r.batch = b)
    BY DEF Committed
  <2> QED
    BY <1>1, <1>4, <2>1 DEF TabSound, Received, Committed
<1>7. /\ doing'[u] \in Ops => outcome'[doing'[u]] = "new"
      /\ doing'[u] \in Ops /\ pc'[u] \in BeforeAdd => ~ HasClaim(doing[u])'
      /\ pc'[u] = "project" /\ doing'[u] # NoOp => HasClaim(doing[u])'
  <2>1. doing[u] \in Ops \/ doing[u] = NoOp
    BY DEF Sound, TabTypes
  <2>2. doing[u] \in Ops => (HasClaim(doing[u])' <=> HasClaim(doing[u]))
    BY <1>1, <1>3 DEF HasClaim
  <2> QED
    BY <1>1, <2>1, <2>2 DEF TabSound, At
<1> QED
  BY <1>5, <1>6, <1>7 DEF TabSound, At

\* A step that only one tab takes part in keeps the layer sound when its parts do.
LEMMA TabStepSound ==
  ASSUME Sound, NEW t \in Tabs, OnlyTab(t),
         ArchiveSound', SharedTypes', TabTypes', ClaimSound', OutcomeSound', TabSound(t)',
         checkpoints \subseteq checkpoints', Claimed \subseteq Claimed',
         \A b \in Claimed' : b \in Claimed \/ (b.id = doing[t] /\ doing[t] \in Ops),
         \A b : Committed(b) => Committed(b)',
         \A o \in Ops : outcome'[o] = outcome[o] \/ (\A w \in Tabs : w # t => doing[w] # o)
  PROVE  Sound'
<1>1. ASSUME NEW u \in Tabs PROVE TabSound(u)'
  BY OtherTab
<1> QED
  BY <1>1 DEF Sound

LEMMA SameArchiveSound ==
  ASSUME ArchiveSound, UNCHANGED archiveVars
  PROVE  ArchiveSound'
<1>1. MutationsReceipted'
  BY DEF ArchiveSound, MutationsReceipted, archiveVars
<1> QED
  BY <1>1 DEF ArchiveSound, archiveVars

\* A step that leaves the outbox and the archive alone and ends no call.
LEMMA QuietSound ==
  ASSUME Sound, NEW t \in Tabs, OnlyTab(t), UNCHANGED <<outbox, archiveVars, doing, outcome>>,
         storedNext' \in Nat \ {0}, late' \subseteq Requests, \A q \in late' : q.batch \in Claimed,
         TabTypes', TabSound(t)'
  PROVE  Sound'
<1>1. Claimed' = Claimed /\ (\A b : Committed(b)' <=> Committed(b))
  BY SameClaims DEF archiveVars
<1>2. ArchiveSound'
  BY SameArchiveSound DEF Sound
<1>3. SharedTypes'
  BY SameTypes DEF Sound, SharedTypes, archiveVars
<1>4. ClaimSound'
  BY <1>1 DEF Sound, ClaimSound
<1>5. OutcomeSound'
  BY <1>1 DEF Sound, OutcomeSound, HasClaim, ResolvedIsKept
<1>6. checkpoints' = checkpoints
  BY DEF archiveVars
<1> QED
  BY <1>1, <1>2, <1>3, <1>4, <1>5, <1>6, TabStepSound

\* A step that settles the call of its tab.
LEMMA SettleSound ==
  ASSUME Sound, NEW t \in Tabs, NEW how \in Outcomes \ {"new"}, Settle(t, how),
         how = "resolved" => At(t, "project"),
         UNCHANGED <<outbox, archiveVars>>, storedNext' \in Nat \ {0},
         late' \subseteq Requests, \A q \in late' : q.batch \in Claimed,
         wire' = wire \/ wire' = [wire EXCEPT ![t] = NoMessage], wire'[t] = NoMessage,
         next' \in [Tabs -> Nat \ {0}], known' \in [Tabs -> Quotable],
         sending' \in [Tabs -> Requests \union {NoMessage}],
         \A u \in Tabs : u # t => sending'[u] = sending[u]
  PROVE  Sound'
<1>1. Claimed' = Claimed /\ (\A b : Committed(b)' <=> Committed(b))
  BY SameClaims DEF archiveVars
<1>2. ArchiveSound'
  BY SameArchiveSound DEF Sound
<1>3. /\ pc' = [pc EXCEPT ![t] = "idle"] /\ doing' = [doing EXCEPT ![t] = NoOp]
      /\ queue' = [queue EXCEPT ![t] = <<>>]
      /\ outcome' = IF doing[t] = NoOp THEN outcome ELSE [outcome EXCEPT ![doing[t]] = how]
  BY DEF Settle, Goto
<1>4. OnlyTab(t)
  BY <1>3 DEF OnlyTab, Sound, TabTypes
<1>5. outcome' \in [Ops -> Outcomes]
  BY <1>3 DEF Sound, SharedTypes
<1>6. SharedTypes'
  BY <1>5, SameTypes DEF Sound, SharedTypes, archiveVars
<1>7. TabTypes'
  <2>1. <<>> \in Seq(Requests) /\ "idle" \in Places /\ NoMessage \in Messages
    BY EmptySeq DEF Places, Messages
  <2>2. Quotable' = Quotable /\ Requests' = Requests /\ Messages' = Messages
    BY SameTypes DEF archiveVars
  <2> QED
    BY <1>3, <2>1, <2>2 DEF Sound, TabTypes
<1>8. ClaimSound'
  BY <1>1 DEF Sound, ClaimSound
<1>9. OutcomeSound'
  <2>1. doing[t] = NoOp \/ doing[t] \in Ops
    BY DEF Sound, TabTypes
  <2>2. \A u \in Tabs : doing'[u] = IF u = t THEN NoOp ELSE doing[u]
    BY <1>3 DEF Sound, TabTypes
  <2>3. \A o \in Ops : outcome'[o] = IF o = doing[t] THEN how ELSE outcome[o]
    BY <1>3, <2>1, OperationsAssumption DEF Sound, SharedTypes
  <2>4. \A o \in Ops : outcome'[o] = "new" /\ (\A u \in Tabs : doing'[u] # o) => ~ HasClaim(o)
    BY <2>2, <2>3, OperationsAssumption DEF Sound, OutcomeSound
  <2>5. \A u, w \in Tabs : doing'[u] = doing'[w] => u = w \/ doing'[u] = NoOp
    BY <2>2 DEF Sound, OutcomeSound
  <2>6. \A o \in Ops : outcome'[o] = "resolved" => HasClaim(o)
    <3>1. how = "resolved" /\ doing[t] \in Ops => HasClaim(doing[t])
      BY OperationsAssumption DEF Sound, TabSound
    <3> QED
      BY <2>3, <3>1 DEF Sound, OutcomeSound, ResolvedIsKept, HasClaim
  <2> QED
    BY <1>1, <2>4, <2>5, <2>6 DEF OutcomeSound, ResolvedIsKept, HasClaim
<1>10. TabSound(t)'
  <2>1. pc'[t] = "idle" /\ doing'[t] = NoOp /\ queue'[t] = <<>> /\ wire'[t] = NoMessage
    BY <1>3 DEF Sound, TabTypes
  <2>2. Len(<<>>) = 0
    BY EmptySeq
  <2> QED
    BY <2>1, <2>2, OperationsAssumption DEF TabSound, At, Received
<1>11. \A o \in Ops : outcome'[o] = outcome[o] \/ (\A w \in Tabs : w # t => doing[w] # o)
  <2>1. doing[t] = NoOp \/ doing[t] \in Ops
    BY DEF Sound, TabTypes
  <2>2. \A w \in Tabs : w # t => doing[w] # doing[t] \/ doing[t] = NoOp
    BY DEF Sound, OutcomeSound
  <2> QED
    BY <1>3, <2>1, <2>2 DEF Sound, SharedTypes
<1>12. checkpoints' = checkpoints
  BY DEF archiveVars
<1> QED
  BY <1>1, <1>2, <1>4, <1>6, <1>7, <1>8, <1>9, <1>10, <1>11, <1>12, TabStepSound

-----------------------------------------------------------------------------
\* What a tab that waits for the companion has asked for is claimed.
LEMMA AskedFacts ==
  ASSUME Sound, NEW t \in Tabs, wire[t] # NoMessage
  PROVE  /\ pc[t] \in {"replaying", "sent"}
         /\ Asked(t) \in Requests
         /\ Asked(t).batch \in Claimed
         /\ Asked(t).batch \in StreamBatches
<1>1. pc[t] \in {"replaying", "sent"}
  BY DEF Sound, TabSound
<1>2. CASE pc[t] = "sent"
  BY <1>2, ClaimedAreStream DEF Sound, TabSound, Asked, At
<1>3. CASE pc[t] = "replaying"
  <2>1. queue[t] \in Seq(Requests) /\ queue[t] # <<>>
    BY <1>3 DEF Sound, TabSound, TabTypes, At
  <2>2. Head(queue[t]) \in Requests /\ Head(queue[t]) = queue[t][1] /\ 1 \in 1..Len(queue[t])
    BY <2>1, HeadTailProperties, EmptySeq
  <2>3. queue[t][1].batch \in Claimed
    BY <2>2 DEF Sound, TabSound
  <2> QED
    BY <1>3, <2>2, <2>3, ClaimedAreStream DEF Asked, At, Sound
<1> QED
  BY <1>1, <1>2, <1>3

LEMMA DisconnectFacts ==
  ASSUME Sound, NEW t \in Tabs, Disconnect(t)
  PROVE  /\ wire' = [wire EXCEPT ![t] = NoMessage] /\ wire'[t] = NoMessage
         /\ late' \subseteq Requests
         /\ \A q \in late' : q.batch \in Claimed
<1>1. wire[t] # NoMessage /\ wire' = [wire EXCEPT ![t] = NoMessage]
  BY DEF Disconnect
<1>2. late' = late \/ (wire[t].kind = "request" /\ late' = late \union {wire[t].request})
  BY DEF Disconnect
<1>3. wire[t].kind = "request" => wire[t].request \in Requests /\ wire[t].request.batch \in Claimed
  BY <1>1, AskedFacts DEF Sound, TabSound, Received
<1>4. wire'[t] = NoMessage
  BY <1>1 DEF Sound, TabTypes
<1> QED
  BY <1>1, <1>2, <1>3, <1>4 DEF Sound, SharedTypes, ClaimSound

\* The unchanged parts of a step that only moves within its tab.
LEMMA UnchangedParts ==
  ASSUME Sound
  PROVE  /\ storedNext \in Nat \ {0} /\ late \subseteq Requests
         /\ \A q \in late : q.batch \in Claimed
         /\ next \in [Tabs -> Nat \ {0}] /\ known \in [Tabs -> Quotable]
         /\ sending \in [Tabs -> Requests \union {NoMessage}]
         /\ \A t \in Tabs : pc[t] \notin {"replaying", "sent"} => wire[t] = NoMessage
  BY DEF Sound, SharedTypes, ClaimSound, TabTypes, TabSound

\* The steps that only settle a call.
LEMMA SettlingSteps ==
  ASSUME Sound, NEW t \in Tabs,
         \/ HelloFails(t) \/ AddFails(t) \/ SetNextFails(t) \/ RetryNotNoted(t)
         \/ AcknowledgeFails(t) \/ QuarantineFails(t) \/ Stop(t) \/ Project(t)
         \/ ProjectFails(t) \/ OutboxFails(t) \/ Crash(t)
  PROVE  Sound'
<1> USE UnchangedParts
<1>1. {"unreachable", "rejected", "lost", "resolved"} \subseteq Outcomes \ {"new"}
  BY DEF Outcomes
<1>2. CASE HelloFails(t)
  BY <1>1, <1>2, SettleSound DEF HelloFails, At, archiveVars, outboxVars
<1>3. CASE AddFails(t)
  BY <1>1, <1>3, SettleSound DEF AddFails, At, archiveVars, outboxVars
<1>4. CASE SetNextFails(t)
  BY <1>1, <1>4, SettleSound DEF SetNextFails, At, archiveVars, outboxVars
<1>5. CASE RetryNotNoted(t)
  BY <1>1, <1>5, SettleSound, DisconnectFacts DEF RetryNotNoted, archiveVars, outboxVars
<1>6. CASE AcknowledgeFails(t)
  <2>1. wire' = [wire EXCEPT ![t] = NoMessage] /\ wire'[t] = NoMessage
    BY <1>6 DEF AcknowledgeFails, Sound, TabTypes
  <2> QED
    BY <1>1, <1>6, <2>1, SettleSound DEF AcknowledgeFails, archiveVars, outboxVars
<1>7. CASE QuarantineFails(t)
  <2>1. wire' = [wire EXCEPT ![t] = NoMessage] /\ wire'[t] = NoMessage
    BY <1>7 DEF QuarantineFails, Sound, TabTypes
  <2> QED
    BY <1>1, <1>7, <2>1, SettleSound DEF QuarantineFails, archiveVars, outboxVars
<1>8. CASE Stop(t)
  BY <1>1, <1>8, SettleSound DEF Stop, At, archiveVars, outboxVars
<1>9. CASE Project(t)
  BY <1>1, <1>9, SettleSound DEF Project, At, archiveVars, outboxVars
<1>10. CASE ProjectFails(t)
  BY <1>1, <1>10, SettleSound DEF ProjectFails, At, archiveVars, outboxVars
<1>11. CASE OutboxFails(t)
  BY <1>1, <1>11, SettleSound DEF OutboxFails, At, archiveVars, outboxVars
<1>12. CASE Crash(t)
  <2>1. /\ Settle(t, "lost") /\ next' = [next EXCEPT ![t] = 1]
        /\ known' = [known EXCEPT ![t] = Unknown] /\ sending' = [sending EXCEPT ![t] = NoMessage]
        /\ UNCHANGED <<outbox, storedNext, archiveVars>>
    BY <1>12 DEF Crash, outboxVars
  <2>2. /\ next' \in [Tabs -> Nat \ {0}] /\ known' \in [Tabs -> Quotable]
        /\ sending' \in [Tabs -> Requests \union {NoMessage}]
        /\ \A u \in Tabs : u # t => sending'[u] = sending[u]
    BY <2>1 DEF Quotable
  <2>3. CASE wire[t] = NoMessage
    <3>1. wire' = wire /\ late' = late
      BY <1>12, <2>3 DEF Crash
    <3> QED
      BY <1>1, <2>1, <2>2, <2>3, <3>1, SettleSound
  <2>4. CASE wire[t] # NoMessage
    <3>1. Disconnect(t)
      BY <1>12, <2>4 DEF Crash
    <3> QED
      BY <1>1, <2>1, <2>2, <3>1, DisconnectFacts, SettleSound
  <2> QED
    BY <2>3, <2>4
<1> QED
  BY <1>2, <1>3, <1>4, <1>5, <1>6, <1>7, <1>8, <1>9, <1>10, <1>11, <1>12

-----------------------------------------------------------------------------
\* max(...): the greatest of the stored sequence and those after the pending rows.
LEMMA NextAfterFacts ==
  ASSUME Sound, NEW n \in Nat \ {0}
  PROVE  /\ NextAfter(n, PendingRows) \in Nat \ {0}
         /\ n <= NextAfter(n, PendingRows)
         /\ \A r \in PendingRows : Archive!To(r.batch) < NextAfter(n, PendingRows)
         /\ \/ NextAfter(n, PendingRows) = n
            \/ \E r \in PendingRows : NextAfter(n, PendingRows) = Archive!To(r.batch) + 1
<1> DEFINE T == {n} \union {Archive!To(r.batch) + 1 : r \in PendingRows}
<1>1. PICK m \in Nat : \A c \in Claimed : Archive!To(c) < m
  BY DEF Sound, ClaimSound
<1>2. \A r \in PendingRows : Archive!To(r.batch) \in Nat /\ Archive!To(r.batch) < m
  <2>1. \A r \in PendingRows : r.batch \in Claimed /\ r.batch \in StreamBatches
    BY ClaimedIff DEF Sound, SharedTypes, PendingRows, Held, OutboxRows
  <2> QED
    BY <1>1, <2>1, StreamBatchFacts
<1>3. T \subseteq 0..(n + m) /\ T # {} /\ n + m \in Nat
  BY <1>1, <1>2
<1>4. \E i \in T : \A j \in T : j <= i
  <2> HIDE DEF T
  <2> QED
    BY <1>3, GreatestExists
<1>5. NextAfter(n, PendingRows) \in T /\ \A j \in T : j <= NextAfter(n, PendingRows)
  BY <1>4 DEF NextAfter
<1>6. n <= NextAfter(n, PendingRows) /\ NextAfter(n, PendingRows) \in Nat \ {0}
  BY <1>2, <1>5
<1>7. \A r \in PendingRows : Archive!To(r.batch) < NextAfter(n, PendingRows)
  BY <1>2, <1>5, <1>6
<1> QED
  BY <1>5, <1>6, <1>7

\* A listing holds every pending row once, sorted.
LEMMA ListedFacts ==
  ASSUME Sound, NEW s \in Listed(PendingRequests)
  PROVE  /\ s \in Seq(Requests)
         /\ \A i \in 1..Len(s) : s[i] \in PendingRequests /\ s[i].batch \in Claimed
         /\ \A q \in PendingRequests : \E i \in 1..Len(s) : s[i] = q
         /\ \A i, j \in 1..Len(s) : i < j => s[i] # s[j] /\ s[i].batch.from <= s[j].batch.from
<1> DEFINE R == PendingRequests
           n == Cardinality(PendingRequests)
           ask == [r \in PendingRows |-> Request(r)]
<1>1. PendingRows \subseteq outbox /\ IsFiniteSet(PendingRows)
  BY FS_Subset DEF Sound, SharedTypes, PendingRows
<1>2. ask \in Surjection(PendingRows, R)
  BY DEF Surjection, PendingRequests
<1>3. IsFiniteSet(R) /\ n \in Nat
  BY <1>1, <1>2, FS_Surjection, FS_CardinalityType
<1>4. /\ s \in [1..n -> R]
      /\ \A i, j \in 1..n : i < j => s[i] # s[j] /\ s[i].batch.from <= s[j].batch.from
  BY DEF Listed
<1>5. R \subseteq Requests /\ \A q \in R : q.batch \in Claimed
  <2>1. \A r \in PendingRows : r \in OutboxRows /\ r.batch \in Claimed
    BY <1>1, ClaimedIff DEF Sound, SharedTypes, Held
  <2> QED
    BY <2>1 DEF PendingRequests, Request, OutboxRows, Requests
<1>6. s \in Seq(Requests) /\ Len(s) = n
  <2>1. s \in [1..n -> Requests]
    BY <1>4, <1>5
  <2>2. s \in Seq(Requests)
    BY <1>3, <2>1, SeqDef
  <2> QED
    BY <1>3, <2>1, <2>2, LenProperties
<1>7. s \in Injection(1..n, R)
  <2>1. \A i, j \in 1..n : s[i] = s[j] => i = j
    <3> SUFFICES ASSUME NEW i \in 1..n, NEW j \in 1..n, s[i] = s[j], i # j PROVE FALSE
      OBVIOUS
    <3>1. i < j \/ j < i
      BY <1>3
    <3> QED
      BY <1>4, <3>1
  <2> QED
    BY <1>4, <2>1 DEF Injection, IsInjective
<1>8. s \in Surjection(1..n, R)
  <2>1. IsFiniteSet(1..n) /\ Cardinality(1..n) = n
    BY <1>3, FS_Interval
  <2> HIDE DEF n, R
  <2> QED
    BY <1>3, <1>7, <2>1, FS_Injection DEF n, R
<1> QED
  BY <1>4, <1>5, <1>6, <1>8 DEF Surjection

-----------------------------------------------------------------------------
\* The steps that neither add, remove nor settle anything.
LEMMA ReadingSteps ==
  ASSUME Sound, NEW t \in Tabs,
         Hello(t) \/ ReadStoredNext(t) \/ ListPending(t) \/ SendReplay(t) \/ NothingToSend(t)
  PROVE  Sound'
<1> USE UnchangedParts
<1>1. /\ {"hello", "stored", "pending", "list", "replay", "replaying", "project"} \subseteq Places
      /\ Quotable' = Quotable /\ Requests' = Requests /\ Messages' = Messages
      /\ Claimed' = Claimed
      /\ \A b : Committed(b)' <=> Committed(b)
      /\ UNCHANGED <<outbox, archiveVars, doing, outcome, storedNext, late, checkpoints>>
  <2>1. UNCHANGED <<outbox, archiveVars, doing, outcome, storedNext, late>>
    BY DEF Hello, ReadStoredNext, ListPending, SendReplay, NothingToSend, outboxVars
  <2>2. UNCHANGED <<checkpoints, receipts>>
    BY <2>1 DEF archiveVars
  <2> QED
    BY <2>1, <2>2, SameTypes, SameClaims DEF Places
<1>2. TabSound(t) /\ TabTypes
  BY DEF Sound
<1>3. CASE Hello(t)
  <2>1. /\ pc' = [pc EXCEPT ![t] = "stored"] /\ known' = [known EXCEPT ![t] = head]
        /\ UNCHANGED <<next, queue, sending, wire>> /\ pc[t] = "hello"
    BY <1>3 DEF Hello, Goto, At
  <2>2. head \in Quotable
    BY DEF Sound, ArchiveSound, Quotable
  <2>3. TabTypes' /\ OnlyTab(t)
    BY <1>1, <1>2, <2>1, <2>2 DEF TabTypes, OnlyTab, Places
  <2>4. TabSound(t)'
    BY <1>1, <1>2, <2>1 DEF TabSound, TabTypes, At, Received, HasClaim, BeforeAdd
  <2> QED
    BY <1>1, <2>3, <2>4, QuietSound
<1>4. CASE ReadStoredNext(t)
  <2>1. /\ pc' = [pc EXCEPT ![t] = "pending"] /\ next' = [next EXCEPT ![t] = storedNext]
        /\ UNCHANGED <<known, queue, sending, wire>> /\ pc[t] = "stored"
    BY <1>4 DEF ReadStoredNext, Goto, At
  <2>2. TabTypes' /\ OnlyTab(t)
    BY <1>1, <1>2, <2>1 DEF TabTypes, OnlyTab, Places
  <2>3. TabSound(t)'
    BY <1>1, <1>2, <2>1 DEF TabSound, TabTypes, At, Received, HasClaim, BeforeAdd
  <2> QED
    BY <1>1, <2>2, <2>3, QuietSound
<1>5. CASE ListPending(t)
  <2>1. PICK s \in Listed(PendingRequests) : queue' = [queue EXCEPT ![t] = s]
    BY <1>5 DEF ListPending
  <2>2. /\ pc' = [pc EXCEPT ![t] = "replay"]
        /\ UNCHANGED <<next, known, sending, wire>> /\ pc[t] = "list"
    BY <1>5 DEF ListPending, Goto, At
  <2>3. s \in Seq(Requests) /\ \A i \in 1..Len(s) : s[i].batch \in Claimed
    BY ListedFacts
  <2>4. TabTypes' /\ OnlyTab(t)
    BY <1>1, <1>2, <2>1, <2>2, <2>3 DEF TabTypes, OnlyTab, Places
  <2>5. TabSound(t)'
    <3>1. queue'[t] = s /\ pc'[t] = "replay"
      BY <1>2, <2>1, <2>2 DEF TabTypes
    <3> QED
      BY <1>1, <1>2, <2>2, <2>3, <3>1 DEF TabSound, At, Received, HasClaim, BeforeAdd
  <2> QED
    BY <1>1, <2>4, <2>5, QuietSound
<1>6. CASE SendReplay(t)
  <2>1. /\ pc' = [pc EXCEPT ![t] = "replaying"] /\ queue[t] # <<>>
        /\ wire' = [wire EXCEPT ![t] = [kind |-> "request", request |-> Head(queue[t])]]
        /\ UNCHANGED <<next, known, queue, sending>> /\ pc[t] = "replay"
    BY <1>6 DEF SendReplay, Goto, At
  <2>2. [kind |-> "request", request |-> Head(queue[t])] \in Messages
    <3>1. Head(queue[t]) \in Requests
      BY <1>2, <2>1, HeadTailProperties DEF TabTypes
    <3> QED
      BY <3>1 DEF Messages
  <2>3. TabTypes' /\ OnlyTab(t)
    BY <1>1, <1>2, <2>1, <2>2 DEF TabTypes, OnlyTab, Places
  <2>4. TabSound(t)'
    <3>1. /\ pc'[t] = "replaying" /\ wire'[t].kind = "request"
          /\ wire'[t].request = Head(queue'[t])
      BY <1>2, <2>1 DEF TabTypes
    <3> QED
      BY <1>1, <1>2, <2>1, <3>1 DEF TabSound, At, Received, HasClaim, BeforeAdd, Asked
  <2> QED
    BY <1>1, <2>3, <2>4, QuietSound
<1>7. CASE NothingToSend(t)
  <2>1. /\ pc' = [pc EXCEPT ![t] = "project"] /\ doing[t] = NoOp
        /\ UNCHANGED <<next, known, queue, sending, wire>> /\ pc[t] = "replay"
    BY <1>7 DEF NothingToSend, Goto, At
  <2>2. TabTypes' /\ OnlyTab(t)
    BY <1>1, <1>2, <2>1 DEF TabTypes, OnlyTab, Places
  <2>3. TabSound(t)'
    BY <1>1, <1>2, <2>1 DEF TabSound, TabTypes, At, Received, HasClaim, BeforeAdd
  <2> QED
    BY <1>1, <2>2, <2>3, QuietSound
<1> QED
  BY <1>3, <1>4, <1>5, <1>6, <1>7

LEMMA ReadPendingSound ==
  ASSUME Sound, NEW t \in Tabs, ReadPending(t)
  PROVE  Sound'
<1> USE UnchangedParts
<1>1. /\ next' = [next EXCEPT ![t] = NextAfter(next[t], PendingRows)]
      /\ pc[t] = "pending"
      /\ UNCHANGED <<known, sending, wire, outbox, storedNext, late, archiveVars>>
  BY DEF ReadPending, At, outboxVars
<1>2. next' \in [Tabs -> Nat \ {0}]
  <2>1. next[t] \in Nat \ {0}
    BY DEF Sound, TabTypes
  <2> QED
    BY <1>1, <2>1, NextAfterFacts
<1>3. CASE Settle(t, "rejected")
  BY <1>1, <1>2, <1>3, SettleSound DEF Outcomes
<1>4. CASE Goto(t, "list") /\ UNCHANGED <<doing, queue, outcome>>
  <2>1. /\ Quotable' = Quotable /\ Requests' = Requests /\ Messages' = Messages
        /\ Claimed' = Claimed
        /\ \A b : Committed(b)' <=> Committed(b)
    BY <1>1, SameTypes, SameClaims DEF archiveVars
  <2>2. TabSound(t) /\ TabTypes /\ pc' = [pc EXCEPT ![t] = "list"]
    BY <1>4 DEF Sound, Goto
  <2>3. TabTypes' /\ OnlyTab(t)
    BY <1>1, <1>2, <1>4, <2>1, <2>2 DEF TabTypes, OnlyTab, Places
  <2>4. TabSound(t)'
    BY <1>1, <1>4, <2>1, <2>2 DEF TabSound, TabTypes, At, Received, HasClaim, BeforeAdd
  <2> QED
    BY <1>1, <1>4, <2>3, <2>4, QuietSound
<1> QED
  BY <1>3, <1>4 DEF ReadPending

\* The tab gives up on an exchange and goes on with its call.
LEMMA RetryableSound ==
  ASSUME Sound, NEW t \in Tabs, ReplayRetryable(t) \/ SentRetryable(t)
  PROVE  Sound'
<1>1. /\ wire' = [wire EXCEPT ![t] = NoMessage] /\ wire'[t] = NoMessage
      /\ late' \subseteq Requests /\ \A q \in late' : q.batch \in Claimed
      /\ UNCHANGED <<next, known, sending, outbox, storedNext, archiveVars, doing, outcome>>
      /\ storedNext \in Nat \ {0}
  BY DisconnectFacts, UnchangedParts DEF ReplayRetryable, SentRetryable, outboxVars
<1>2. /\ Quotable' = Quotable /\ Requests' = Requests /\ Messages' = Messages
      /\ Claimed' = Claimed
      /\ \A b : Committed(b)' <=> Committed(b)
  BY <1>1, SameTypes, SameClaims DEF archiveVars
<1>3. TabSound(t) /\ TabTypes /\ NoMessage \in Messages
  BY DEF Sound, Messages
<1>4. CASE ReplayRetryable(t)
  <2>1. /\ pc' = [pc EXCEPT ![t] = "replay"] /\ queue' = [queue EXCEPT ![t] = <<>>]
        /\ pc[t] = "replaying"
    BY <1>4 DEF ReplayRetryable, Goto, At
  <2>2. <<>> \in Seq(Requests) /\ Len(<<>>) = 0
    BY EmptySeq
  <2>3. TabTypes' /\ OnlyTab(t)
    BY <1>1, <1>2, <1>3, <2>1, <2>2 DEF TabTypes, OnlyTab, Places
  <2>4. TabSound(t)'
    <3>1. queue'[t] = <<>> /\ pc'[t] = "replay"
      BY <1>3, <2>1 DEF TabTypes
    <3> QED
      BY <1>1, <1>2, <1>3, <2>1, <2>2, <3>1 DEF TabSound, At, Received, HasClaim, BeforeAdd
  <2> QED
    BY <1>1, <2>3, <2>4, QuietSound
<1>5. CASE SentRetryable(t)
  <2>1. /\ pc' = [pc EXCEPT ![t] = "project"] /\ UNCHANGED queue /\ pc[t] = "sent"
    BY <1>5 DEF SentRetryable, Goto, At
  <2>2. TabTypes' /\ OnlyTab(t)
    BY <1>1, <1>2, <1>3, <2>1 DEF TabTypes, OnlyTab, Places
  <2>3. TabSound(t)'
    BY <1>1, <1>2, <1>3, <2>1 DEF TabSound, TabTypes, At, Received, HasClaim, BeforeAdd
  <2> QED
    BY <1>1, <2>2, <2>3, QuietSound
<1> QED
  BY <1>4, <1>5

-----------------------------------------------------------------------------
\* A receipt removes the row of a batch that is committed.
LEMMA AcknowledgeParts ==
  ASSUME Sound, NEW t \in Tabs, Received(t, "receipt"), Acknowledge(t, Asked(t).batch),
         UNCHANGED <<doing, sending, late, outcome, archiveVars>>
  PROVE  /\ ArchiveSound' /\ SharedTypes' /\ ClaimSound' /\ OutcomeSound'
         /\ Claimed' = Claimed
         /\ \A b : Committed(b)' <=> Committed(b)
         /\ next' \in [Tabs -> Nat \ {0}] /\ known' \in [Tabs -> Quotable]
         /\ wire' = [wire EXCEPT ![t] = NoMessage] /\ wire'[t] = NoMessage
<1> DEFINE b == Asked(t).batch
<1>1. /\ wire[t] # NoMessage /\ Committed(b) /\ wire[t].cp \in checkpoints
  BY DEF Received, Sound, TabSound
<1>2. b \in Claimed /\ b \in StreamBatches
  BY <1>1, AskedFacts
<1>3. Archive!To(b) + 1 \in Nat \ {0}
  BY <1>2, StreamBatchFacts
<1>4. /\ outbox' = Without(b) /\ storedNext' = Archive!To(b) + 1
      /\ known' = [known EXCEPT ![t] = wire[t].cp]
      /\ next' = [next EXCEPT ![t] = Larger(next[t], Archive!To(b) + 1)]
      /\ wire' = [wire EXCEPT ![t] = NoMessage]
  BY DEF Acknowledge
<1>5. UNCHANGED <<receipts, checkpoints>>
  BY DEF archiveVars
<1> HIDE DEF b
<1>6. /\ Claimed' = Claimed
      /\ \A c : Committed(c)' <=> Committed(c)
      /\ outbox' \subseteq outbox
  BY <1>1, <1>2, <1>4, <1>5, AcknowledgeClaims DEF Sound
<1>7. ArchiveSound'
  BY SameArchiveSound DEF Sound
<1>8. SharedTypes'
  <2>1. IsFiniteSet(outbox')
    BY <1>6, FS_Subset DEF Sound, SharedTypes
  <2> QED
    BY <1>3, <1>4, <1>5, <1>6, <2>1, SameTypes DEF Sound, SharedTypes
<1>9. ClaimSound'
  BY <1>6 DEF Sound, ClaimSound
<1>10. OutcomeSound'
  BY <1>6 DEF Sound, OutcomeSound, HasClaim, ResolvedIsKept
<1>11. next' \in [Tabs -> Nat \ {0}] /\ known' \in [Tabs -> Quotable]
  BY <1>1, <1>3, <1>4 DEF Sound, TabTypes, Larger, Quotable
<1>12. wire'[t] = NoMessage
  BY <1>4 DEF Sound, TabTypes
<1> QED
  BY <1>4, <1>6, <1>7, <1>8, <1>9, <1>10, <1>11, <1>12

LEMMA AcknowledgedSound ==
  ASSUME Sound, NEW t \in Tabs,
         ReplayAcknowledged(t) \/ SentAcknowledged(t) \/ SentUsageFails(t)
  PROVE  Sound'
<1>1. TabSound(t) /\ TabTypes /\ NoMessage \in Messages
  BY DEF Sound, Messages
<1>2. /\ Received(t, "receipt") /\ Acknowledge(t, Asked(t).batch)
      /\ UNCHANGED <<doing, sending, late, outcome, archiveVars>>
  <2>1. CASE ReplayAcknowledged(t)
    BY <2>1 DEF ReplayAcknowledged, Asked, At
  <2>2. CASE SentAcknowledged(t) \/ SentUsageFails(t)
    BY <2>2 DEF SentAcknowledged, SentUsageFails, Asked, At
  <2> QED
    BY <2>1, <2>2
<1>3. /\ ArchiveSound' /\ SharedTypes' /\ ClaimSound' /\ OutcomeSound'
      /\ Claimed' = Claimed
      /\ \A b : Committed(b)' <=> Committed(b)
      /\ next' \in [Tabs -> Nat \ {0}] /\ known' \in [Tabs -> Quotable]
      /\ wire' = [wire EXCEPT ![t] = NoMessage] /\ wire'[t] = NoMessage
  BY <1>2, AcknowledgeParts
<1>4. /\ Quotable' = Quotable /\ Requests' = Requests /\ Messages' = Messages
      /\ checkpoints' = checkpoints
  BY <1>2, SameTypes DEF archiveVars
<1>5. CASE ReplayAcknowledged(t)
  <2>1. /\ pc' = [pc EXCEPT ![t] = "replay"] /\ queue' = [queue EXCEPT ![t] = Tail(queue[t])]
        /\ pc[t] = "replaying"
    BY <1>5 DEF ReplayAcknowledged, Goto, At
  <2>2. queue[t] \in Seq(Requests) /\ queue[t] # <<>>
    BY <1>1, <2>1 DEF TabSound, TabTypes, At
  <2>3. /\ Tail(queue[t]) \in Seq(Requests)
        /\ \A i \in 1..Len(Tail(queue[t])) :
             i + 1 \in 1..Len(queue[t]) /\ Tail(queue[t])[i] = queue[t][i + 1]
    <3>1. /\ Tail(queue[t]) \in Seq(Requests) /\ Len(Tail(queue[t])) = Len(queue[t]) - 1
          /\ \A i \in 1..Len(Tail(queue[t])) : Tail(queue[t])[i] = queue[t][i + 1]
          /\ Len(queue[t]) \in Nat
      BY <2>2, HeadTailProperties, LenProperties
    <3> QED
      BY <3>1
  <2>4. TabTypes' /\ OnlyTab(t)
    BY <1>1, <1>2, <1>3, <1>4, <2>1, <2>3 DEF TabTypes, OnlyTab, Places
  <2>5. TabSound(t)'
    <3>1. queue'[t] = Tail(queue[t]) /\ pc'[t] = "replay"
      BY <1>1, <2>1 DEF TabTypes
    <3>2. \A i \in 1..Len(queue'[t]) : queue'[t][i].batch \in Claimed'
      BY <1>1, <1>3, <2>3, <3>1 DEF TabSound
    <3> QED
      BY <1>1, <1>2, <1>3, <2>1, <3>1, <3>2 DEF TabSound, At, Received, HasClaim, BeforeAdd
  <2> QED
    BY <1>2, <1>3, <1>4, <2>4, <2>5, TabStepSound
<1>6. CASE SentAcknowledged(t) \/ SentUsageFails(t)
  <2>1. /\ pc' = [pc EXCEPT ![t] = "project"] \/ pc' = [pc EXCEPT ![t] = "stopping"]
        /\ UNCHANGED queue /\ pc[t] = "sent"
    BY <1>6 DEF SentAcknowledged, SentUsageFails, Goto, At
  <2>2. TabTypes' /\ OnlyTab(t)
    BY <1>1, <1>2, <1>3, <1>4, <2>1 DEF TabTypes, OnlyTab, Places
  <2>3. TabSound(t)'
    BY <1>1, <1>2, <1>3, <2>1 DEF TabSound, TabTypes, At, Received, HasClaim, BeforeAdd
  <2> QED
    BY <1>2, <1>3, <1>4, <2>2, <2>3, TabStepSound
<1> QED
  BY <1>5, <1>6

\* A refused row is marked; the call is on its way to be rejected.
LEMMA RefusedSound ==
  ASSUME Sound, NEW t \in Tabs, ReplayRefused(t) \/ SentRefused(t)
  PROVE  Sound'
<1> DEFINE b == Asked(t).batch
<1>1. TabSound(t) /\ TabTypes /\ NoMessage \in Messages
  BY DEF Sound, Messages
<1>2. Received(t, "refusal") /\ Quarantine(t, b)
  <2>1. CASE ReplayRefused(t)
    BY <2>1 DEF ReplayRefused, Quarantine, Asked, At
  <2>2. CASE SentRefused(t)
    BY <2>2 DEF SentRefused, Quarantine, Asked, At
  <2> QED
    BY <2>1, <2>2
<1>3. b \in Claimed
  BY <1>2, AskedFacts DEF Received
<1> HIDE DEF b
<1>4. /\ outbox' = {IF r.batch.id = b.id THEN [r EXCEPT !.status = "quarantined"] ELSE r :
                      r \in outbox}
      /\ wire' = [wire EXCEPT ![t] = NoMessage] /\ pc' = [pc EXCEPT ![t] = "stopping"]
      /\ UNCHANGED <<doing, next, known, queue, sending, storedNext, late, outcome, archiveVars>>
  BY <1>2 DEF Quarantine, Goto
<1>5. UNCHANGED <<receipts, checkpoints>>
  BY <1>4 DEF archiveVars
<1>6. /\ Claimed' = Claimed
      /\ \A c : Committed(c)' <=> Committed(c)
      /\ outbox' \subseteq OutboxRows' /\ IsFiniteSet(outbox')
      /\ \A r, q \in outbox' : r.batch = q.batch => r = q
  BY <1>3, <1>4, <1>5, QuarantineClaims DEF Sound
<1>7. /\ Quotable' = Quotable /\ Requests' = Requests /\ Messages' = Messages
  BY <1>5, SameTypes
<1>8. ArchiveSound'
  BY <1>4, SameArchiveSound DEF Sound
<1>9. SharedTypes' /\ ClaimSound'
  BY <1>4, <1>6, <1>7 DEF Sound, SharedTypes, ClaimSound
<1>10. OutcomeSound'
  BY <1>4, <1>6 DEF Sound, OutcomeSound, HasClaim, ResolvedIsKept
<1>11. TabTypes' /\ OnlyTab(t)
  BY <1>1, <1>4, <1>7 DEF TabTypes, OnlyTab, Places
<1>12. TabSound(t)'
  BY <1>1, <1>4, <1>6 DEF TabSound, TabTypes, At, Received, HasClaim, BeforeAdd
<1> QED
  BY <1>4, <1>5, <1>6, <1>8, <1>9, <1>10, <1>11, <1>12, TabStepSound

-----------------------------------------------------------------------------
\* The operation's own row: built, added, and sent when it is the oldest.
LEMMA BuildSound ==
  ASSUME Sound, NEW t \in Tabs, Build(t)
  PROVE  Sound'
<1> USE UnchangedParts
<1> DEFINE b == Batch(doing[t], next[t])
<1>1. /\ pc[t] = "replay" /\ doing[t] # NoOp
      /\ next' = [next EXCEPT ![t] = Archive!To(b) + 1]
      /\ UNCHANGED <<known, wire, outbox, storedNext, late, archiveVars>>
  BY DEF Build, At
<1>2. TabSound(t) /\ TabTypes
  BY DEF Sound
<1>3. doing[t] \in Ops /\ next[t] \in Nat \ {0} /\ known[t] \in Quotable
  BY <1>1, <1>2 DEF TabTypes
<1>4. b \in StreamBatches /\ b.id = doing[t]
  BY <1>3 DEF Batch, StreamBatches
<1>5. next' \in [Tabs -> Nat \ {0}]
  BY <1>1, <1>2, <1>4, StreamBatchFacts DEF TabTypes
<1>6. CASE Settle(t, "rejected") /\ UNCHANGED sending
  BY <1>1, <1>5, <1>6, SettleSound DEF Outcomes
<1>7. CASE /\ sending' = [sending EXCEPT ![t] = [batch |-> b, cp |-> known[t]]]
           /\ Goto(t, "add")
           /\ UNCHANGED <<doing, queue, stopped, outcome>>
  <2> HIDE DEF b
  <2>1. /\ Quotable' = Quotable /\ Requests' = Requests /\ Messages' = Messages
        /\ Claimed' = Claimed
        /\ \A c : Committed(c)' <=> Committed(c)
    BY <1>1, SameTypes, SameClaims DEF archiveVars
  <2>2. [batch |-> b, cp |-> known[t]] \in Requests
    BY <1>3, <1>4 DEF Requests
  <2>3. TabTypes' /\ OnlyTab(t)
    BY <1>1, <1>2, <1>5, <1>7, <2>1, <2>2 DEF TabTypes, OnlyTab, Places, Goto
  <2>4. TabSound(t)'
    <3>1. sending'[t] \in Requests /\ sending'[t].batch.id = doing[t] /\ pc'[t] = "add"
      BY <1>2, <1>4, <1>7, <2>2 DEF TabTypes, Goto
    <3> QED
      BY <1>1, <1>2, <1>7, <2>1, <3>1 DEF TabSound, At, Received, HasClaim, BeforeAdd
  <2> QED
    BY <1>1, <1>7, <2>3, <2>4, QuietSound
<1> QED
  BY <1>6, <1>7 DEF Build

LEMMA AddSound ==
  ASSUME Sound, NEW t \in Tabs, Add(t)
  PROVE  Sound'
<1> DEFINE b == sending[t].batch
           row == [batch |-> sending[t].batch, cp |-> sending[t].cp, status |-> "pending"]
<1>1. /\ pc[t] = "add" /\ outbox' = outbox \union {row} /\ pc' = [pc EXCEPT ![t] = "setnext"]
      /\ UNCHANGED <<doing, next, known, queue, sending, wire, storedNext, late, outcome,
                     archiveVars>>
  BY DEF Add, At, Goto
<1>2. TabSound(t) /\ TabTypes
  BY DEF Sound
<1>3. sending[t] \in Requests /\ b.id = doing[t]
  BY <1>1, <1>2 DEF TabSound
<1>4. row \in OutboxRows /\ b \in StreamBatches /\ doing[t] \in Ops /\ row.batch = b
  BY <1>3, StreamBatchFacts DEF Requests, OutboxRows
<1>5. ~ HasClaim(doing[t])
  BY <1>1, <1>2, <1>4 DEF TabSound, BeforeAdd
<1>6. UNCHANGED <<receipts, checkpoints>>
  BY <1>1 DEF archiveVars
<1> HIDE DEF row, b
<1>7. /\ Claimed' = Claimed \union {b}
      /\ \A c : Committed(c)' <=> Committed(c)
      /\ outbox' \subseteq OutboxRows' /\ IsFiniteSet(outbox')
  BY <1>1, <1>4, <1>6, AddClaims DEF Sound
<1>8. /\ Quotable' = Quotable /\ Requests' = Requests /\ Messages' = Messages
  BY <1>6, SameTypes
<1>9. ArchiveSound'
  BY <1>1, SameArchiveSound DEF Sound
<1>10. SharedTypes'
  BY <1>1, <1>7, <1>8 DEF Sound, SharedTypes
<1>11. ClaimSound'
  <2>1. \A c, d \in Claimed' : c.id = d.id => c = d
    BY <1>3, <1>5, <1>7 DEF Sound, ClaimSound, HasClaim
  <2>2. \A r, q \in outbox' : r.batch = q.batch => r = q
    <3>1. \A r \in outbox : r.batch # b
      <4>1. \A r \in outbox : r.batch \in Claimed
        BY ClaimedIff DEF Sound, SharedTypes, Held
      <4> QED
        BY <1>3, <1>5, <4>1 DEF HasClaim
    <3> QED
      BY <1>1, <1>4, <3>1 DEF Sound, ClaimSound
  <2>3. \E n \in Nat : \A c \in Claimed' : Archive!To(c) < n
    <3>1. PICK n \in Nat : \A c \in Claimed : Archive!To(c) < n
      BY DEF Sound, ClaimSound
    <3>2. Archive!To(b) \in Nat
      BY <1>4, StreamBatchFacts
    <3>3. \A c \in Claimed : Archive!To(c) \in Nat
      BY ClaimedAreStream, StreamBatchFacts DEF Sound
    <3>4. n + Archive!To(b) + 1 \in Nat /\ \A c \in Claimed' : Archive!To(c) < n + Archive!To(b) + 1
      BY <1>7, <3>1, <3>2, <3>3
    <3> QED
      BY <3>4
  <2>4. \A q \in late' : q.batch \in Claimed'
    BY <1>1, <1>7 DEF Sound, ClaimSound
  <2> QED
    BY <2>1, <2>2, <2>3, <2>4 DEF ClaimSound
<1>12. OutcomeSound'
  BY <1>1, <1>3, <1>7 DEF Sound, OutcomeSound, HasClaim, ResolvedIsKept
<1>13. TabTypes' /\ OnlyTab(t)
  BY <1>1, <1>2, <1>8 DEF TabTypes, OnlyTab, Places
<1>14. TabSound(t)'
  <2>1. pc'[t] = "setnext" /\ sending'[t].batch \in Claimed'
    BY <1>1, <1>2, <1>7 DEF TabTypes, b
  <2> QED
    BY <1>1, <1>2, <1>3, <1>7, <1>8, <2>1 DEF TabSound, At, Received, HasClaim, BeforeAdd, b
<1> QED
  BY <1>1, <1>3, <1>4, <1>6, <1>7, <1>9, <1>10, <1>11, <1>12, <1>13, <1>14, TabStepSound

LEMMA SetNextChooseSound ==
  ASSUME Sound, NEW t \in Tabs, SetNext(t) \/ Choose(t)
  PROVE  Sound'
<1> USE UnchangedParts
<1>1. UNCHANGED <<doing, next, known, queue, sending, outbox, late, outcome, archiveVars>>
  BY DEF SetNext, Choose, outboxVars
<1>2. TabSound(t) /\ TabTypes
  BY DEF Sound
<1>3. /\ Quotable' = Quotable /\ Requests' = Requests /\ Messages' = Messages
      /\ Claimed' = Claimed
      /\ \A c : Committed(c)' <=> Committed(c)
  BY <1>1, SameTypes, SameClaims DEF archiveVars
<1>4. CASE SetNext(t)
  <2>1. /\ pc[t] = "setnext" /\ pc' = [pc EXCEPT ![t] = "choose"] /\ UNCHANGED wire
        /\ storedNext' = next[t]
    BY <1>4 DEF SetNext, At, Goto
  <2>2. storedNext' \in Nat \ {0}
    BY <1>2, <2>1 DEF TabTypes
  <2>3. TabTypes' /\ OnlyTab(t)
    BY <1>1, <1>2, <1>3, <2>1 DEF TabTypes, OnlyTab, Places
  <2>4. TabSound(t)'
    BY <1>1, <1>2, <1>3, <2>1 DEF TabSound, TabTypes, At, Received, HasClaim, BeforeAdd
  <2> QED
    BY <1>1, <2>2, <2>3, <2>4, QuietSound
<1>5. CASE Choose(t)
  <2>1. pc[t] = "choose" /\ storedNext' = storedNext
    BY <1>5 DEF Choose, At, outboxVars
  <2>2. sending[t] \in Requests /\ sending[t].batch.id = doing[t] /\ sending[t].batch \in Claimed
    BY <1>2, <2>1 DEF TabSound
  <2>3. CASE /\ wire' = [wire EXCEPT ![t] = [kind |-> "request", request |-> sending[t]]]
             /\ Goto(t, "sent")
    <3>1. [kind |-> "request", request |-> sending[t]] \in Messages
      BY <2>2 DEF Messages
    <3>2. TabTypes' /\ OnlyTab(t)
      BY <1>1, <1>2, <1>3, <2>3, <3>1 DEF TabTypes, OnlyTab, Places, Goto
    <3>3. TabSound(t)'
      <4>1. pc'[t] = "sent" /\ wire'[t] = [kind |-> "request", request |-> sending[t]]
        BY <1>2, <2>3 DEF TabTypes, Goto
      <4> QED
        BY <1>1, <1>2, <1>3, <2>1, <2>2, <4>1
        DEF TabSound, At, Received, HasClaim, BeforeAdd, Asked
    <3> QED
      BY <1>1, <2>1, <3>2, <3>3, QuietSound
  <2>4. CASE Goto(t, "project") /\ UNCHANGED wire
    <3>1. TabTypes' /\ OnlyTab(t)
      BY <1>1, <1>2, <1>3, <2>4 DEF TabTypes, OnlyTab, Places, Goto
    <3>2. TabSound(t)'
      BY <1>1, <1>2, <1>3, <2>1, <2>2, <2>4
      DEF TabSound, TabTypes, At, Received, HasClaim, BeforeAdd, Goto
    <3> QED
      BY <1>1, <2>1, <3>1, <3>2, QuietSound
  <2> QED
    BY <1>5, <2>3, <2>4 DEF Choose
<1> QED
  BY <1>4, <1>5

-----------------------------------------------------------------------------
\* The companion's steps.  What it commits is claimed already, or is of History.
LEMMA CommitParts ==
  ASSUME Sound, NEW b \in KnownBatches, NEW cp, Archive!Commit(b, cp),
         b \in Claimed \/ b \in HistoryBatches,
         UNCHANGED <<outbox, storedNext, outcome, doing>>, late' \subseteq late
  PROVE  /\ ArchiveSound' /\ SharedTypes' /\ ClaimSound' /\ OutcomeSound'
         /\ Claimed' = Claimed
         /\ \A c : Committed(c) => Committed(c)'
         /\ checkpoints \subseteq checkpoints'
<1>1. /\ Claimed' = Claimed
      /\ \A c : Committed(c)' <=> Committed(c) \/ c = b
  BY CommitClaims DEF Sound
<1>2. ArchiveSound' /\ checkpoints \subseteq checkpoints'
  BY CommitArchiveSound DEF Sound, Archive!Commit
<1>3. SharedTypes'
  BY <1>2, MoreTypes DEF Sound, SharedTypes
<1>4. ClaimSound'
  BY <1>1 DEF Sound, ClaimSound
<1>5. OutcomeSound'
  BY <1>1 DEF Sound, OutcomeSound, HasClaim, ResolvedIsKept
<1> QED
  BY <1>1, <1>2, <1>3, <1>4, <1>5

LEMMA HandleParts ==
  ASSUME Sound, NEW q \in Requests, q.batch \in Claimed, Handle(q),
         UNCHANGED <<outbox, storedNext, outcome, doing>>, late' \subseteq late
  PROVE  /\ ArchiveSound' /\ SharedTypes' /\ ClaimSound' /\ OutcomeSound'
         /\ Claimed' = Claimed
         /\ \A c : Committed(c) => Committed(c)'
         /\ checkpoints \subseteq checkpoints'
<1>1. q.batch \in KnownBatches
  BY DEF Requests, KnownBatches
<1>2. CASE Archive!Commit(q.batch, q.cp)
  BY <1>1, <1>2, CommitParts
<1>3. CASE UNCHANGED archiveVars
  <2>1. Claimed' = Claimed /\ \A c : Committed(c)' <=> Committed(c)
    BY <1>3, SameClaims DEF archiveVars
  <2>2. ArchiveSound' /\ checkpoints' = checkpoints
    BY <1>3, SameArchiveSound DEF Sound, archiveVars
  <2>3. SharedTypes'
    BY <2>2, SameTypes DEF Sound, SharedTypes
  <2>4. ClaimSound'
    BY <2>1 DEF Sound, ClaimSound
  <2>5. OutcomeSound'
    BY <2>1 DEF Sound, OutcomeSound, HasClaim, ResolvedIsKept
  <2> QED
    BY <2>1, <2>2, <2>3, <2>4, <2>5
<1> QED
  BY <1>2, <1>3 DEF Handle

\* What the companion answers: a receipt only for a batch that is committed.
LEMMA AnswerSound ==
  ASSUME Sound, NEW q \in Requests, q.batch \in Claimed, Handle(q)
  PROVE  /\ AnswerTo(q) \in Messages' /\ AnswerTo(q).kind \in {"receipt", "refusal"}
         /\ AnswerTo(q).kind = "receipt" =>
              Committed(q.batch)' /\ AnswerTo(q).cp \in checkpoints'
         /\ AnswerTo(q).kind = "refusal" =>
              Archive!Answer(q.batch, q.cp) \notin {"committed", "duplicate"}
<1>1. q.batch \in KnownBatches
  BY DEF Requests, KnownBatches
<1>2. CASE Archive!Answer(q.batch, q.cp) = "committed"
  <2>1. Archive!Commit(q.batch, q.cp)
    BY <1>2 DEF Handle
  <2>2. AnswerTo(q) = [kind |-> "receipt", cp |-> Archive!HeadAfter(q.batch)]
    BY <1>2 DEF AnswerTo
  <2>3. /\ Archive!HeadAfter(q.batch) \in checkpoints'
        /\ Archive!ReceiptFor(q.batch) \in receipts'
        /\ Archive!ReceiptFor(q.batch).batch = q.batch
    BY <1>1, <2>1, CommitAdds DEF Sound
  <2> QED
    BY <2>2, <2>3 DEF Messages, Committed
<1>3. CASE Archive!Answer(q.batch, q.cp) = "duplicate"
  <2>1. Archive!Known(q.batch) /\ Archive!Receipt(q.batch.id).batch = q.batch
    BY <1>3, AnswerFacts
  <2>2. Archive!Receipt(q.batch.id) \in receipts
    BY <2>1 DEF Archive!Known, Archive!Receipt
  <2>3. CheckpointOf(q.batch.id) \in checkpoints
    BY <2>2 DEF CheckpointOf, Sound, ArchiveSound
  <2>4. UNCHANGED <<receipts, checkpoints>>
    BY <1>3 DEF Handle, archiveVars
  <2>5. AnswerTo(q) = [kind |-> "receipt", cp |-> CheckpointOf(q.batch.id)]
    BY <1>3 DEF AnswerTo
  <2> QED
    BY <2>1, <2>2, <2>3, <2>4, <2>5 DEF Messages, Committed
<1>4. CASE Archive!Answer(q.batch, q.cp) \notin {"committed", "duplicate"}
  <2>1. AnswerTo(q) = [kind |-> "refusal"]
    BY <1>4 DEF AnswerTo
  <2> QED
    BY <1>4, <2>1 DEF Messages
<1> QED
  BY <1>2, <1>3, <1>4

LEMMA ServeSound ==
  ASSUME Sound, NEW t \in Tabs, Serve(t)
  PROVE  Sound'
<1> PICK q : q = wire[t].request
  OBVIOUS
<1> PICK answer : answer = AnswerTo(q)
  OBVIOUS
<1>1. /\ wire[t] # NoMessage /\ wire[t].kind = "request"
      /\ wire' = [wire EXCEPT ![t] = answer] /\ Handle(q)
      /\ UNCHANGED <<pc, doing, next, known, queue, sending, outbox, storedNext, late, outcome>>
  BY DEF Serve, browserVars, outboxVars
<1>2. TabSound(t) /\ TabTypes
  BY DEF Sound
<1>3. q = Asked(t)
  BY <1>1, <1>2 DEF TabSound, Received
<1>4. q \in Requests /\ q.batch \in Claimed /\ pc[t] \in {"replaying", "sent"}
  BY <1>1, <1>3, AskedFacts
<1>5. /\ ArchiveSound' /\ SharedTypes' /\ ClaimSound' /\ OutcomeSound'
      /\ Claimed' = Claimed
      /\ \A c : Committed(c) => Committed(c)'
      /\ checkpoints \subseteq checkpoints'
  BY <1>1, <1>4, HandleParts
<1>6. /\ answer \in Messages' /\ answer.kind \in {"receipt", "refusal"}
      /\ answer.kind = "receipt" => Committed(q.batch)' /\ answer.cp \in checkpoints'
  BY <1>1, <1>4, AnswerSound
<1>7. /\ Quotable \subseteq Quotable' /\ Requests \subseteq Requests' /\ Messages \subseteq Messages'
      /\ Seq(Requests) \subseteq Seq(Requests')
  BY <1>5, MoreTypes
<1>8. TabTypes' /\ OnlyTab(t)
  <2>1. wire' \in [Tabs -> Messages']
    BY <1>1, <1>2, <1>6, <1>7 DEF TabTypes
  <2> QED
    BY <1>1, <1>2, <1>7, <2>1 DEF TabTypes, OnlyTab
<1>9. TabSound(t)'
  <2>1. wire'[t] = answer /\ Asked(t)' = Asked(t)
    BY <1>1, <1>2 DEF TabTypes, Asked, At
  <2>2. Received(t, "receipt")' => Committed(Asked(t).batch)' /\ wire'[t].cp \in checkpoints'
    BY <1>3, <1>6, <2>1 DEF Received, Committed
  <2>3. ~ Received(t, "request")'
    BY <1>6, <2>1 DEF Received
  <2> QED
    BY <1>1, <1>2, <1>4, <1>5, <1>7, <2>2, <2>3 DEF TabSound, At, HasClaim, BeforeAdd
<1> QED
  BY <1>1, <1>5, <1>8, <1>9, TabStepSound

\* A step that no tab takes part in.
LEMMA NoTabSound ==
  ASSUME Sound, UNCHANGED <<pc, doing, next, known, queue, sending, wire, outcome>>,
         ArchiveSound', SharedTypes', ClaimSound', OutcomeSound',
         Claimed' = Claimed, \A c : Committed(c) => Committed(c)',
         checkpoints \subseteq checkpoints'
  PROVE  Sound'
<1>1. /\ Quotable \subseteq Quotable' /\ Requests \subseteq Requests' /\ Messages \subseteq Messages'
      /\ Seq(Requests) \subseteq Seq(Requests')
  BY MoreTypes
<1>2. TabTypes'
  BY <1>1 DEF Sound, TabTypes
<1>3. ASSUME NEW u \in Tabs PROVE TabSound(u)'
  <2>1. TabSound(u) /\ Asked(u)' = Asked(u)
    BY DEF Sound, Asked, At
  <2>2. Received(u, "receipt")' => Committed(Asked(u).batch)' /\ wire'[u].cp \in checkpoints'
    BY <2>1 DEF TabSound, Received, Committed
  <2> QED
    BY <1>1, <2>1, <2>2 DEF TabSound, At, HasClaim, BeforeAdd, Received
<1> QED
  BY <1>2, <1>3 DEF Sound

LEMMA ServeLateSound ==
  ASSUME Sound, NEW q \in late, ServeLate(q)
  PROVE  Sound'
<1>1. q \in Requests /\ q.batch \in Claimed
  BY DEF Sound, SharedTypes, ClaimSound
<1>2. /\ Handle(q) /\ late' \subseteq late
      /\ UNCHANGED <<pc, doing, next, known, queue, sending, wire, outbox, storedNext, outcome>>
  BY DEF ServeLate, browserVars, outboxVars
<1> QED
  BY <1>1, <1>2, HandleParts, NoTabSound

LEMMA AdmitSound ==
  ASSUME Sound, NEW c, Archive!AdmitClient(c),
         UNCHANGED <<browserVars, wire, outboxVars, late, outcome, crashes>>
  PROVE  Sound'
<1>1. UNCHANGED <<receipts, checkpoints, outbox>>
  BY DEF Archive!AdmitClient, outboxVars
<1>2. Claimed' = Claimed /\ \A b : Committed(b)' <=> Committed(b)
  BY <1>1, SameClaims
<1>3. ArchiveSound'
  BY AdmitArchiveSound DEF Sound
<1>4. SharedTypes' /\ ClaimSound' /\ OutcomeSound'
  BY <1>1, <1>2, SameTypes
  DEF Sound, SharedTypes, ClaimSound, OutcomeSound, HasClaim, ResolvedIsKept, outboxVars, browserVars
<1> QED
  BY <1>1, <1>2, <1>3, <1>4, NoTabSound DEF browserVars

LEMMA EarlierSound ==
  ASSUME Sound, Earlier
  PROVE  Sound'
<1> DEFINE i == Len(head.chain) + 1
           b == History[i]
<1>1. /\ Len(head.chain) < Len(History)
      /\ Archive!AdmitClient(b.client) \/ Archive!Commit(b, Unknown)
      /\ UNCHANGED <<browserVars, wire, outboxVars, late, outcome, crashes>>
  BY DEF Earlier
<1>2. b \in HistoryBatches
  <2>1. Len(head.chain) \in Nat /\ Len(History) \in Nat /\ DOMAIN History = 1..Len(History)
    BY HistoryAssumption, LenProperties DEF Sound, ArchiveSound
  <2>2. i \in DOMAIN History
    BY <1>1, <2>1
  <2> QED
    BY <2>2 DEF HistoryBatches
<1>3. CASE Archive!AdmitClient(b.client)
  BY <1>1, <1>3, AdmitSound
<1>4. CASE Archive!Commit(b, Unknown)
  <2>1. UNCHANGED <<pc, doing, next, known, queue, sending, wire, outbox, storedNext, outcome, late>>
    BY <1>1 DEF browserVars, outboxVars
  <2>2. /\ ArchiveSound' /\ SharedTypes' /\ ClaimSound' /\ OutcomeSound'
        /\ Claimed' = Claimed
        /\ \A c : Committed(c) => Committed(c)'
        /\ checkpoints \subseteq checkpoints'
    BY <1>2, <1>4, <2>1, CommitParts DEF KnownBatches
  <2> QED
    BY <2>1, <2>2, NoTabSound
<1> QED
  BY <1>1, <1>3, <1>4

LEMMA RouteSound ==
  ASSUME Sound, NEW t \in Tabs, NEW o \in Ops \union {NoOp}, Route(t, o)
  PROVE  Sound'
<1>1. /\ pc[t] = "idle" /\ UNCHANGED <<next, known, queue, sending, wire, outbox, storedNext, late,
                                       archiveVars>>
      /\ o # NoOp => o \in Ops /\ outcome[o] = "new" /\ \A u \in Tabs : doing[u] # o
  BY DEF Route, At
<1>2. TabSound(t) /\ TabTypes /\ doing[t] = NoOp
  BY <1>1 DEF Sound, TabSound, At
<1>3. /\ Quotable' = Quotable /\ Requests' = Requests /\ Messages' = Messages
      /\ Claimed' = Claimed /\ checkpoints' = checkpoints
      /\ \A c : Committed(c)' <=> Committed(c)
  BY <1>1, SameTypes, SameClaims DEF archiveVars
<1>4. ArchiveSound'
  BY <1>1, SameArchiveSound DEF Sound
<1>5. CASE /\ outcome' = IF o = NoOp THEN outcome ELSE [outcome EXCEPT ![o] = "rejected"]
           /\ UNCHANGED <<pc, doing>>
  <2>1. outcome' \in [Ops -> Outcomes] /\ \A p \in Ops : p # o => outcome'[p] = outcome[p]
    BY <1>1, <1>5 DEF Sound, SharedTypes, Outcomes
  <2>2. o # NoOp => outcome'[o] = "rejected"
    BY <1>1, <1>5 DEF Sound, SharedTypes
  <2>3. SharedTypes' /\ ClaimSound'
    BY <1>1, <1>3, <2>1, SameTypes DEF Sound, SharedTypes, ClaimSound
  <2>4. OutcomeSound'
    BY <1>1, <1>3, <1>5, <2>1, <2>2, OperationsAssumption
    DEF Sound, OutcomeSound, HasClaim, ResolvedIsKept
  <2>5. TabTypes' /\ OnlyTab(t)
    BY <1>1, <1>2, <1>3, <1>5 DEF TabTypes, OnlyTab
  <2>6. TabSound(t)'
    BY <1>1, <1>2, <1>3, <1>5, OperationsAssumption DEF TabSound, At, Received, HasClaim, BeforeAdd
  <2> QED
    BY <1>1, <1>3, <1>4, <2>1, <2>3, <2>4, <2>5, <2>6, TabStepSound, OperationsAssumption
<1>6. CASE doing' = [doing EXCEPT ![t] = o] /\ Goto(t, "hello") /\ UNCHANGED outcome
  <2>1. \A u \in Tabs : doing'[u] = IF u = t THEN o ELSE doing[u]
    BY <1>2, <1>6 DEF TabTypes
  <2>2. SharedTypes' /\ ClaimSound'
    BY <1>1, <1>3, <1>6, SameTypes DEF Sound, SharedTypes, ClaimSound
  <2>3. OutcomeSound'
    <3>1. \A p \in Ops : outcome'[p] = "new" /\ (\A u \in Tabs : doing'[u] # p) => ~ HasClaim(p)'
      <4> SUFFICES ASSUME NEW p \in Ops, outcome'[p] = "new", \A u \in Tabs : doing'[u] # p
                   PROVE  ~ HasClaim(p)'
        OBVIOUS
      <4>1. \A u \in Tabs : doing[u] # p
        BY <1>2, <2>1, OperationsAssumption
      <4> QED
        BY <1>3, <1>6, <4>1 DEF Sound, OutcomeSound, HasClaim
    <3>2. \A u, w \in Tabs : doing'[u] = doing'[w] => u = w \/ doing'[u] = NoOp
      BY <1>1, <2>1 DEF Sound, OutcomeSound
    <3>3. ResolvedIsKept'
      BY <1>3, <1>6 DEF Sound, OutcomeSound, ResolvedIsKept
    <3> QED
      BY <3>1, <3>2, <3>3 DEF OutcomeSound
  <2>4. TabTypes' /\ OnlyTab(t)
    BY <1>1, <1>2, <1>3, <1>6 DEF TabTypes, OnlyTab, Places, Goto
  <2>5. TabSound(t)'
    <3>1. pc'[t] = "hello" /\ doing'[t] = o /\ wire'[t] = NoMessage
      BY <1>1, <1>2, <1>6 DEF TabTypes, TabSound, Goto
    <3>2. doing'[t] \in Ops => outcome'[doing'[t]] = "new"
      BY <1>1, <1>6, <3>1, OperationsAssumption
    <3>3. doing'[t] \in Ops => ~ HasClaim(doing[t])'
      BY <1>1, <1>3, <3>1, OperationsAssumption DEF Sound, OutcomeSound, HasClaim
    <3> QED
      BY <1>1, <1>2, <1>3, <3>1, <3>2, <3>3 DEF TabSound, At, Received
  <2> QED
    BY <1>1, <1>3, <1>4, <1>6, <2>2, <2>3, <2>4, <2>5, TabStepSound
<1> QED
  BY <1>5, <1>6 DEF Route

-----------------------------------------------------------------------------
LEMMA InitSound == Init => Sound
<1> SUFFICES ASSUME Init PROVE Sound
  OBVIOUS
<1>1. ArchiveSound /\ receipts = {} /\ outbox = {}
  BY InitArchiveSound DEF Init, Archive!Init
<1>2. Claimed = {}
  BY <1>1 DEF Claimed
<1>3. <<>> \in Seq(Requests) /\ Len(<<>>) = 0 /\ IsFiniteSet({})
  BY EmptySeq, FS_EmptySet
<1>4. SharedTypes
  BY <1>3 DEF Init, SharedTypes, Outcomes
<1>5. TabTypes
  BY <1>3 DEF Init, TabTypes, Places, Quotable, Messages
<1>6. ClaimSound
  BY <1>1, <1>2 DEF Init, ClaimSound
<1>7. OutcomeSound
  BY <1>2 DEF Init, OutcomeSound, HasClaim, ResolvedIsKept
<1>8. ASSUME NEW t \in Tabs PROVE TabSound(t)
  <2>1. pc[t] = "idle" /\ doing[t] = NoOp /\ queue[t] = <<>> /\ wire[t] = NoMessage
    BY DEF Init
  <2> QED
    BY <1>3, <2>1, OperationsAssumption DEF TabSound, At, Received
<1> QED
  BY <1>1, <1>4, <1>5, <1>6, <1>7, <1>8 DEF Sound

LEMMA StutterSound ==
  ASSUME Sound, UNCHANGED vars
  PROVE  Sound'
<1>1. UNCHANGED <<browserVars, wire, outboxVars, late, outcome, crashes, archiveVars>>
  BY DEF vars
<1>2. Claimed' = Claimed /\ \A b : Committed(b)' <=> Committed(b)
  BY <1>1, SameClaims DEF outboxVars, archiveVars
<1>3. ArchiveSound'
  BY <1>1, SameArchiveSound DEF Sound
<1>4. SharedTypes' /\ ClaimSound' /\ OutcomeSound' /\ checkpoints' = checkpoints
  BY <1>1, <1>2, SameTypes
  DEF Sound, SharedTypes, ClaimSound, OutcomeSound, HasClaim, ResolvedIsKept, outboxVars,
      browserVars, archiveVars
<1> QED
  BY <1>1, <1>2, <1>3, <1>4, NoTabSound DEF browserVars

LEMMA NextSound == Sound /\ [Next]_vars => Sound'
<1> SUFFICES ASSUME Sound, [Next]_vars PROVE Sound'
  OBVIOUS
<1>1. CASE Earlier \/ Pair
  BY <1>1, EarlierSound, AdmitSound DEF Pair
<1>2. ASSUME NEW t \in Tabs, NEW o \in Ops \union {NoOp}, Route(t, o) PROVE Sound'
  BY <1>2, RouteSound
<1>3. ASSUME NEW t \in Tabs, Step(t) PROVE Sound'
  BY <1>3, SettlingSteps, ReadingSteps, ReadPendingSound, RetryableSound, AcknowledgedSound,
     RefusedSound, BuildSound, AddSound, SetNextChooseSound DEF Step
<1>4. ASSUME NEW t \in Tabs, Serve(t) \/ Crash(t) PROVE Sound'
  BY <1>4, ServeSound, SettlingSteps
<1>5. ASSUME NEW q \in late, ServeLate(q) PROVE Sound'
  BY <1>5, ServeLateSound
<1> QED
  BY <1>1, <1>2, <1>3, <1>4, <1>5, StutterSound DEF Next

\* Every reachable state of any number of tabs is sound.
THEOREM Soundness == Spec => []Sound
<1> QED
  BY InitSound, NextSound, PTL DEF Spec

\* However tabs, the companion, lost and late requests, crashes and failing storage
\* interleave, an operation that resolved has its batch in the outbox or the archive.
THEOREM ResolvedKept == Spec => []ResolvedIsKept
<1>1. Sound => ResolvedIsKept
  BY DEF Sound, OutcomeSound
<1> QED
  BY <1>1, Soundness, PTL

-----------------------------------------------------------------------------
\* The layer of one tab: the client sequences of the claimed batches.  What is
\* committed is up to last_client_seq, what is not comes after it without a gap.
Ordered ==
  /\ SequencesAssignedOnce
  /\ \A c \in Claimed : IF Committed(c) THEN Archive!To(c) <= lastSeq[Stream]
                                        ELSE lastSeq[Stream] < c.from
  /\ lastSeq[Stream] = 0 \/ \E c \in Claimed : Committed(c) /\ Archive!To(c) = lastSeq[Stream]
  /\ \A b \in Claimed : ~ Committed(b) =>
       \/ b.from = lastSeq[Stream] + 1
       \/ \E c \in Claimed : ~ Committed(c) /\ Archive!To(c) + 1 = b.from

\* The outbox is what was claimed last, and the stored sequence is ahead of the rest.
Stored ==
  /\ \A c \in Claimed : \/ Archive!To(c) < storedNext
                        \/ \E d \in Claimed : Held(d) /\ Archive!To(c) <= Archive!To(d)
  /\ \A c \in Claimed : Held(c) \/ \A d \in Claimed : Held(d) => Archive!To(c) < d.from
  /\ storedNext = 1 \/ \E c \in Claimed : Archive!To(c) + 1 = storedNext

\* The sequence a new batch may start with.
FreeFrom(n) ==
  /\ \A c \in Claimed : Archive!To(c) < n
  /\ n = 1 \/ \E c \in Claimed : Archive!To(c) + 1 = n

Oldest(b) == \A c \in Claimed : Held(c) => c = b \/ Archive!To(b) < c.from

\* The requests of all rows of the outbox, in the order of their sequences.
Listing(s) ==
  /\ \A i \in 1..Len(s) : Held(s[i].batch)
  /\ \A c \in Claimed : Held(c) => \E i \in 1..Len(s) : s[i].batch = c
  /\ \A i, j \in 1..Len(s) : i < j => Archive!To(s[i].batch) < s[j].batch.from

TabOrdered(t) ==
  /\ ~ At(t, "idle") => Stream \in admitted
  /\ At(t, "pending") => next[t] = storedNext
  /\ pc[t] \in {"list", "replay", "replaying", "setnext"} => FreeFrom(next[t])
  /\ At(t, "add") => FreeFrom(sending[t].batch.from)
  /\ pc[t] \in {"add", "setnext"} => next[t] = Archive!To(sending[t].batch) + 1
  /\ pc[t] \in {"list", "replay", "replaying", "add", "setnext", "choose", "sent"} =>
       QuarantinedRows = {}
  /\ pc[t] \in {"replay", "replaying"} /\ queue[t] # <<>> => Listing(queue[t])
  /\ pc[t] \in {"setnext", "choose", "sent"} => Held(sending[t].batch)
  /\ At(t, "sent") => Oldest(sending[t].batch)
  /\ Received(t, "refusal") => Archive!TombstoneConflict(Asked(t).batch)

OneTab == \A t, u \in Tabs : t = u

InOrderSound ==
  /\ Sound
  /\ Ordered
  /\ Stored
  /\ OnlyConflictsQuarantined
  /\ \A t \in Tabs : TabOrdered(t)

-----------------------------------------------------------------------------
LEMMA ClaimedRanges ==
  ASSUME Sound
  PROVE  /\ lastSeq[Stream] \in Nat
         /\ \A c \in Claimed : /\ c.from \in Nat \ {0} /\ Archive!To(c) \in Nat
                               /\ c.from <= Archive!To(c)
         /\ \A c \in Claimed : Held(c) \/ Committed(c)
<1>1. lastSeq[Stream] \in Nat
  BY DEF Sound, ArchiveSound, ArchiveClients
<1>2. \A c \in Claimed : c \in StreamBatches
  BY ClaimedAreStream DEF Sound
<1> QED
  BY <1>1, <1>2, StreamBatchFacts, ClaimedIff DEF Sound, SharedTypes

\* A commit of the next batch in sequence, of one that is new, and of another client.
LEMMA CommitOrdered ==
  ASSUME Sound, Ordered, NEW b \in Claimed, ~ Committed(b), b.from = lastSeq[Stream] + 1,
         lastSeq'[Stream] = Archive!To(b), Claimed' = Claimed,
         \A c : Committed(c)' <=> Committed(c) \/ c = b
  PROVE  Ordered'
<1> DEFINE L == lastSeq[Stream]
<1>1. /\ L \in Nat
      /\ \A c \in Claimed : c.from \in Nat \ {0} /\ Archive!To(c) \in Nat /\ c.from <= Archive!To(c)
  BY ClaimedRanges
<1>2. \A c \in Claimed : c # b => Archive!To(b) < c.from \/ Archive!To(c) < b.from
  BY DEF Ordered, SequencesAssignedOnce
<1>3. SequencesAssignedOnce'
  BY DEF Ordered, SequencesAssignedOnce
<1>4. \A c \in Claimed : IF Committed(c)' THEN Archive!To(c) <= lastSeq'[Stream]
                                          ELSE lastSeq'[Stream] < c.from
  <2> SUFFICES ASSUME NEW c \in Claimed
               PROVE  IF Committed(c)' THEN Archive!To(c) <= lastSeq'[Stream]
                                       ELSE lastSeq'[Stream] < c.from
    OBVIOUS
  <2>1. CASE c = b
    BY <1>1, <2>1
  <2>2. CASE Committed(c)
    <3>1. Archive!To(c) <= L
      BY <2>2 DEF Ordered
    <3>2. L <= Archive!To(b)
      BY <1>1
    <3> QED
      BY <1>1, <2>2, <3>1, <3>2
  <2>3. CASE c # b /\ ~ Committed(c)
    <3>1. L < c.from
      BY <2>3 DEF Ordered
    <3> QED
      BY <1>1, <1>2, <2>3, <3>1
  <2> QED
    BY <2>1, <2>2, <2>3
<1>5. \E c \in Claimed : Committed(c)' /\ Archive!To(c) = lastSeq'[Stream]
  OBVIOUS
<1>6. ASSUME NEW d \in Claimed, ~ Committed(d)'
      PROVE  \/ d.from = lastSeq'[Stream] + 1
             \/ \E c \in Claimed : ~ Committed(c)' /\ Archive!To(c) + 1 = d.from
  <2>1. d # b /\ ~ Committed(d)
    BY <1>6
  <2>2. d.from # L + 1
    BY <1>1, <1>2, <2>1
  <2>3. PICK c \in Claimed : ~ Committed(c) /\ Archive!To(c) + 1 = d.from
    BY <2>1, <2>2 DEF Ordered
  <2> QED
    BY <2>3
<1> QED
  BY <1>3, <1>4, <1>5, <1>6 DEF Ordered

LEMMA AddOrdered ==
  ASSUME Sound, Ordered, NEW b \in StreamBatches, ~ Committed(b), FreeFrom(b.from),
         UNCHANGED lastSeq, Claimed' = Claimed \union {b},
         \A c : Committed(c)' <=> Committed(c)
  PROVE  Ordered'
<1> DEFINE L == lastSeq[Stream]
<1>1. /\ L \in Nat
      /\ \A c \in Claimed : c.from \in Nat \ {0} /\ Archive!To(c) \in Nat /\ c.from <= Archive!To(c)
      /\ b.from \in Nat \ {0} /\ Archive!To(b) \in Nat /\ b.from <= Archive!To(b)
  BY ClaimedRanges, StreamBatchFacts
<1>2. \A c \in Claimed : Archive!To(c) < b.from
  BY DEF FreeFrom
<1>3. SequencesAssignedOnce'
  BY <1>2 DEF Ordered, SequencesAssignedOnce
<1>4. L < b.from
  BY <1>1, <1>2 DEF Ordered
<1>5. \A c \in Claimed' : IF Committed(c)' THEN Archive!To(c) <= L ELSE L < c.from
  BY <1>4 DEF Ordered
<1>6. L = 0 \/ \E c \in Claimed' : Committed(c)' /\ Archive!To(c) = L
  BY DEF Ordered
<1>7. \/ b.from = L + 1
      \/ \E c \in Claimed : ~ Committed(c) /\ Archive!To(c) + 1 = b.from
  <2>1. CASE b.from = 1
    <3>1. L = 0
      BY <1>1, <1>4, <2>1
    <3> QED
      BY <2>1, <3>1
  <2>2. CASE b.from # 1
    <3>1. PICK c \in Claimed : Archive!To(c) + 1 = b.from
      BY <2>2 DEF FreeFrom
    <3>2. Committed(c) => Archive!To(c) = L
      BY <1>1, <1>4, <3>1 DEF Ordered
    <3> QED
      BY <3>1, <3>2
  <2> QED
    BY <2>1, <2>2
<1>8. ASSUME NEW d \in Claimed', ~ Committed(d)'
      PROVE  d.from = L + 1 \/ \E c \in Claimed' : ~ Committed(c)' /\ Archive!To(c) + 1 = d.from
  BY <1>7, <1>8 DEF Ordered
<1> QED
  BY <1>3, <1>5, <1>6, <1>8 DEF Ordered

LEMMA SameOrdered ==
  ASSUME Ordered, lastSeq'[Stream] = lastSeq[Stream], Claimed' = Claimed,
         \A c \in Claimed : Committed(c)' <=> Committed(c)
  PROVE  Ordered'
  BY DEF Ordered, SequencesAssignedOnce

LEMMA SameStored ==
  ASSUME Stored, UNCHANGED storedNext, Claimed' = Claimed, \A c : Held(c)' <=> Held(c)
  PROVE  Stored'
  BY DEF Stored

LEMMA AddStored ==
  ASSUME Sound, Stored, NEW b \in StreamBatches, FreeFrom(b.from), UNCHANGED storedNext,
         Claimed' = Claimed \union {b}, \A c : Held(c)' <=> Held(c) \/ c = b
  PROVE  Stored'
<1>1. /\ \A c \in Claimed : c.from \in Nat \ {0} /\ Archive!To(c) \in Nat /\ c.from <= Archive!To(c)
      /\ b.from \in Nat \ {0} /\ Archive!To(b) \in Nat /\ b.from <= Archive!To(b)
  BY ClaimedRanges, StreamBatchFacts
<1>2. \A c \in Claimed : Archive!To(c) < b.from
  BY DEF FreeFrom
<1>3. ASSUME NEW c \in Claimed'
      PROVE  \E d \in Claimed' : Held(d)' /\ Archive!To(c) <= Archive!To(d)
  <2>1. Archive!To(c) <= Archive!To(b)
    BY <1>1, <1>2, <1>3
  <2> QED
    BY <2>1
<1>4. \A c \in Claimed' : Held(c)' \/ \A d \in Claimed' : Held(d)' => Archive!To(c) < d.from
  BY <1>2 DEF Stored
<1>5. storedNext = 1 \/ \E c \in Claimed' : Archive!To(c) + 1 = storedNext
  BY DEF Stored
<1> QED
  BY <1>3, <1>4, <1>5 DEF Stored

LEMMA AcknowledgeStored ==
  ASSUME Sound, Ordered, Stored, NEW b \in Claimed, Held(b), Oldest(b),
         storedNext' = Archive!To(b) + 1, Claimed' = Claimed,
         \A c : Held(c)' <=> Held(c) /\ c # b
  PROVE  Stored'
<1>1. \A c \in Claimed : c.from \in Nat \ {0} /\ Archive!To(c) \in Nat /\ c.from <= Archive!To(c)
  BY ClaimedRanges
<1>2. \A c \in Claimed : c # b => Archive!To(b) < c.from \/ Archive!To(c) < b.from
  BY DEF Ordered, SequencesAssignedOnce
<1>3. ASSUME NEW c \in Claimed
      PROVE  \/ Archive!To(c) < storedNext'
             \/ \E d \in Claimed : Held(d)' /\ Archive!To(c) <= Archive!To(d)
  <2>1. CASE Archive!To(c) <= Archive!To(b)
    BY <1>1, <2>1
  <2>2. CASE ~ (Archive!To(c) <= Archive!To(b))
    <3>1. c # b
      BY <1>1, <2>2
    <3>2. ~ (Archive!To(c) < b.from)
      BY <1>1, <2>2
    <3>3. Held(c)
      BY <3>2 DEF Stored
    <3> QED
      BY <1>1, <3>1, <3>3
  <2> QED
    BY <2>1, <2>2
<1>4. \A c \in Claimed : Held(c)' \/ \A d \in Claimed : Held(d)' => Archive!To(c) < d.from
  BY DEF Stored, Oldest
<1> QED
  BY <1>3, <1>4 DEF Stored

LEMMA SetNextStored ==
  ASSUME Stored, FreeFrom(storedNext'), Claimed' = Claimed, \A c : Held(c)' <=> Held(c)
  PROVE  Stored'
  BY DEF Stored, FreeFrom

\* What initialize() takes the next sequence to be is free.
LEMMA NextAfterFree ==
  ASSUME Sound, Stored, QuarantinedRows = {}
  PROVE  FreeFrom(NextAfter(storedNext, PendingRows))
<1> DEFINE n == NextAfter(storedNext, PendingRows)
<1>1. storedNext \in Nat \ {0}
  BY DEF Sound, SharedTypes
<1>2. /\ n \in Nat \ {0} /\ storedNext <= n
      /\ \A r \in PendingRows : Archive!To(r.batch) < n
      /\ n = storedNext \/ \E r \in PendingRows : n = Archive!To(r.batch) + 1
  BY <1>1, NextAfterFacts
<1>3. \A r \in outbox : r \in PendingRows /\ r.batch \in Claimed
  BY ClaimedIff DEF Sound, SharedTypes, Held, QuarantinedRows, PendingRows, OutboxRows
<1>4. \A c \in Claimed : Held(c) => Archive!To(c) < n
  BY <1>2, <1>3 DEF Held
<1>5. \A c \in Claimed : Archive!To(c) \in Nat
  BY ClaimedRanges
<1> HIDE DEF n
<1>6. \A c \in Claimed : Archive!To(c) < n
  BY <1>1, <1>2, <1>4, <1>5 DEF Stored
<1>7. n = 1 \/ \E c \in Claimed : Archive!To(c) + 1 = n
  BY <1>2, <1>3 DEF Stored, PendingRows
<1> QED
  BY <1>6, <1>7 DEF FreeFrom, n

\* A listing of the table is one of the whole outbox when nothing is quarantined.
LEMMA ListedIsListing ==
  ASSUME Sound, Ordered, QuarantinedRows = {}, NEW s \in Listed(PendingRequests)
  PROVE  Listing(s)
<1>1. /\ \A i \in 1..Len(s) : s[i] \in PendingRequests /\ s[i].batch \in Claimed
      /\ \A q \in PendingRequests : \E i \in 1..Len(s) : s[i] = q
      /\ \A i, j \in 1..Len(s) : i < j => s[i] # s[j] /\ s[i].batch.from <= s[j].batch.from
  BY ListedFacts
<1>2. \A r \in outbox : r \in PendingRows
  BY DEF Sound, SharedTypes, QuarantinedRows, PendingRows, OutboxRows
<1>3. ASSUME NEW i \in 1..Len(s) PROVE \E r \in outbox : s[i] = Request(r) /\ s[i].batch = r.batch
  BY <1>1 DEF PendingRequests, PendingRows, Request
<1>4. ASSUME NEW c \in Claimed, Held(c) PROVE \E i \in 1..Len(s) : s[i].batch = c
  <2>1. PICK r \in outbox : r.batch = c
    BY <1>4 DEF Held
  <2>2. Request(r) \in PendingRequests /\ Request(r).batch = c
    BY <1>2, <2>1 DEF PendingRequests, Request
  <2> QED
    BY <1>1, <2>2
<1>5. ASSUME NEW i \in 1..Len(s), NEW j \in 1..Len(s), i < j
      PROVE  Archive!To(s[i].batch) < s[j].batch.from
  <2>1. s[i] # s[j] /\ s[i].batch.from <= s[j].batch.from
    BY <1>1, <1>5
  <2>2. s[i].batch # s[j].batch
    BY <1>3, <2>1 DEF Sound, ClaimSound
  <2>3. s[i].batch \in Claimed /\ s[j].batch \in Claimed
    BY <1>1
  <2>4. \/ Archive!To(s[i].batch) < s[j].batch.from
        \/ Archive!To(s[j].batch) < s[i].batch.from
    BY <2>2, <2>3 DEF Ordered, SequencesAssignedOnce
  <2> QED
    BY <2>1, <2>3, <2>4, ClaimedRanges
<1> QED
  BY <1>3, <1>4, <1>5 DEF Listing, Held

-----------------------------------------------------------------------------
\* What the companion is asked for is the oldest row of the outbox.
LEMMA ListingHead ==
  ASSUME NEW s \in Seq(Requests), s # <<>>, Listing(s)
  PROVE  Held(Head(s).batch) /\ Oldest(Head(s).batch)
<1>1. Head(s) = s[1] /\ Len(s) \in Nat /\ 1 \in 1..Len(s)
  BY HeadTailProperties, LenProperties, EmptySeq
<1>2. ASSUME NEW c \in Claimed, Held(c), c # s[1].batch PROVE Archive!To(s[1].batch) < c.from
  <2>1. PICK i \in 1..Len(s) : s[i].batch = c
    BY <1>2 DEF Listing
  <2>2. 1 < i
    BY <1>1, <1>2, <2>1
  <2> QED
    BY <1>1, <2>1, <2>2 DEF Listing
<1> QED
  BY <1>1, <1>2 DEF Listing, Oldest

LEMMA AskedOldest ==
  ASSUME InOrderSound, NEW t \in Tabs, wire[t] # NoMessage
  PROVE  /\ Held(Asked(t).batch) /\ Oldest(Asked(t).batch)
         /\ Stream \in admitted /\ QuarantinedRows = {}
<1>1. TabOrdered(t) /\ TabSound(t) /\ pc[t] \in {"replaying", "sent"} /\ queue[t] \in Seq(Requests)
  BY AskedFacts DEF InOrderSound, Sound, TabTypes
<1>2. Stream \in admitted /\ QuarantinedRows = {}
  BY <1>1 DEF TabOrdered, At
<1>3. CASE pc[t] = "sent"
  BY <1>1, <1>2, <1>3 DEF TabOrdered, At, Asked
<1>4. CASE pc[t] = "replaying"
  <2>1. queue[t] # <<>> /\ Listing(queue[t]) /\ Asked(t) = Head(queue[t])
    BY <1>1, <1>4 DEF TabOrdered, TabSound, At, Asked
  <2> QED
    BY <1>1, <1>2, <2>1, ListingHead
<1> QED
  BY <1>1, <1>3, <1>4

\* A batch of this stream that the archive does not know is fresh: its mutations are
\* its own.
LEMMA UnknownIsFresh ==
  ASSUME Sound, NEW b \in StreamBatches, ~ Archive!Known(b)
  PROVE  Archive!Fresh(b)
<1> SUFFICES ASSUME NEW i \in 1..Len(b.muts), NEW n \in 1..Len(journal),
                    journal[n].mid = b.muts[i].mid
             PROVE  FALSE
  BY DEF Archive!Fresh
<1>1. PICK r \in receipts : \E j \in 1..Len(r.batch.muts) : r.batch.muts[j].mid = b.muts[i].mid
  BY DEF Sound, ArchiveSound, MutationsReceipted
<1>2. PICK j \in 1..Len(r.batch.muts) : r.batch.muts[j].mid = b.muts[i].mid
  BY <1>1
<1>3. r.batch \in KnownBatches /\ r.batch.id # b.id
  BY DEF Sound, ArchiveSound, Archive!Known
<1>4. b.muts = MutationsOf[b.id] /\ b.id \in Ops /\ i \in DOMAIN b.muts
  BY StreamBatchFacts
<1>5. CASE r.batch \in StreamBatches
  <2>1. r.batch.muts = MutationsOf[r.batch.id] /\ r.batch.id \in Ops /\ j \in DOMAIN r.batch.muts
    BY <1>5, StreamBatchFacts
  <2> QED
    BY <1>2, <1>3, <1>4, <2>1, OperationsAssumption
<1>6. CASE r.batch \in HistoryBatches
  <2>1. PICK k \in DOMAIN History : r.batch = History[k]
    BY <1>6 DEF HistoryBatches
  <2>2. j \in DOMAIN History[k].muts
    <3>1. r.batch.muts \in Seq(Archive!Mutation)
      BY <2>1, HistoryAssumption DEF Archive!WellFormed
    <3> QED
      BY <2>1, <3>1, LenProperties
  <2> QED
    BY <1>2, <1>4, <2>1, <2>2, HistoryAssumption
<1> QED
  BY <1>3, <1>5, <1>6 DEF KnownBatches

\* The only refusal of the oldest row is one for a record that a restore took back.
LEMMA RefusalConflict ==
  ASSUME Sound, Ordered, NEW q \in Requests, q.batch \in Claimed, Held(q.batch),
         Oldest(q.batch), Stream \in admitted,
         Archive!Answer(q.batch, q.cp) \notin {"committed", "duplicate"}
  PROVE  Archive!TombstoneConflict(q.batch)
<1> PICK b, cp : b = q.batch /\ cp = q.cp
  OBVIOUS
<1>1. b \in StreamBatches /\ b.id \in Ops /\ b.client = Stream /\ cp \in checkpoints \union {Unknown}
  BY StreamBatchFacts DEF Requests, Quotable
<1>2. cp # Unknown => cp \in checkpoints /\ ~ (cp.seq > head.seq) /\ ~ Archive!Expired(cp)
  <2>1. \A p \in checkpoints : p.seq \in Nat /\ p.seq <= head.seq /\ head.seq \in Nat
    BY DEF Sound, ArchiveSound
  <2> QED
    BY <1>1, <2>1 DEF Archive!Expired, Sound, ArchiveSound
<1>3. ASSUME Archive!Known(b) PROVE Archive!Receipt(b.id).batch = b
  <2> PICK r : r = Archive!Receipt(b.id)
    OBVIOUS
  <2>1. r \in receipts /\ r.batch.id = b.id
    BY <1>3 DEF Archive!Known, Archive!Receipt
  <2>2. r.batch \in StreamBatches
    BY <1>1, <2>1, HistoryBatchFacts DEF Sound, ArchiveSound, KnownBatches
  <2>3. r.batch \in Claimed
    BY <2>1, <2>2, StreamBatchFacts DEF Claimed
  <2> QED
    BY <2>1, <2>3 DEF Sound, ClaimSound
<1>4. ASSUME ~ Archive!Known(b) PROVE Archive!NextInSequence(b)
  <2>1. ~ Committed(b)
    BY <1>4 DEF Committed, Archive!Known
  <2>2. CASE b.from = lastSeq[Stream] + 1
    BY <1>1, <2>2 DEF Archive!NextInSequence
  <2>3. ASSUME NEW c \in Claimed, ~ Committed(c), Archive!To(c) + 1 = b.from PROVE FALSE
    <3>1. Held(c)
      BY <2>3, ClaimedRanges
    <3>2. c = b \/ Archive!To(b) < c.from
      BY <3>1 DEF Oldest
    <3> QED
      BY <2>3, <3>2, ClaimedRanges
  <2> QED
    BY <2>1, <2>2, <2>3 DEF Ordered
<1>5. ~ Archive!Known(b) => Archive!Fresh(b)
  BY <1>1, UnknownIsFresh
<1> QED
  BY <1>1, <1>2, <1>3, <1>4, <1>5, AnswerFacts

-----------------------------------------------------------------------------
\* The frames of the steps: what the shared parts say when they are left alone, ...
LEMMA SameParts ==
  ASSUME InOrderSound, UNCHANGED <<outbox, storedNext, archiveVars>>
  PROVE  /\ Ordered' /\ Stored' /\ OnlyConflictsQuarantined'
         /\ Claimed' = Claimed /\ QuarantinedRows' = QuarantinedRows
         /\ UNCHANGED <<outbox, storedNext, admitted>>
         /\ \A b : Archive!TombstoneConflict(b)' <=> Archive!TombstoneConflict(b)
<1>1. UNCHANGED <<receipts, lastSeq, stateRecords, admitted>>
  BY DEF archiveVars
<1>2. /\ Claimed' = Claimed
      /\ \A b : Committed(b)' <=> Committed(b)
      /\ \A b : Held(b)' <=> Held(b)
  BY <1>1, SameClaims
<1>3. Ordered' /\ Stored'
  BY <1>1, <1>2, SameOrdered, SameStored DEF InOrderSound
<1>4. \A b : Archive!TombstoneConflict(b)' <=> Archive!TombstoneConflict(b)
  BY <1>1 DEF Archive!TombstoneConflict
<1>5. QuarantinedRows' = QuarantinedRows
  BY DEF QuarantinedRows
<1>6. OnlyConflictsQuarantined'
  BY <1>4, <1>5 DEF InOrderSound, OnlyConflictsQuarantined
<1> QED
  BY <1>1, <1>2, <1>3, <1>4, <1>5, <1>6

\* ... what is said of claimed and held batches, ...
LEMMA SameSaid ==
  ASSUME Claimed' = Claimed, UNCHANGED outbox
  PROVE  /\ QuarantinedRows' = QuarantinedRows
         /\ \A b : Held(b)' <=> Held(b)
         /\ \A n : FreeFrom(n)' <=> FreeFrom(n)
         /\ \A b : Oldest(b)' <=> Oldest(b)
         /\ \A s : Listing(s)' <=> Listing(s)
<1>1. QuarantinedRows' = QuarantinedRows /\ \A b : Held(b)' <=> Held(b)
  BY DEF QuarantinedRows, Held
<1>2. \A n : FreeFrom(n)' <=> FreeFrom(n)
  BY DEF FreeFrom
<1>3. \A b : Oldest(b)' <=> Oldest(b)
  BY <1>1 DEF Oldest
<1>4. \A s : Listing(s)' <=> Listing(s)
  BY <1>1 DEF Listing
<1> QED
  BY <1>1, <1>2, <1>3, <1>4

\* ... a tab that expects nothing of them, ...
LEMMA NothingExpected ==
  ASSUME NEW t \in Tabs, pc'[t] \in {"idle", "hello", "stored", "project", "stopping"},
         pc'[t] # "idle" => Stream \in admitted', wire'[t] = NoMessage
  PROVE  TabOrdered(t)'
  BY DEF TabOrdered, At, Received

\* ... and one that takes no part.
LEMMA TabOrderedKept ==
  ASSUME InOrderSound, NEW t \in Tabs,
         UNCHANGED <<pc, next, queue, sending, outbox, storedNext>>, wire'[t] = wire[t],
         Claimed' = Claimed, admitted \subseteq admitted',
         \A c \in KnownBatches : Archive!TombstoneConflict(c) => Archive!TombstoneConflict(c)'
  PROVE  TabOrdered(t)'
<1>1. TabOrdered(t) /\ Asked(t)' = Asked(t)
  BY DEF InOrderSound, Asked, At
<1>2. /\ QuarantinedRows' = QuarantinedRows
      /\ \A b : Held(b)' <=> Held(b)
      /\ \A n : FreeFrom(n)' <=> FreeFrom(n)
      /\ \A b : Oldest(b)' <=> Oldest(b)
      /\ \A s : Listing(s)' <=> Listing(s)
  BY SameSaid
<1>3. Received(t, "refusal")' => Archive!TombstoneConflict(Asked(t).batch)'
  <2> SUFFICES ASSUME Received(t, "refusal") PROVE Archive!TombstoneConflict(Asked(t).batch)'
    BY DEF Received
  <2>1. PICK b : b = Asked(t).batch
    OBVIOUS
  <2>2. b \in KnownBatches /\ Archive!TombstoneConflict(b)
    BY <1>1, <2>1, AskedFacts DEF InOrderSound, TabOrdered, Received, KnownBatches
  <2>3. Archive!TombstoneConflict(b)' /\ b = Asked(t)'.batch
    BY <1>1, <2>1, <2>2
  <2> QED
    BY <2>3 DEF Archive!TombstoneConflict
<1>4. /\ ~ At(t, "idle")' => Stream \in admitted'
      /\ At(t, "pending")' => next'[t] = storedNext'
      /\ pc'[t] \in {"list", "replay", "replaying", "setnext"} => FreeFrom(next[t])'
      /\ At(t, "add")' => FreeFrom(sending[t].batch.from)'
      /\ pc'[t] \in {"add", "setnext"} => next'[t] = Archive!To(sending'[t].batch) + 1
      /\ pc'[t] \in {"list", "replay", "replaying", "add", "setnext", "choose", "sent"} =>
           QuarantinedRows' = {}
      /\ pc'[t] \in {"replay", "replaying"} /\ queue'[t] # <<>> => Listing(queue[t])'
      /\ pc'[t] \in {"setnext", "choose", "sent"} => Held(sending[t].batch)'
      /\ At(t, "sent")' => Oldest(sending[t].batch)'
  BY <1>1, <1>2 DEF TabOrdered, At, FreeFrom, Oldest, Listing, Held
<1> QED
  BY <1>3, <1>4 DEF TabOrdered

-----------------------------------------------------------------------------
\* The steps of the one tab.  A call that settles expects nothing.
LEMMA SettlingInOrder ==
  ASSUME InOrderSound, NEW t \in Tabs,
         \/ HelloFails(t) \/ AddFails(t) \/ SetNextFails(t) \/ RetryNotNoted(t)
         \/ AcknowledgeFails(t) \/ QuarantineFails(t) \/ Stop(t) \/ Project(t)
         \/ ProjectFails(t) \/ OutboxFails(t) \/ Crash(t)
  PROVE  Ordered' /\ Stored' /\ OnlyConflictsQuarantined' /\ TabOrdered(t)'
<1>1. UNCHANGED <<outbox, storedNext, archiveVars>> /\ \E how \in Outcomes : Settle(t, how)
  BY DEF HelloFails, AddFails, SetNextFails, RetryNotNoted, AcknowledgeFails, QuarantineFails,
         Stop, Project, ProjectFails, OutboxFails, Crash, outboxVars, Outcomes
<1>2. pc'[t] = "idle"
  BY <1>1 DEF Settle, Goto, InOrderSound, Sound, TabTypes
<1>3. wire'[t] = NoMessage
  <2>1. CASE wire' = [wire EXCEPT ![t] = NoMessage]
    BY <2>1 DEF InOrderSound, Sound, TabTypes
  <2>2. CASE wire' = wire /\ (pc[t] \notin {"replaying", "sent"} \/ wire[t] = NoMessage)
    BY <2>2, UnchangedParts DEF InOrderSound
  <2> QED
    BY <2>1, <2>2 DEF HelloFails, AddFails, SetNextFails, RetryNotNoted, AcknowledgeFails,
       QuarantineFails, Stop, Project, ProjectFails, OutboxFails, Crash, Disconnect, At
<1> QED
  BY <1>1, <1>2, <1>3, SameParts, NothingExpected

LEMMA ReadingInOrder ==
  ASSUME InOrderSound, NEW t \in Tabs,
         \/ Hello(t) \/ ReadStoredNext(t) \/ SendReplay(t) \/ NothingToSend(t)
         \/ ReplayRetryable(t) \/ SentRetryable(t)
  PROVE  Ordered' /\ Stored' /\ OnlyConflictsQuarantined' /\ TabOrdered(t)'
<1>1. UNCHANGED <<outbox, storedNext, archiveVars, sending>>
  BY DEF Hello, ReadStoredNext, SendReplay, NothingToSend, ReplayRetryable, SentRetryable,
         outboxVars
<1>2. /\ Ordered' /\ Stored' /\ OnlyConflictsQuarantined'
      /\ Claimed' = Claimed /\ QuarantinedRows' = QuarantinedRows
      /\ admitted' = admitted
  BY <1>1, SameParts
<1>3. /\ \A n : FreeFrom(n)' <=> FreeFrom(n)
      /\ \A s : Listing(s)' <=> Listing(s)
  BY <1>1, <1>2, SameSaid
<1>4. TabOrdered(t) /\ TabTypes /\ (pc[t] \notin {"replaying", "sent"} => wire[t] = NoMessage)
  BY UnchangedParts DEF InOrderSound, Sound
<1>5. CASE Hello(t) \/ NothingToSend(t) \/ SentRetryable(t)
  <2>1. pc'[t] \in {"stored", "project"} /\ pc[t] # "idle"
    BY <1>4, <1>5 DEF Hello, NothingToSend, SentRetryable, At, Goto, TabTypes
  <2>2. wire'[t] = NoMessage
    BY <1>4, <1>5 DEF Hello, NothingToSend, SentRetryable, At, Disconnect, TabTypes
  <2> QED
    BY <1>2, <1>4, <2>1, <2>2, NothingExpected DEF TabOrdered, At
<1>6. CASE ReadStoredNext(t)
  <2>1. pc'[t] = "pending" /\ next'[t] = storedNext' /\ pc[t] = "stored" /\ wire'[t] = NoMessage
    BY <1>1, <1>4, <1>6 DEF ReadStoredNext, At, Goto, TabTypes
  <2> QED
    BY <1>2, <1>4, <2>1 DEF TabOrdered, At, Received
<1>7. CASE SendReplay(t)
  <2>1. /\ pc'[t] = "replaying" /\ pc[t] = "replay" /\ queue[t] # <<>>
        /\ UNCHANGED <<next, queue>> /\ wire'[t].kind = "request"
    BY <1>4, <1>7 DEF SendReplay, At, Goto, TabTypes
  <2>2. FreeFrom(next[t])' /\ Listing(queue[t])'
    <3>1. PICK s : s = queue[t]
      OBVIOUS
    <3>2. Listing(s)' /\ s = queue'[t] /\ FreeFrom(next[t])
      BY <1>3, <1>4, <2>1, <3>1 DEF TabOrdered
    <3> QED
      BY <1>3, <2>1, <3>2 DEF FreeFrom, Listing
  <2>3. QuarantinedRows' = {} /\ Stream \in admitted'
    BY <1>2, <1>4, <2>1 DEF TabOrdered, At
  <2>4. ~ Received(t, "refusal")'
    BY <2>1 DEF Received
  <2> QED
    BY <1>2, <2>1, <2>2, <2>3, <2>4 DEF TabOrdered, At
<1>8. CASE ReplayRetryable(t)
  <2>1. /\ pc'[t] = "replay" /\ pc[t] = "replaying" /\ UNCHANGED next
        /\ queue'[t] = <<>> /\ wire'[t] = NoMessage
    BY <1>4, <1>8 DEF ReplayRetryable, Disconnect, At, Goto, TabTypes
  <2>2. FreeFrom(next[t])'
    BY <1>3, <1>4, <2>1 DEF TabOrdered, FreeFrom
  <2> QED
    BY <1>2, <1>4, <2>1, <2>2 DEF TabOrdered, At, Received
<1> QED
  BY <1>2, <1>5, <1>6, <1>7, <1>8

\* initialize() ends with a free sequence and no quarantined row; then the outbox is listed.
LEMMA ListingInOrder ==
  ASSUME InOrderSound, NEW t \in Tabs, ReadPending(t) \/ ListPending(t)
  PROVE  Ordered' /\ Stored' /\ OnlyConflictsQuarantined' /\ TabOrdered(t)'
<1>1. UNCHANGED <<outbox, storedNext, archiveVars, sending, wire>>
  BY DEF ReadPending, ListPending, outboxVars
<1>2. /\ Ordered' /\ Stored' /\ OnlyConflictsQuarantined'
      /\ Claimed' = Claimed /\ QuarantinedRows' = QuarantinedRows
      /\ admitted' = admitted
  BY <1>1, SameParts
<1>3. /\ \A n : FreeFrom(n)' <=> FreeFrom(n)
      /\ \A s : Listing(s)' <=> Listing(s)
  BY <1>1, <1>2, SameSaid
<1>4. TabOrdered(t) /\ TabTypes /\ Sound /\ Ordered /\ Stored
  BY DEF InOrderSound, Sound
<1>5. pc[t] \in {"pending", "list"}
  BY DEF ReadPending, ListPending, At
<1>6. wire'[t] = NoMessage /\ Stream \in admitted
  BY <1>1, <1>4, <1>5, UnchangedParts DEF TabOrdered, At
<1>7. CASE ReadPending(t)
  <2>1. pc[t] = "pending" /\ next' = [next EXCEPT ![t] = NextAfter(next[t], PendingRows)]
    BY <1>7 DEF ReadPending, At
  <2>2. CASE Settle(t, "rejected")
    <3>1. pc'[t] = "idle"
      BY <1>4, <2>2 DEF Settle, Goto, TabTypes
    <3> QED
      BY <1>2, <1>6, <3>1, NothingExpected
  <2>3. CASE QuarantinedRows = {} /\ Goto(t, "list")
    <3>1. next[t] = storedNext
      BY <1>4, <2>1 DEF TabOrdered, At
    <3>2. next'[t] = NextAfter(storedNext, PendingRows) /\ pc'[t] = "list"
      BY <1>4, <2>1, <2>3, <3>1 DEF TabTypes, Goto
    <3>3. FreeFrom(next[t])'
      <4>1. FreeFrom(NextAfter(storedNext, PendingRows))
        BY <1>4, <2>3, NextAfterFree
      <4>2. PICK n : n = next'[t]
        OBVIOUS
      <4>3. FreeFrom(n)'
        BY <1>3, <3>2, <4>1, <4>2
      <4> QED
        BY <4>2, <4>3 DEF FreeFrom
    <3> QED
      BY <1>2, <1>6, <2>3, <3>2, <3>3 DEF TabOrdered, At, Received
  <2> QED
    BY <1>7, <2>2, <2>3 DEF ReadPending
<1>8. CASE ListPending(t)
  <2>1. PICK s \in Listed(PendingRequests) : queue' = [queue EXCEPT ![t] = s]
    BY <1>8 DEF ListPending
  <2>2. pc[t] = "list" /\ pc'[t] = "replay" /\ queue'[t] = s /\ UNCHANGED next
    BY <1>4, <1>8, <2>1 DEF ListPending, At, Goto, TabTypes
  <2>3. FreeFrom(next[t]) /\ QuarantinedRows = {}
    BY <1>4, <2>2 DEF TabOrdered
  <2>4. Listing(s)'
    BY <1>3, <1>4, <2>3, ListedIsListing
  <2>5. FreeFrom(next[t])' /\ Listing(queue[t])'
    BY <1>3, <2>2, <2>3, <2>4 DEF FreeFrom, Listing, Held
  <2> QED
    BY <1>2, <1>6, <2>2, <2>3, <2>5 DEF TabOrdered, At, Received
<1> QED
  BY <1>2, <1>7, <1>8

-----------------------------------------------------------------------------
\* An acknowledged row was the oldest: the outbox stays what was claimed last.
LEMMA AcknowledgeInOrder ==
  ASSUME InOrderSound, NEW t \in Tabs, Received(t, "receipt"), Acknowledge(t, Asked(t).batch),
         UNCHANGED <<doing, sending, late, outcome, archiveVars>>
  PROVE  /\ Ordered' /\ Stored' /\ OnlyConflictsQuarantined'
         /\ Claimed' = Claimed /\ QuarantinedRows' = {}
         /\ \A c : Held(c)' <=> Held(c) /\ c # Asked(t).batch
         /\ \A n : FreeFrom(n)' <=> FreeFrom(n)
         /\ FreeFrom(next[t]) => next'[t] = next[t]
         /\ wire'[t] = NoMessage /\ Stream \in admitted'
<1>1. PICK b : b = Asked(t).batch
  OBVIOUS
<1>2. /\ wire[t] # NoMessage /\ Committed(b) /\ b \in Claimed
      /\ Held(b) /\ Oldest(b) /\ Stream \in admitted /\ QuarantinedRows = {}
  BY <1>1, AskedFacts, AskedOldest DEF Received, InOrderSound, Sound, TabSound
<1>3. /\ outbox' = Without(b) /\ storedNext' = Archive!To(b) + 1
      /\ next' = [next EXCEPT ![t] = Larger(next[t], Archive!To(b) + 1)]
      /\ wire' = [wire EXCEPT ![t] = NoMessage]
      /\ UNCHANGED <<receipts, checkpoints, lastSeq, admitted>>
  BY <1>1 DEF Acknowledge, archiveVars
<1>4. Sound /\ ArchiveSound /\ SharedTypes /\ ClaimSound /\ TabTypes /\ Ordered /\ Stored
  BY DEF InOrderSound, Sound
<1>5. /\ Claimed' = Claimed
      /\ \A c : Committed(c)' <=> Committed(c)
      /\ \A c : Held(c)' <=> Held(c) /\ c # b
      /\ outbox' \subseteq outbox
  BY <1>2, <1>3, <1>4, AcknowledgeClaims
<1>6. Ordered'
  BY <1>3, <1>4, <1>5, SameOrdered
<1>7. Stored'
  BY <1>2, <1>3, <1>4, <1>5, AcknowledgeStored
<1>8. QuarantinedRows' = {}
  BY <1>2, <1>5 DEF QuarantinedRows
<1>9. \A n : FreeFrom(n)' <=> FreeFrom(n)
  BY <1>5 DEF FreeFrom
<1>10. ASSUME FreeFrom(next[t]) PROVE next'[t] = next[t]
  <2>1. next[t] \in Nat /\ Archive!To(b) \in Nat /\ Archive!To(b) < next[t]
    BY <1>2, <1>4, <1>10, ClaimedRanges DEF FreeFrom, TabTypes
  <2>2. Larger(next[t], Archive!To(b) + 1) = next[t]
    BY <2>1 DEF Larger
  <2> QED
    BY <1>3, <1>4, <2>2 DEF TabTypes
<1>11. wire'[t] = NoMessage
  BY <1>3, <1>4 DEF TabTypes
<1> QED
  BY <1>1, <1>2, <1>3, <1>5, <1>6, <1>7, <1>8, <1>9, <1>10, <1>11 DEF OnlyConflictsQuarantined

\* Without its first row a listing lists the rest of the outbox.
LEMMA ListingTail ==
  ASSUME Sound, NEW s \in Seq(Requests), s # <<>>, Listing(s), NEW r, r = Tail(s),
         \A i \in 1..Len(s) : s[i].batch \in Claimed,
         Claimed' = Claimed, \A c : Held(c)' <=> Held(c) /\ c # Head(s).batch
  PROVE  Listing(r)'
<1>2. /\ Head(s) = s[1] /\ Len(s) \in Nat /\ Len(s) # 0 /\ Len(r) = Len(s) - 1
      /\ \A i \in 1..Len(r) : r[i] = s[i + 1] /\ i + 1 \in 1..Len(s)
  <2>1. Len(s) \in Nat /\ Len(s) # 0
    BY LenProperties, EmptySeq
  <2>2. Head(s) = s[1] /\ Len(r) = Len(s) - 1 /\ \A i \in 1..Len(r) : r[i] = s[i + 1]
    BY HeadTailProperties
  <2> QED
    BY <2>1, <2>2
<1>3. ASSUME NEW i \in 1..Len(r) PROVE Held(r[i].batch)'
  <2>1. PICK c : c = r[i].batch
    OBVIOUS
  <2>2. i + 1 \in 1..Len(s) /\ 1 \in 1..Len(s) /\ 1 < i + 1 /\ c = s[i + 1].batch
    BY <1>2, <2>1
  <2>3. Held(c) /\ c \in Claimed /\ Archive!To(s[1].batch) < c.from
    BY <2>2 DEF Listing
  <2>4. c # s[1].batch
    BY <2>3, ClaimedRanges
  <2> QED
    BY <1>2, <2>1, <2>3, <2>4
<1>4. ASSUME NEW c \in Claimed', Held(c)' PROVE \E i \in 1..Len(r) : r[i].batch = c
  <2>1. Held(c) /\ c # s[1].batch
    BY <1>2, <1>4
  <2>2. PICK j \in 1..Len(s) : s[j].batch = c
    BY <1>4, <2>1 DEF Listing
  <2>3. j - 1 \in 1..Len(r) /\ r[j - 1] = s[j]
    BY <1>2, <2>1, <2>2
  <2> QED
    BY <2>2, <2>3
<1>5. ASSUME NEW i \in 1..Len(r), NEW j \in 1..Len(r), i < j
      PROVE  Archive!To(r[i].batch) < r[j].batch.from
  <2>1. /\ i + 1 \in 1..Len(s) /\ j + 1 \in 1..Len(s) /\ i + 1 < j + 1
        /\ r[i] = s[i + 1] /\ r[j] = s[j + 1]
    BY <1>2, <1>5
  <2> QED
    BY <2>1 DEF Listing
<1> QED
  BY <1>3, <1>4, <1>5 DEF Listing

LEMMA AcknowledgedInOrder ==
  ASSUME InOrderSound, NEW t \in Tabs,
         ReplayAcknowledged(t) \/ SentAcknowledged(t) \/ SentUsageFails(t)
  PROVE  Ordered' /\ Stored' /\ OnlyConflictsQuarantined' /\ TabOrdered(t)'
<1>1. /\ Received(t, "receipt") /\ Acknowledge(t, Asked(t).batch)
      /\ UNCHANGED <<doing, sending, late, outcome, archiveVars>>
  <2>1. CASE ReplayAcknowledged(t)
    BY <2>1 DEF ReplayAcknowledged, Asked, At
  <2>2. CASE SentAcknowledged(t) \/ SentUsageFails(t)
    BY <2>2 DEF SentAcknowledged, SentUsageFails, Asked, At
  <2> QED
    BY <2>1, <2>2
<1>2. /\ Ordered' /\ Stored' /\ OnlyConflictsQuarantined'
      /\ Claimed' = Claimed /\ QuarantinedRows' = {}
      /\ \A c : Held(c)' <=> Held(c) /\ c # Asked(t).batch
      /\ \A n : FreeFrom(n)' <=> FreeFrom(n)
      /\ FreeFrom(next[t]) => next'[t] = next[t]
      /\ wire'[t] = NoMessage /\ Stream \in admitted'
  BY <1>1, AcknowledgeInOrder
<1>3. TabOrdered(t) /\ TabTypes /\ TabSound(t) /\ Sound
  BY DEF InOrderSound, Sound
<1>4. CASE SentAcknowledged(t) \/ SentUsageFails(t)
  <2>1. pc'[t] \in {"project", "stopping"}
    BY <1>3, <1>4 DEF SentAcknowledged, SentUsageFails, Goto, TabTypes
  <2> QED
    BY <1>2, <2>1, NothingExpected
<1>5. CASE ReplayAcknowledged(t)
  <2>1. pc[t] = "replaying" /\ pc'[t] = "replay" /\ queue'[t] = Tail(queue[t])
    BY <1>3, <1>5 DEF ReplayAcknowledged, At, Goto, TabTypes
  <2>2. /\ queue[t] # <<>> /\ queue[t] \in Seq(Requests) /\ FreeFrom(next[t]) /\ Listing(queue[t])
        /\ Asked(t) = Head(queue[t])
        /\ \A i \in 1..Len(queue[t]) : queue[t][i].batch \in Claimed
    BY <1>3, <2>1 DEF TabOrdered, TabSound, TabTypes, At, Asked
  <2>3. Listing(queue[t])'
    <3>1. PICK s, r : s = queue[t] /\ r = Tail(s)
      OBVIOUS
    <3>2. Listing(r)' /\ r = queue'[t]
      BY <1>2, <1>3, <2>1, <2>2, <3>1, ListingTail
    <3> QED
      BY <3>2 DEF Listing
  <2>4. FreeFrom(next[t])'
    BY <1>2, <2>2 DEF FreeFrom
  <2>5. ~ Received(t, "refusal")'
    BY <1>2 DEF Received
  <2> QED
    BY <1>2, <2>1, <2>3, <2>4, <2>5 DEF TabOrdered, At
<1> QED
  BY <1>2, <1>4, <1>5

\* What is quarantined was refused for a record that a restore took back.
LEMMA RefusedInOrder ==
  ASSUME InOrderSound, NEW t \in Tabs, ReplayRefused(t) \/ SentRefused(t)
  PROVE  Ordered' /\ Stored' /\ OnlyConflictsQuarantined' /\ TabOrdered(t)'
<1>1. PICK b : b = Asked(t).batch
  OBVIOUS
<1>2. Received(t, "refusal") /\ Quarantine(t, b) /\ pc[t] \in {"replaying", "sent"}
  BY <1>1 DEF ReplayRefused, SentRefused, Quarantine, Asked, At
<1>3. /\ outbox' = {IF r.batch.id = b.id THEN [r EXCEPT !.status = "quarantined"] ELSE r :
                      r \in outbox}
      /\ wire' = [wire EXCEPT ![t] = NoMessage] /\ pc' = [pc EXCEPT ![t] = "stopping"]
      /\ UNCHANGED <<storedNext, receipts, checkpoints, lastSeq, admitted, stateRecords>>
  BY <1>2 DEF Quarantine, Goto, archiveVars
<1>4. b \in Claimed /\ Archive!TombstoneConflict(b) /\ Stream \in admitted
  BY <1>1, <1>2, AskedFacts, AskedOldest DEF Received, InOrderSound, TabOrdered
<1>5. Sound /\ ArchiveSound /\ SharedTypes /\ ClaimSound /\ TabTypes /\ Ordered /\ Stored
  BY DEF InOrderSound, Sound
<1>6. /\ Claimed' = Claimed
      /\ \A c : Committed(c)' <=> Committed(c)
      /\ \A c : Held(c)' <=> Held(c)
      /\ \A r \in outbox' : r.status = "quarantined" => r \in outbox \/ r.batch = b
  BY <1>3, <1>4, <1>5, QuarantineClaims
<1>7. Ordered' /\ Stored'
  BY <1>3, <1>5, <1>6, SameOrdered, SameStored
<1>8. OnlyConflictsQuarantined'
  <2>1. \A r \in QuarantinedRows' : Archive!TombstoneConflict(r.batch)
    BY <1>4, <1>6 DEF InOrderSound, OnlyConflictsQuarantined, QuarantinedRows
  <2> QED
    BY <1>3, <2>1 DEF OnlyConflictsQuarantined, Archive!TombstoneConflict
<1>9. pc'[t] = "stopping" /\ wire'[t] = NoMessage
  BY <1>3, <1>5 DEF TabTypes
<1> QED
  BY <1>3, <1>4, <1>7, <1>8, <1>9, NothingExpected

-----------------------------------------------------------------------------
\* The operation's own row takes the next sequence, ...
LEMMA BuildInOrder ==
  ASSUME InOrderSound, NEW t \in Tabs, Build(t)
  PROVE  Ordered' /\ Stored' /\ OnlyConflictsQuarantined' /\ TabOrdered(t)'
<1>1. PICK b : b = Batch(doing[t], next[t])
  OBVIOUS
<1>2. /\ pc[t] = "replay" /\ next' = [next EXCEPT ![t] = Archive!To(b) + 1]
      /\ UNCHANGED <<wire, outbox, storedNext, archiveVars>>
  BY <1>1 DEF Build, At
<1>3. /\ Ordered' /\ Stored' /\ OnlyConflictsQuarantined'
      /\ Claimed' = Claimed /\ QuarantinedRows' = QuarantinedRows
      /\ admitted' = admitted
  BY <1>2, SameParts
<1>4. TabOrdered(t) /\ TabTypes
  BY DEF InOrderSound, Sound
<1>5. wire'[t] = NoMessage /\ Stream \in admitted /\ FreeFrom(next[t]) /\ QuarantinedRows = {}
  BY <1>2, <1>4, UnchangedParts DEF InOrderSound, TabOrdered, At
<1>6. CASE Settle(t, "rejected")
  <2>1. pc'[t] = "idle"
    BY <1>4, <1>6 DEF Settle, Goto, TabTypes
  <2> QED
    BY <1>3, <1>5, <2>1, NothingExpected
<1>7. CASE sending' = [sending EXCEPT ![t] = [batch |-> b, cp |-> known[t]]] /\ Goto(t, "add")
  <2>1. pc'[t] = "add" /\ sending'[t].batch = b /\ next'[t] = Archive!To(b) + 1
    BY <1>2, <1>4, <1>7 DEF Goto, TabTypes
  <2>2. FreeFrom(b.from)
    BY <1>1, <1>5 DEF Batch
  <2>3. FreeFrom(sending[t].batch.from)'
    BY <1>3, <2>1, <2>2 DEF FreeFrom
  <2> QED
    BY <1>3, <1>5, <2>1, <2>3 DEF TabOrdered, At, Received
<1> QED
  BY <1>1, <1>6, <1>7 DEF Build

\* ... is claimed last, ...
LEMMA AddInOrder ==
  ASSUME InOrderSound, NEW t \in Tabs, Add(t)
  PROVE  Ordered' /\ Stored' /\ OnlyConflictsQuarantined' /\ TabOrdered(t)'
<1>1. PICK b, row : /\ b = sending[t].batch
                    /\ row = [batch |-> b, cp |-> sending[t].cp, status |-> "pending"]
  OBVIOUS
<1>2. /\ pc[t] = "add" /\ outbox' = outbox \union {row} /\ pc' = [pc EXCEPT ![t] = "setnext"]
      /\ UNCHANGED <<next, sending, wire, storedNext, archiveVars>>
  BY <1>1 DEF Add, At, Goto
<1>3. UNCHANGED <<receipts, checkpoints, lastSeq, admitted>>
  BY <1>2 DEF archiveVars
<1>4. TabOrdered(t) /\ TabTypes /\ TabSound(t) /\ Sound /\ Ordered /\ Stored /\ ArchiveSound /\ SharedTypes
  BY DEF InOrderSound, Sound
<1>5. /\ b \in StreamBatches /\ row \in OutboxRows /\ row.batch = b /\ ~ Committed(b)
      /\ row.status = "pending"
  <2>1. sending[t] \in Requests /\ b.id = doing[t] /\ b \in StreamBatches
    BY <1>1, <1>2, <1>4 DEF TabSound, At, Requests
  <2>2. b.id \in Ops /\ b.client = Stream
    BY <2>1, StreamBatchFacts
  <2>3. ~ HasClaim(b.id)
    BY <1>2, <1>4, <2>1, <2>2 DEF TabSound, BeforeAdd
  <2>4. ~ Committed(b)
    BY <2>2, <2>3 DEF Committed, Claimed, HasClaim
  <2> QED
    BY <1>1, <2>1, <2>4 DEF Requests, OutboxRows
<1>6. /\ Claimed' = Claimed \union {b}
      /\ \A c : Committed(c)' <=> Committed(c)
      /\ \A c : Held(c)' <=> Held(c) \/ c = b
  BY <1>2, <1>3, <1>4, <1>5, AddClaims
<1>7. /\ FreeFrom(b.from) /\ next[t] = Archive!To(b) + 1
      /\ QuarantinedRows = {} /\ Stream \in admitted
  BY <1>1, <1>2, <1>4 DEF TabOrdered, At
<1>8. Ordered' /\ Stored'
  BY <1>2, <1>3, <1>4, <1>5, <1>6, <1>7, AddOrdered, AddStored
<1>9. QuarantinedRows' = {}
  BY <1>2, <1>5, <1>7 DEF QuarantinedRows
<1>10. /\ pc'[t] = "setnext" /\ wire'[t] = NoMessage /\ sending'[t].batch = b
       /\ next'[t] = Archive!To(b) + 1
  BY <1>1, <1>2, <1>4, <1>7, UnchangedParts DEF TabTypes
<1>11. FreeFrom(next[t])'
  <2>1. /\ \A c \in Claimed : Archive!To(c) \in Nat /\ Archive!To(c) < b.from
        /\ b.from \in Nat /\ Archive!To(b) \in Nat /\ b.from <= Archive!To(b)
    BY <1>4, <1>5, <1>7, ClaimedRanges, StreamBatchFacts DEF FreeFrom
  <2>2. \A c \in Claimed' : Archive!To(c) < next'[t]
    BY <1>6, <1>10, <2>1
  <2> QED
    BY <1>6, <1>10, <2>2 DEF FreeFrom
<1>12. Held(sending[t].batch)'
  <2>1. Held(b)'
    BY <1>6
  <2> QED
    BY <1>10, <2>1 DEF Held
<1> QED
  BY <1>3, <1>7, <1>8, <1>9, <1>10, <1>11, <1>12
  DEF TabOrdered, At, Received, OnlyConflictsQuarantined

\* ... and is sent when it is the oldest.
LEMMA SetNextChooseInOrder ==
  ASSUME InOrderSound, NEW t \in Tabs, SetNext(t) \/ Choose(t)
  PROVE  Ordered' /\ Stored' /\ OnlyConflictsQuarantined' /\ TabOrdered(t)'
<1>1. PICK b : b = sending[t].batch
  OBVIOUS
<1>2. UNCHANGED <<outbox, archiveVars, sending, next>>
  BY DEF SetNext, Choose, outboxVars
<1>3. TabOrdered(t) /\ TabTypes /\ TabSound(t) /\ Sound /\ Ordered
  BY DEF InOrderSound, Sound
<1>4. pc[t] \in {"setnext", "choose"} /\ Stream \in admitted /\ QuarantinedRows = {} /\ Held(b)
  BY <1>1, <1>3 DEF SetNext, Choose, TabOrdered, At
<1>5. UNCHANGED <<receipts, lastSeq, stateRecords, admitted>>
  BY <1>2 DEF archiveVars
<1>6. /\ Claimed' = Claimed
      /\ \A c : Committed(c)' <=> Committed(c)
      /\ \A c : Held(c)' <=> Held(c)
  BY <1>2, <1>5, SameClaims
<1>7. Ordered' /\ QuarantinedRows' = {} /\ OnlyConflictsQuarantined'
  <2>1. QuarantinedRows' = {}
    BY <1>2, <1>4 DEF QuarantinedRows
  <2> QED
    BY <1>3, <1>5, <1>6, <2>1, SameOrdered DEF OnlyConflictsQuarantined
<1>8. Held(sending[t].batch)'
  BY <1>1, <1>2, <1>4 DEF Held
<1>9. CASE SetNext(t)
  <2>1. /\ pc[t] = "setnext" /\ pc'[t] = "choose" /\ storedNext' = next[t] /\ wire'[t] = NoMessage
    BY <1>3, <1>9, UnchangedParts DEF SetNext, At, Goto, TabTypes
  <2>2. FreeFrom(storedNext')
    BY <1>3, <2>1 DEF TabOrdered
  <2>3. Stored'
    BY <1>6, <2>2, SetNextStored DEF InOrderSound
  <2> QED
    BY <1>4, <1>5, <1>7, <1>8, <2>1, <2>3 DEF TabOrdered, At, Received
<1>10. CASE Choose(t)
  <2>1. Stored'
    BY <1>6, <1>10, SameStored DEF InOrderSound, Choose, outboxVars
  <2>2. PICK s \in Listed(PendingRequests) :
          IF s # <<>> /\ s[1].batch.id = b.id
          THEN /\ wire' = [wire EXCEPT ![t] = [kind |-> "request", request |-> sending[t]]]
               /\ Goto(t, "sent")
          ELSE /\ Goto(t, "project")
               /\ UNCHANGED wire
    BY <1>1, <1>10 DEF Choose
  <2>3. CASE s # <<>> /\ s[1].batch.id = b.id
    <3>1. Listing(s) /\ s \in Seq(Requests) /\ \A i \in 1..Len(s) : s[i].batch \in Claimed
      BY <1>3, <1>4, ListedIsListing, ListedFacts
    <3>2. Head(s) = s[1] /\ s[1].batch \in Claimed
      BY <2>3, <3>1, HeadTailProperties, LenProperties, EmptySeq
    <3>3. Oldest(b)
      <4>1. b \in Claimed
        BY <1>1, <1>3, <1>4 DEF TabSound
      <4>2. s[1].batch = b
        BY <1>3, <2>3, <3>2, <4>1 DEF Sound, ClaimSound
      <4> QED
        BY <2>3, <3>1, <3>2, <4>2, ListingHead
    <3>4. Oldest(sending[t].batch)'
      BY <1>1, <1>2, <1>6, <3>3 DEF Oldest
    <3>5. pc'[t] = "sent" /\ wire'[t].kind = "request"
      BY <1>3, <2>2, <2>3 DEF Goto, TabTypes
    <3> QED
      BY <1>4, <1>5, <1>7, <1>8, <2>1, <3>4, <3>5 DEF TabOrdered, At, Received
  <2>4. CASE ~ (s # <<>> /\ s[1].batch.id = b.id)
    <3>1. pc'[t] = "project" /\ wire'[t] = NoMessage
      BY <1>3, <1>10, <2>2, <2>4, UnchangedParts DEF Choose, At, Goto, TabTypes
    <3> QED
      BY <1>4, <1>5, <1>7, <2>1, <3>1, NothingExpected
  <2> QED
    BY <2>3, <2>4
<1> QED
  BY <1>9, <1>10

-----------------------------------------------------------------------------
\* What the companion commits is the next batch in sequence, or of another client.
LEMMA CommitInOrder ==
  ASSUME InOrderSound, NEW b \in KnownBatches, NEW cp, Archive!Commit(b, cp),
         b \in Claimed \/ b \in HistoryBatches, UNCHANGED <<outbox, storedNext>>
  PROVE  /\ Ordered' /\ Stored' /\ OnlyConflictsQuarantined'
         /\ Claimed' = Claimed /\ admitted' = admitted
         /\ \A c \in KnownBatches :
              Archive!TombstoneConflict(c) => Archive!TombstoneConflict(c)'
<1>1. Sound /\ ArchiveSound /\ SharedTypes /\ Ordered /\ Stored
  BY DEF InOrderSound, Sound
<1>2. /\ lastSeq' = [lastSeq EXCEPT ![b.client] = Archive!To(b)]
      /\ b.from = lastSeq[b.client] + 1 /\ ~ Archive!Known(b) /\ admitted' = admitted
  BY DEF Archive!Commit, Archive!NextInSequence
<1>3. /\ Claimed' = Claimed
      /\ \A c : Committed(c)' <=> Committed(c) \/ c = b
      /\ \A c : Held(c)' <=> Held(c)
  BY <1>1, CommitClaims
<1>4. lastSeq \in [ArchiveClients -> Nat] /\ Stream \in ArchiveClients
  BY <1>1 DEF ArchiveSound, ArchiveClients
<1>5. Ordered'
  <2>1. CASE b \in Claimed
    <3>1. b.client = Stream /\ ~ Committed(b)
      BY <1>1, <1>2, <2>1, ClaimedAreStream, StreamBatchFacts DEF Committed, Archive!Known
    <3>2. b.from = lastSeq[Stream] + 1 /\ lastSeq'[Stream] = Archive!To(b)
      BY <1>2, <1>4, <3>1
    <3> QED
      BY <1>1, <1>3, <2>1, <3>1, <3>2, CommitOrdered
  <2>2. CASE b \in HistoryBatches
    <3>1. b.client # Stream
      BY <2>2, HistoryBatchFacts
    <3>2. lastSeq'[Stream] = lastSeq[Stream]
      BY <1>2, <1>4, <3>1
    <3>3. \A c \in Claimed : Committed(c)' <=> Committed(c)
      BY <1>1, <1>3, <3>1, ClaimedAreStream, StreamBatchFacts
    <3> QED
      BY <1>1, <1>3, <3>2, <3>3, SameOrdered
  <2> QED
    BY <2>1, <2>2
<1>6. Stored'
  BY <1>1, <1>3, SameStored
<1>7. ASSUME NEW c \in KnownBatches, Archive!TombstoneConflict(c)
      PROVE  Archive!TombstoneConflict(c)'
  BY <1>1, <1>7, CommitKeepsConflict
<1>8. OnlyConflictsQuarantined'
  <2>1. QuarantinedRows' = QuarantinedRows
    BY DEF QuarantinedRows
  <2>2. ASSUME NEW r \in QuarantinedRows PROVE Archive!TombstoneConflict(r.batch)'
    <3>1. PICK c : c = r.batch
      OBVIOUS
    <3>2. c \in KnownBatches /\ Archive!TombstoneConflict(c)
      BY <1>1, <3>1
      DEF QuarantinedRows, SharedTypes, OutboxRows, KnownBatches, InOrderSound,
          OnlyConflictsQuarantined
    <3> QED
      BY <1>7, <3>1, <3>2
  <2> QED
    BY <2>1, <2>2 DEF OnlyConflictsQuarantined
<1> QED
  BY <1>2, <1>3, <1>5, <1>6, <1>7, <1>8

LEMMA HandleInOrder ==
  ASSUME InOrderSound, NEW q \in Requests, q.batch \in Claimed, Handle(q),
         UNCHANGED <<outbox, storedNext>>
  PROVE  /\ Ordered' /\ Stored' /\ OnlyConflictsQuarantined'
         /\ Claimed' = Claimed /\ admitted' = admitted
         /\ \A c \in KnownBatches :
              Archive!TombstoneConflict(c) => Archive!TombstoneConflict(c)'
<1>1. q.batch \in KnownBatches
  BY DEF Requests, KnownBatches
<1>2. CASE Archive!Commit(q.batch, q.cp)
  BY <1>1, <1>2, CommitInOrder
<1>3. CASE UNCHANGED archiveVars
  BY <1>3, SameParts
<1> QED
  BY <1>2, <1>3 DEF Handle

LEMMA ServeInOrder ==
  ASSUME InOrderSound, NEW t \in Tabs, Serve(t)
  PROVE  Ordered' /\ Stored' /\ OnlyConflictsQuarantined' /\ TabOrdered(t)'
<1>1. PICK q, answer : q = wire[t].request /\ answer = AnswerTo(q)
  OBVIOUS
<1>2. /\ wire[t] # NoMessage /\ Received(t, "request")
      /\ wire' = [wire EXCEPT ![t] = answer] /\ Handle(q)
      /\ UNCHANGED <<pc, next, queue, sending, outbox, storedNext>>
  BY <1>1 DEF Serve, browserVars, outboxVars, Received
<1>3. TabSound(t) /\ TabTypes /\ TabOrdered(t) /\ Sound /\ Ordered
  BY DEF InOrderSound, Sound
<1>4. q = Asked(t) /\ Asked(t)' = Asked(t)
  BY <1>1, <1>2, <1>3 DEF TabSound, Asked, At
<1>5. /\ q \in Requests /\ q.batch \in Claimed /\ pc[t] \in {"replaying", "sent"}
      /\ Held(q.batch) /\ Oldest(q.batch) /\ Stream \in admitted
  BY <1>2, <1>3, <1>4, AskedFacts, AskedOldest
<1>6. /\ Ordered' /\ Stored' /\ OnlyConflictsQuarantined'
      /\ Claimed' = Claimed /\ admitted' = admitted
  BY <1>2, <1>5, HandleInOrder
<1>7. /\ QuarantinedRows' = QuarantinedRows
      /\ \A n : FreeFrom(n)' <=> FreeFrom(n)
      /\ \A b : Oldest(b)' <=> Oldest(b)
      /\ \A s : Listing(s)' <=> Listing(s)
      /\ \A b : Held(b)' <=> Held(b)
  BY <1>2, <1>6, SameSaid
<1>8. wire'[t] = answer
  BY <1>2, <1>3 DEF TabTypes
<1>9. Received(t, "refusal")' => Archive!TombstoneConflict(Asked(t).batch)'
  <2> SUFFICES ASSUME answer.kind = "refusal" PROVE Archive!TombstoneConflict(Asked(t).batch)'
    BY <1>8 DEF Received
  <2>1. Archive!Answer(q.batch, q.cp) \notin {"committed", "duplicate"}
    BY <1>1, <1>2, <1>3, <1>5, AnswerSound
  <2>2. Archive!TombstoneConflict(q.batch)
    BY <1>3, <1>5, <2>1, RefusalConflict
  <2>3. UNCHANGED stateRecords
    BY <1>2, <2>1 DEF Handle, archiveVars
  <2> QED
    BY <1>4, <2>2, <2>3 DEF Archive!TombstoneConflict
<1>10. /\ pc'[t] \in {"list", "replay", "replaying", "setnext"} => FreeFrom(next[t])'
       /\ pc'[t] \in {"replay", "replaying"} /\ queue'[t] # <<>> => Listing(queue[t])'
       /\ pc'[t] \in {"setnext", "choose", "sent"} => Held(sending[t].batch)'
       /\ At(t, "sent")' => Oldest(sending[t].batch)'
  <2>1. PICK n, s, b : n = next[t] /\ s = queue[t] /\ b = sending[t].batch
    OBVIOUS
  <2>2. /\ pc[t] \in {"list", "replay", "replaying", "setnext"} => FreeFrom(n)'
        /\ pc[t] \in {"replay", "replaying"} /\ s # <<>> => Listing(s)'
        /\ pc[t] \in {"setnext", "choose", "sent"} => Held(b)'
        /\ pc[t] = "sent" => Oldest(b)'
    BY <1>3, <1>7, <2>1 DEF TabOrdered, At
  <2> QED
    BY <1>2, <2>1, <2>2 DEF At, FreeFrom, Oldest, Listing, Held
<1> QED
  BY <1>2, <1>3, <1>5, <1>6, <1>7, <1>9, <1>10 DEF TabOrdered, At

\* A late request, an earlier client, the pairing: no tab takes part.
LEMMA ServeLateInOrder ==
  ASSUME InOrderSound, NEW q \in late, ServeLate(q)
  PROVE  InOrderSound'
<1>1. q \in Requests /\ q.batch \in Claimed
  BY DEF InOrderSound, Sound, SharedTypes, ClaimSound
<1>2. Handle(q) /\ UNCHANGED <<pc, next, queue, sending, wire, outbox, storedNext>>
  BY DEF ServeLate, browserVars, outboxVars
<1>3. /\ Ordered' /\ Stored' /\ OnlyConflictsQuarantined'
      /\ Claimed' = Claimed /\ admitted' = admitted
      /\ \A c \in KnownBatches :
           Archive!TombstoneConflict(c) => Archive!TombstoneConflict(c)'
  BY <1>1, <1>2, HandleInOrder
<1>4. \A t \in Tabs : TabOrdered(t)'
  BY <1>2, <1>3, TabOrderedKept
<1> QED
  BY <1>3, <1>4, ServeLateSound DEF InOrderSound

LEMMA AdmitInOrder ==
  ASSUME InOrderSound, NEW c, Archive!AdmitClient(c),
         UNCHANGED <<browserVars, wire, outboxVars, late, outcome, crashes>>
  PROVE  InOrderSound'
<1>1. /\ UNCHANGED <<receipts, lastSeq, stateRecords, outbox, storedNext>>
      /\ UNCHANGED <<pc, next, queue, sending, wire>> /\ admitted \subseteq admitted'
  BY DEF Archive!AdmitClient, outboxVars, browserVars
<1>2. /\ Claimed' = Claimed
      /\ \A b : Committed(b)' <=> Committed(b)
      /\ \A b : Held(b)' <=> Held(b)
  BY <1>1, SameClaims
<1>3. Ordered' /\ Stored'
  BY <1>1, <1>2, SameOrdered, SameStored DEF InOrderSound
<1>4. \A b : Archive!TombstoneConflict(b)' <=> Archive!TombstoneConflict(b)
  BY <1>1 DEF Archive!TombstoneConflict
<1>5. OnlyConflictsQuarantined'
  BY <1>1, <1>4 DEF InOrderSound, OnlyConflictsQuarantined, QuarantinedRows
<1>6. \A t \in Tabs : TabOrdered(t)'
  BY <1>1, <1>2, <1>4, TabOrderedKept
<1> QED
  BY <1>3, <1>5, <1>6, AdmitSound DEF InOrderSound

LEMMA EarlierInOrder ==
  ASSUME InOrderSound, Earlier
  PROVE  InOrderSound'
<1>1. PICK b : b = History[Len(head.chain) + 1]
  OBVIOUS
<1>2. /\ Len(head.chain) < Len(History)
      /\ Archive!AdmitClient(b.client) \/ Archive!Commit(b, Unknown)
      /\ UNCHANGED <<browserVars, wire, outboxVars, late, outcome, crashes>>
  BY <1>1 DEF Earlier
<1>3. b \in HistoryBatches
  <2>1. Len(head.chain) \in Nat /\ Len(History) \in Nat /\ DOMAIN History = 1..Len(History)
    BY HistoryAssumption, LenProperties DEF InOrderSound, Sound, ArchiveSound
  <2> QED
    BY <1>1, <1>2, <2>1 DEF HistoryBatches
<1>4. CASE Archive!AdmitClient(b.client)
  BY <1>2, <1>4, AdmitInOrder
<1>5. CASE Archive!Commit(b, Unknown)
  <2>1. UNCHANGED <<pc, next, queue, sending, wire, outbox, storedNext>>
    BY <1>2 DEF browserVars, outboxVars
  <2>2. /\ Ordered' /\ Stored' /\ OnlyConflictsQuarantined'
        /\ Claimed' = Claimed /\ admitted' = admitted
        /\ \A c \in KnownBatches :
             Archive!TombstoneConflict(c) => Archive!TombstoneConflict(c)'
    BY <1>3, <1>5, <2>1, CommitInOrder DEF KnownBatches
  <2>3. \A t \in Tabs : TabOrdered(t)'
    BY <2>1, <2>2, TabOrderedKept
  <2> QED
    BY <2>2, <2>3, EarlierSound DEF InOrderSound
<1> QED
  BY <1>2, <1>4, <1>5

LEMMA RouteInOrder ==
  ASSUME InOrderSound, NEW t \in Tabs, NEW o \in Ops \union {NoOp}, Route(t, o)
  PROVE  Ordered' /\ Stored' /\ OnlyConflictsQuarantined' /\ TabOrdered(t)'
<1>1. /\ pc[t] = "idle" /\ Stream \in admitted
      /\ UNCHANGED <<wire, outbox, storedNext, archiveVars>>
  BY DEF Route, At
<1>2. /\ Ordered' /\ Stored' /\ OnlyConflictsQuarantined'
      /\ admitted' = admitted
  BY <1>1, SameParts
<1>3. pc'[t] \in {"idle", "hello"} /\ wire'[t] = NoMessage
  BY <1>1, UnchangedParts DEF Route, Goto, InOrderSound, Sound, TabTypes
<1> QED
  BY <1>1, <1>2, <1>3, NothingExpected

-----------------------------------------------------------------------------
LEMMA InitInOrder == Init => InOrderSound
<1> SUFFICES ASSUME Init PROVE InOrderSound
  OBVIOUS
<1>1. outbox = {} /\ receipts = {} /\ storedNext = 1 /\ lastSeq[Stream] = 0
  BY DEF Init, Archive!Init
<1>2. Claimed = {} /\ QuarantinedRows = {}
  BY <1>1 DEF Claimed, QuarantinedRows
<1>3. Ordered /\ Stored /\ OnlyConflictsQuarantined
  BY <1>1, <1>2 DEF Ordered, Stored, OnlyConflictsQuarantined, SequencesAssignedOnce
<1>4. ASSUME NEW t \in Tabs PROVE TabOrdered(t)
  BY DEF Init, TabOrdered, At, Received
<1> QED
  BY <1>3, <1>4, InitSound DEF InOrderSound

LEMMA NextInOrder == OneTab /\ InOrderSound /\ [Next]_vars => InOrderSound'
<1> SUFFICES ASSUME OneTab, InOrderSound, [Next]_vars PROVE InOrderSound'
  OBVIOUS
<1>1. Sound'
  BY NextSound DEF InOrderSound
<1>2. ASSUME NEW t \in Tabs, Ordered', Stored', OnlyConflictsQuarantined', TabOrdered(t)'
      PROVE  InOrderSound'
  BY <1>1, <1>2 DEF OneTab, InOrderSound
<1>3. ASSUME NEW t \in Tabs, NEW o \in Ops \union {NoOp}, Route(t, o) PROVE InOrderSound'
  BY <1>2, <1>3, RouteInOrder
<1>4. ASSUME NEW t \in Tabs, Step(t) \/ Serve(t) \/ Crash(t) PROVE InOrderSound'
  <2>1. Ordered' /\ Stored' /\ OnlyConflictsQuarantined' /\ TabOrdered(t)'
    BY <1>4, SettlingInOrder, ReadingInOrder, ListingInOrder, AcknowledgedInOrder,
       RefusedInOrder, BuildInOrder, AddInOrder, SetNextChooseInOrder, ServeInOrder DEF Step
  <2> QED
    BY <1>2, <2>1
<1>5. CASE Earlier \/ Pair
  BY <1>5, EarlierInOrder, AdmitInOrder DEF Pair
<1>6. ASSUME NEW q \in late, ServeLate(q) PROVE InOrderSound'
  BY <1>6, ServeLateInOrder
<1>7. CASE UNCHANGED vars
  <2>1. UNCHANGED <<outbox, storedNext, archiveVars, pc, next, queue, sending, wire>>
    BY <1>7 DEF vars, browserVars, outboxVars
  <2>2. /\ Ordered' /\ Stored' /\ OnlyConflictsQuarantined'
        /\ Claimed' = Claimed /\ admitted' = admitted
        /\ \A b : Archive!TombstoneConflict(b)' <=> Archive!TombstoneConflict(b)
    BY <2>1, SameParts
  <2>3. \A t \in Tabs : TabOrdered(t)'
    BY <2>1, <2>2, TabOrderedKept
  <2> QED
    BY <1>1, <2>2, <2>3 DEF InOrderSound
<1> QED
  BY <1>3, <1>4, <1>5, <1>6, <1>7 DEF Next

\* With one tab the invariant of all three layers is inductive.
THEOREM InOrderSoundness == OneTab => (Spec => []InOrderSound)
<1>1. CASE OneTab
  <2>1. InOrderSound /\ [Next]_vars => InOrderSound'
    BY <1>1, NextInOrder
  <2> QED
    BY <2>1, InitInOrder, PTL DEF Spec
<1> QED
  BY <1>1

\* However a tab, the companion, lost and late requests, crashes and failing storage
\* interleave, no client sequence of the one tab's stream is assigned to two batches.
THEOREM SequencesOnce == OneTab => (Spec => []SequencesAssignedOnce)
<1>1. InOrderSound => SequencesAssignedOnce
  BY DEF InOrderSound, Ordered
<1> QED
  BY <1>1, InOrderSoundness, PTL

\* The rows that one tab's outbox holds continue the archive's stream without a gap.
THEOREM OutboxInOrder == OneTab => (Spec => []OutboxContinuesStream)
<1>1. InOrderSound => OutboxContinuesStream
  <2> SUFFICES ASSUME InOrderSound PROVE OutboxContinuesStream
    OBVIOUS
  <2>1. Sound /\ Ordered /\ \A c \in Claimed : Held(c) \/ Committed(c)
    BY ClaimedRanges DEF InOrderSound
  <2>2. ASSUME NEW b \in {r.batch : r \in outbox}, ~ Committed(b)
        PROVE  \/ b.from = lastSeq[Stream] + 1
               \/ \E c \in {r.batch : r \in outbox} : ~ Committed(c) /\ Archive!To(c) + 1 = b.from
    <3>1. b \in Claimed
      BY <2>1, <2>2, ClaimedIff DEF Sound, SharedTypes, Held
    <3> QED
      BY <2>1, <2>2, <3>1 DEF Ordered, Held
  <2> QED
    BY <2>2 DEF OutboxContinuesStream
<1> QED
  BY <1>1, InOrderSoundness, PTL

\* What one tab's outbox quarantines writes a record that a restore has taken back.
THEOREM ConflictsOnly == OneTab => (Spec => []OnlyConflictsQuarantined)
<1>1. InOrderSound => OnlyConflictsQuarantined
  BY DEF InOrderSound
<1> QED
  BY <1>1, InOrderSoundness, PTL

-----------------------------------------------------------------------------
\* Batches in the order of their client sequences.
Enumerates(s, B) ==
  /\ s \in [1..Cardinality(B) -> B]
  /\ \A i, j \in 1..Cardinality(B) : i < j => s[i].from < s[j].from

LEMMA EnumeratesAll ==
  ASSUME NEW B, IsFiniteSet(B), B \subseteq StreamBatches, NEW s, Enumerates(s, B)
  PROVE  /\ Cardinality(B) \in Nat
         /\ \A b \in B : \E i \in 1..Cardinality(B) : s[i] = b
<1> DEFINE n == Cardinality(B)
<1>1. n \in Nat
  BY FS_CardinalityType
<1>2. s \in Injection(1..n, B)
  <2>1. ASSUME NEW i \in 1..n, NEW j \in 1..n, i # j PROVE s[i] # s[j]
    <3>1. s[i] \in B /\ s[j] \in B /\ s[i].from \in Nat /\ s[j].from \in Nat
      BY StreamBatchFacts DEF Enumerates
    <3>2. s[i].from < s[j].from \/ s[j].from < s[i].from
      BY <1>1, <2>1 DEF Enumerates
    <3> QED
      BY <3>1, <3>2
  <2> QED
    BY <2>1 DEF Enumerates, Injection, IsInjective
<1>3. Cardinality(1..n) = n
  BY <1>1, FS_Interval
<1>4. s \in Surjection(1..n, B)
  <2> HIDE DEF n
  <2>1. n = Cardinality(B)
    BY DEF n
  <2> QED
    BY <1>2, <1>3, <2>1, FS_Injection
<1> QED
  BY <1>1, <1>4 DEF Surjection

\* There is one such order.
LEMMA EnumeratesOnce ==
  ASSUME NEW B, IsFiniteSet(B), B \subseteq StreamBatches,
         NEW s, Enumerates(s, B), NEW u, Enumerates(u, B)
  PROVE  s = u
<1>1. PICK n : n = Cardinality(B)
  OBVIOUS
<1>2. /\ n \in Nat /\ s \in [1..n -> B] /\ u \in [1..n -> B]
      /\ \A b \in B : b.from \in Nat
      /\ \A i, j \in 1..n : i < j => s[i].from < s[j].from /\ u[i].from < u[j].from
      /\ \A b \in B : (\E i \in 1..n : s[i] = b) /\ (\E i \in 1..n : u[i] = b)
  <2>1. /\ n \in Nat
        /\ \A b \in B : (\E i \in 1..n : s[i] = b) /\ (\E i \in 1..n : u[i] = b)
    BY <1>1, EnumeratesAll
  <2> QED
    BY <1>1, <2>1, StreamBatchFacts DEF Enumerates
<1> DEFINE Differ == {i \in 1..n : s[i] # u[i]}
<1>3. SUFFICES ASSUME Differ # {} PROVE FALSE
  <2>1. Differ = {} => \A i \in 1..n : s[i] = u[i]
    OBVIOUS
  <2>2. (\A i \in 1..n : s[i] = u[i]) => s = u
    <3>1. s = [i \in 1..n |-> s[i]] /\ u = [i \in 1..n |-> u[i]]
      BY <1>2
    <3> QED
      BY <3>1, Zenon
  <2> HIDE DEF Differ
  <2> QED
    BY <2>1, <2>2
<1>4. PICK i \in Differ : \A j \in Differ : ~ (j < i)
  <2> DEFINE R == {p \in Nat \X Nat : p[1] < p[2]}
  <2>1. IsWellFoundedOn(R, Nat)
    BY NatLessThanWellFounded DEF OpToRel
  <2>2. Differ \subseteq Nat
    BY <1>2
  <2>3. PICK i \in Differ : \A j \in Differ : ~ (<<j, i>> \in R)
    BY <1>3, <2>1, <2>2, WFMin
  <2> QED
    BY <2>2, <2>3
<1>5. i \in 1..n /\ s[i] # u[i] /\ \A j \in 1..n : j < i => s[j] = u[j]
  BY <1>4
<1> HIDE DEF Differ
<1>6. PICK k \in 1..n : u[k] = s[i]
  BY <1>2, <1>5
<1>7. PICK m \in 1..n : s[m] = u[i]
  BY <1>2, <1>5
<1>8. i < k
  <2>1. s[i] \in B /\ s[i].from \in Nat /\ k # i
    BY <1>2, <1>5, <1>6
  <2>2. ~ k < i
    <3> SUFFICES ASSUME k < i PROVE FALSE
      OBVIOUS
    <3>1. s[k].from < s[i].from /\ s[k] = s[i]
      BY <1>2, <1>5, <1>6
    <3> QED
      BY <2>1, <3>1
  <2> QED
    BY <1>2, <1>5, <2>1, <2>2
<1>9. i < m
  <2>1. u[i] \in B /\ u[i].from \in Nat /\ m # i
    BY <1>2, <1>5, <1>7
  <2>2. ~ m < i
    <3> SUFFICES ASSUME m < i PROVE FALSE
      OBVIOUS
    <3>1. u[m].from < u[i].from /\ u[m] = u[i]
      BY <1>2, <1>5, <1>7
    <3> QED
      BY <2>1, <3>1
  <2> QED
    BY <1>2, <1>5, <2>1, <2>2
<1>10. u[i].from < s[i].from /\ s[i].from < u[i].from
  BY <1>2, <1>5, <1>6, <1>7, <1>8, <1>9
<1>11. s[i] \in B /\ u[i] \in B /\ s[i].from \in Nat /\ u[i].from \in Nat
  BY <1>2, <1>5
<1> QED
  BY <1>10, <1>11

LEMMA InOrderIs ==
  ASSUME NEW B, IsFiniteSet(B), B \subseteq StreamBatches, NEW s, Enumerates(s, B)
  PROVE  InOrder(B) = s
<1> DEFINE Sorted(u) == \A i, j \in DOMAIN u : i < j => u[i].from < u[j].from
<1>1. s \in [1..Cardinality(B) -> B] /\ Sorted(s)
  BY DEF Enumerates
<1>2. InOrder(B) \in [1..Cardinality(B) -> B] /\ Sorted(InOrder(B))
  BY <1>1 DEF InOrder
<1>3. Enumerates(InOrder(B), B)
  BY <1>2 DEF Enumerates
<1> QED
  BY <1>3, EnumeratesOnce

LEMMA EnumeratesMore ==
  ASSUME NEW B, IsFiniteSet(B), B \subseteq StreamBatches, NEW s, Enumerates(s, B),
         NEW b \in StreamBatches, b \notin B, \A c \in B : c.from < b.from
  PROVE  /\ Cardinality(B \union {b}) = Cardinality(B) + 1
         /\ Enumerates([i \in 1..(Cardinality(B) + 1) |->
                          IF i = Cardinality(B) + 1 THEN b ELSE s[i]], B \union {b})
<1>1. PICK n : n = Cardinality(B)
  OBVIOUS
<1>2. n \in Nat /\ Cardinality(B \union {b}) = n + 1
  BY <1>1, FS_CardinalityType, FS_AddElement
<1> DEFINE u == [i \in 1..(n + 1) |-> IF i = n + 1 THEN b ELSE s[i]]
<1>3. s \in [1..n -> B] /\ \A i, j \in 1..n : i < j => s[i].from < s[j].from
  BY <1>1 DEF Enumerates
<1>4. u \in [1..(n + 1) -> B \union {b}]
  BY <1>2, <1>3
<1>5. \A i, j \in 1..(n + 1) : i < j => u[i].from < u[j].from
  BY <1>2, <1>3
<1>6. Enumerates(u, B \union {b})
  <2> HIDE DEF u
  <2> QED
    BY <1>2, <1>4, <1>5 DEF Enumerates
<1> QED
  BY <1>1, <1>2, <1>6

LEMMA EnumeratesLess ==
  ASSUME NEW B, IsFiniteSet(B), B \subseteq StreamBatches, NEW s, Enumerates(s, B),
         NEW b \in B, \A c \in B : c = b \/ b.from < c.from
  PROVE  /\ Cardinality(B) \in Nat \ {0} /\ Cardinality(B \ {b}) = Cardinality(B) - 1
         /\ s[1] = b
         /\ Enumerates([i \in 1..(Cardinality(B) - 1) |-> s[i + 1]], B \ {b})
<1>1. PICK n : n = Cardinality(B)
  OBVIOUS
<1>2. n \in Nat /\ Cardinality(B \ {b}) = n - 1 /\ n # 0
  BY <1>1, FS_CardinalityType, FS_RemoveElement, FS_EmptySet
<1> DEFINE u == [i \in 1..(n - 1) |-> s[i + 1]]
<1>3. /\ s \in [1..n -> B] /\ \A i, j \in 1..n : i < j => s[i].from < s[j].from
      /\ \E i \in 1..n : s[i] = b
      /\ \A c \in B : c.from \in Nat
  <2>1. \E i \in 1..n : s[i] = b
    BY <1>1, EnumeratesAll
  <2> QED
    BY <1>1, <2>1, StreamBatchFacts DEF Enumerates
<1>4. s[1] = b
  <2>1. PICK i \in 1..n : s[i] = b
    BY <1>3
  <2>2. s[1] \in B /\ (i # 1 => s[1].from < b.from)
    BY <1>2, <1>3, <2>1
  <2>3. b.from \in Nat /\ s[1].from \in Nat
    BY <1>3, <2>2
  <2> QED
    BY <2>1, <2>2, <2>3
<1>5. ASSUME NEW i \in 1..(n - 1) PROVE s[i + 1] \in B \ {b}
  <2>1. 1 < i + 1 /\ i + 1 \in 1..n /\ 1 \in 1..n
    BY <1>2
  <2>2. s[1].from < s[i + 1].from /\ s[i + 1] \in B
    BY <1>3, <2>1
  <2>3. s[1].from \in Nat /\ s[i + 1].from \in Nat
    BY <1>3, <1>4, <2>2
  <2> QED
    BY <1>4, <2>2, <2>3
<1>6. u \in [1..(n - 1) -> B \ {b}]
  BY <1>5
<1>7. \A i, j \in 1..(n - 1) : i < j => u[i].from < u[j].from
  BY <1>2, <1>3
<1>8. Enumerates(u, B \ {b})
  <2> HIDE DEF u
  <2> QED
    BY <1>2, <1>6, <1>7 DEF Enumerates
<1> QED
  BY <1>1, <1>2, <1>4, <1>8
-----------------------------------------------------------------------------
\* The layer of the durable log.  Only operations of this browser are in its archive, and
\* what one of them deletes none of them writes: a deletion has a state key of its own
\* (_state_key).
OwnStream ==
  /\ History = <<>>
  /\ \A o, p \in Ops : \A i \in DOMAIN MutationsOf[o], j \in DOMAIN MutationsOf[p] :
       MutationsOf[o][i].key = MutationsOf[p][j].key =>
         MutationsOf[o][i].kind = MutationsOf[p][j].kind

Uncommitted == {b \in Claimed : ~ Committed(b)}

ChainCommitted ==
  \A i \in 1..Len(head.chain) : Committed(head.chain[i].batch)

Deleted ==
  \A k \in Keys : Archive!Tombstoned(k) =>
    \E b \in StreamBatches : \E i \in 1..Len(b.muts) :
      b.muts[i].key = k /\ b.muts[i].kind = "tombstone"

LogSound ==
  /\ InOrderSound
  /\ ChainCommitted
  /\ Deleted
  /\ \E s : Enumerates(s, Uncommitted)

\* What the log is mapped to is what is claimed and not committed.
LogFacts ==
  /\ Unsent = Uncommitted
  /\ IsFiniteSet(Uncommitted)
  /\ Uncommitted \subseteq StreamBatches

\* What a step does to the log.
Still ==
  /\ Claimed' = Claimed
  /\ \A c : Committed(c)' <=> Committed(c)
  /\ UNCHANGED <<head, stateRecords>>

Accepts(b) ==
  /\ Claimed' = Claimed \union {b}
  /\ ~ Committed(b)
  /\ \A c : Committed(c)' <=> Committed(c)
  /\ UNCHANGED <<head, stateRecords>>
  /\ \A c \in Claimed : c.from < b.from /\ c.id # b.id

Commits(b) ==
  /\ b \in Uncommitted
  /\ Claimed' = Claimed
  /\ \A c : Committed(c)' <=> Committed(c) \/ c = b
  /\ \A c \in Uncommitted : c = b \/ b.from < c.from
  /\ head'.chain = Append(head.chain, [batch |-> b, from |-> Archive!ArchiveFrom(b),
                                       to |-> Archive!ArchiveTo(b)])
  /\ Deleted'

LEMMA KnownAreStream ==
  ASSUME OwnStream
  PROVE  KnownBatches = StreamBatches
  BY DEF OwnStream, KnownBatches, HistoryBatches

LEMMA NoConflict ==
  ASSUME OwnStream, Deleted, NEW b \in StreamBatches
  PROVE  ~ Archive!TombstoneConflict(b)
<1> SUFFICES ASSUME Archive!TombstoneConflict(b) PROVE FALSE
  OBVIOUS
<1>1. PICK i \in 1..Len(b.muts) :
        b.muts[i].kind # "tombstone" /\ Archive!Tombstoned(b.muts[i].key)
  BY DEF Archive!TombstoneConflict, Archive!Tombstoned
<1>2. b.muts[i].key \in Keys
  BY StreamBatchFacts DEF Archive!Mutation
<1>3. PICK c \in StreamBatches : \E j \in 1..Len(c.muts) :
        c.muts[j].key = b.muts[i].key /\ c.muts[j].kind = "tombstone"
  BY <1>1, <1>2 DEF Deleted
<1>4. PICK j \in 1..Len(c.muts) : c.muts[j].key = b.muts[i].key /\ c.muts[j].kind = "tombstone"
  BY <1>3
<1>5. /\ b.id \in Ops /\ b.muts = MutationsOf[b.id] /\ i \in DOMAIN b.muts
      /\ c.id \in Ops /\ c.muts = MutationsOf[c.id] /\ j \in DOMAIN c.muts
  BY StreamBatchFacts
<1>6. b.muts[i].kind = c.muts[j].kind
  BY <1>4, <1>5 DEF OwnStream
<1> QED
  BY <1>1, <1>4, <1>6

LEMMA LogFactsHold ==
  ASSUME OwnStream, LogSound
  PROVE  LogFacts /\ QuarantinedRows = {}
<1>1. Sound /\ SharedTypes /\ ArchiveSound
  BY DEF LogSound, InOrderSound, Sound
<1>2. QuarantinedRows = {}
  <2> SUFFICES ASSUME NEW r \in QuarantinedRows PROVE FALSE
    OBVIOUS
  <2>1. PICK b : b = r.batch
    OBVIOUS
  <2>2. b \in StreamBatches /\ Archive!TombstoneConflict(b)
    BY <1>1, <2>1
    DEF QuarantinedRows, SharedTypes, OutboxRows, LogSound, InOrderSound, OnlyConflictsQuarantined
  <2> QED
    BY <2>2, NoConflict DEF LogSound
<1>3. \A r \in outbox : r.status = "pending"
  BY <1>1, <1>2 DEF QuarantinedRows, SharedTypes, OutboxRows
<1>4. \A b : b \in Uncommitted <=> Held(b) /\ ~ Committed(b)
  BY <1>1, ClaimedIff DEF Uncommitted, SharedTypes
<1>5. \A b : b \in Unsent <=> Held(b) /\ ~ Committed(b)
  BY <1>3 DEF Unsent, PendingRows, Held
<1>6. Uncommitted \subseteq StreamBatches
  BY <1>1, ClaimedAreStream DEF Uncommitted
<1>7. IsFiniteSet(Unsent)
  <2> DEFINE X == {x \in PendingRows : ~ Committed(x.batch)}
             f == [r \in X |-> r.batch]
  <2>1. IsFiniteSet(X)
    BY <1>1, FS_Subset DEF PendingRows, SharedTypes
  <2>2. Unsent = {r.batch : r \in X}
    BY DEF Unsent
  <2> HIDE DEF X
  <2>3. f \in Surjection(X, Unsent)
    BY <2>2 DEF Surjection
  <2> QED
    BY <2>1, <2>3, FS_Surjection
<1> QED
  BY <1>2, <1>4, <1>5, <1>6, <1>7 DEF LogFacts

LEMMA QuietStill ==
  ASSUME UNCHANGED <<outbox, archiveVars>>
  PROVE  Still
<1>1. UNCHANGED <<outbox, receipts, head, stateRecords>>
  BY DEF archiveVars
<1> QED
  BY <1>1, SameClaims DEF Still

\* A step of the tab that neither adds a row nor removes one ...
LEMMA TabStill ==
  ASSUME NEW t \in Tabs,
         \/ \E o \in Ops \union {NoOp} : Route(t, o)
         \/ Hello(t) \/ HelloFails(t) \/ ReadStoredNext(t) \/ ReadPending(t) \/ ListPending(t)
         \/ SendReplay(t) \/ ReplayRetryable(t) \/ NothingToSend(t) \/ Build(t) \/ AddFails(t)
         \/ SetNext(t) \/ SetNextFails(t) \/ Choose(t) \/ SentRetryable(t) \/ RetryNotNoted(t)
         \/ AcknowledgeFails(t) \/ QuarantineFails(t) \/ Stop(t) \/ Project(t)
         \/ ProjectFails(t) \/ OutboxFails(t) \/ Crash(t)
  PROVE  Still
<1>1. CASE \E o \in Ops \union {NoOp} : Route(t, o)
  BY <1>1, QuietStill DEF Route
<1>2. CASE Hello(t) \/ HelloFails(t) \/ ReadStoredNext(t) \/ ReadPending(t) \/ ListPending(t)
  BY <1>2, QuietStill
  DEF Hello, HelloFails, ReadStoredNext, ReadPending, ListPending, outboxVars
<1>3. CASE SendReplay(t) \/ ReplayRetryable(t) \/ NothingToSend(t) \/ Build(t) \/ AddFails(t)
  BY <1>3, QuietStill
  DEF SendReplay, ReplayRetryable, NothingToSend, Build, AddFails, outboxVars
<1>4. CASE SetNext(t) \/ SetNextFails(t) \/ Choose(t) \/ SentRetryable(t) \/ RetryNotNoted(t)
  BY <1>4, QuietStill
  DEF SetNext, SetNextFails, Choose, SentRetryable, RetryNotNoted, outboxVars
<1>5. CASE AcknowledgeFails(t) \/ QuarantineFails(t) \/ Stop(t) \/ Project(t)
  BY <1>5, QuietStill
  DEF AcknowledgeFails, QuarantineFails, Stop, Project, outboxVars
<1>6. CASE ProjectFails(t) \/ OutboxFails(t) \/ Crash(t)
  BY <1>6, QuietStill DEF ProjectFails, OutboxFails, Crash, outboxVars
<1> QED
  BY <1>1, <1>2, <1>3, <1>4, <1>5, <1>6

\* ... nor does an acknowledgement, of a batch that is committed, change the log, ...
LEMMA AcknowledgedStill ==
  ASSUME Sound, NEW t \in Tabs,
         ReplayAcknowledged(t) \/ SentAcknowledged(t) \/ SentUsageFails(t)
  PROVE  Still
<1>1. /\ Received(t, "receipt") /\ Acknowledge(t, Asked(t).batch)
      /\ UNCHANGED <<doing, sending, late, outcome, archiveVars>>
  BY DEF ReplayAcknowledged, SentAcknowledged, SentUsageFails, Asked, At
<1>2. Claimed' = Claimed /\ \A b : Committed(b)' <=> Committed(b)
  BY <1>1, AcknowledgeParts
<1> QED
  BY <1>1, <1>2 DEF Still, archiveVars

\* ... and nothing is refused.
LEMMA NothingRefused ==
  ASSUME OwnStream, LogSound, NEW t \in Tabs, ReplayRefused(t) \/ SentRefused(t)
  PROVE  FALSE
<1>1. Received(t, "refusal") /\ TabOrdered(t) /\ Sound
  BY DEF ReplayRefused, SentRefused, Quarantine, LogSound, InOrderSound
<1>2. Archive!TombstoneConflict(Asked(t).batch)
  BY <1>1 DEF TabOrdered
<1>3. PICK b : b = Asked(t).batch
  OBVIOUS
<1>4. b \in StreamBatches
  BY <1>1, <1>3, AskedFacts DEF ReplayRefused, SentRefused, Received, Quarantine
<1> QED
  BY <1>2, <1>3, <1>4, NoConflict DEF LogSound

\* The row that is added is claimed last.
LEMMA AddAccepts ==
  ASSUME InOrderSound, NEW t \in Tabs, Add(t)
  PROVE  \E b \in StreamBatches : Accepts(b)
<1>1. PICK b, row : /\ b = sending[t].batch
                    /\ row = [batch |-> b, cp |-> sending[t].cp, status |-> "pending"]
  OBVIOUS
<1>2. /\ pc[t] = "add" /\ outbox' = outbox \union {row} /\ UNCHANGED archiveVars
  BY <1>1 DEF Add, At
<1>3. UNCHANGED <<receipts, checkpoints, head, stateRecords>>
  BY <1>2 DEF archiveVars
<1>4. TabOrdered(t) /\ TabSound(t) /\ Sound /\ ArchiveSound /\ SharedTypes
  BY DEF InOrderSound, Sound
<1>5. /\ b \in StreamBatches /\ row \in OutboxRows /\ row.batch = b /\ ~ Committed(b)
      /\ ~ HasClaim(b.id)
  <2>1. sending[t] \in Requests /\ b.id = doing[t] /\ b \in StreamBatches
    BY <1>1, <1>2, <1>4 DEF TabSound, At, Requests
  <2>2. b.id \in Ops /\ b.client = Stream
    BY <2>1, StreamBatchFacts
  <2>3. ~ HasClaim(b.id)
    BY <1>2, <1>4, <2>1, <2>2 DEF TabSound, BeforeAdd
  <2>4. ~ Committed(b)
    BY <2>2, <2>3 DEF Committed, Claimed, HasClaim
  <2> QED
    BY <1>1, <2>1, <2>3, <2>4 DEF Requests, OutboxRows
<1>6. /\ Claimed' = Claimed \union {b}
      /\ \A c : Committed(c)' <=> Committed(c)
  BY <1>2, <1>3, <1>4, <1>5, AddClaims
<1>7. FreeFrom(b.from)
  BY <1>1, <1>2, <1>4 DEF TabOrdered, At
<1>8. \A c \in Claimed : c.from < b.from /\ c.id # b.id
  <2> SUFFICES ASSUME NEW c \in Claimed PROVE c.from < b.from /\ c.id # b.id
    OBVIOUS
  <2>1. c.from \in Nat /\ Archive!To(c) \in Nat /\ c.from <= Archive!To(c) /\ b.from \in Nat
    BY <1>4, <1>5, ClaimedRanges, StreamBatchFacts
  <2>2. Archive!To(c) < b.from
    BY <1>7 DEF FreeFrom
  <2> QED
    BY <1>5, <2>1, <2>2 DEF HasClaim
<1> QED
  BY <1>3, <1>5, <1>6, <1>8 DEF Accepts

\* What the companion commits is claimed first of what is not committed.
LEMMA CommitCommits ==
  ASSUME OwnStream, LogSound, NEW b \in Claimed, NEW cp, Archive!Commit(b, cp), UNCHANGED outbox
  PROVE  Commits(b)
<1>1. Sound /\ Ordered /\ ArchiveSound /\ SharedTypes /\ LogFacts
  BY LogFactsHold DEF LogSound, InOrderSound, Sound
<1>2. b \in StreamBatches /\ b \in KnownBatches /\ b.client = Stream
  BY <1>1, ClaimedAreStream, StreamBatchFacts DEF KnownBatches
<1>3. /\ Claimed' = Claimed
      /\ \A c : Committed(c)' <=> Committed(c) \/ c = b
  BY <1>1, <1>2, CommitClaims
<1>4. b.from = lastSeq[Stream] + 1 /\ b \in Uncommitted
  BY <1>2 DEF Archive!Commit, Archive!NextInSequence, Archive!Known, Committed, Uncommitted
<1>5. ASSUME NEW c \in Uncommitted PROVE c = b \/ b.from < c.from
  <2>1. c \in Claimed /\ ~ Committed(c)
    BY DEF Uncommitted
  <2>2. lastSeq[Stream] < c.from
    BY <1>1, <2>1 DEF Ordered
  <2>3. c = b \/ Archive!To(b) < c.from \/ Archive!To(c) < b.from
    BY <1>1, <2>1 DEF Ordered, SequencesAssignedOnce
  <2>4. /\ lastSeq[Stream] \in Nat /\ c.from \in Nat /\ Archive!To(c) \in Nat
        /\ c.from <= Archive!To(c)
        /\ b.from \in Nat /\ Archive!To(b) \in Nat /\ b.from <= Archive!To(b)
    BY <1>1, <2>1, ClaimedRanges
  <2> QED
    BY <1>4, <2>2, <2>3, <2>4
<1>6. head'.chain = Append(head.chain, [batch |-> b, from |-> Archive!ArchiveFrom(b),
                                        to |-> Archive!ArchiveTo(b)])
  BY DEF Archive!Commit, Archive!HeadAfter, Archive!Chain
<1>7. ASSUME NEW k \in Keys, Archive!Tombstoned(k)'
      PROVE  \E c \in StreamBatches : \E i \in 1..Len(c.muts) :
               c.muts[i].key = k /\ c.muts[i].kind = "tombstone"
  <2>1. stateRecords' =
          [l \in Keys |->
             IF Archive!Touches(b, l)
             THEN [kind |-> b.muts[Archive!LastOn(b, l)].kind,
                   seq |-> head.seq + Archive!LastOn(b, l)]
             ELSE stateRecords[l]]
    BY DEF Archive!Commit
  <2>2. CASE Archive!Touches(b, k)
    <3>1. /\ Archive!LastOn(b, k) \in 1..Len(b.muts)
          /\ b.muts[Archive!LastOn(b, k)].key = k
      BY <1>2, <2>2, LastOnFacts
    <3>2. stateRecords'[k].kind = b.muts[Archive!LastOn(b, k)].kind
      BY <2>1, <2>2
    <3> QED
      BY <1>2, <1>7, <3>1, <3>2 DEF Archive!Tombstoned
  <2>3. CASE ~ Archive!Touches(b, k)
    <3>1. stateRecords'[k] = stateRecords[k]
      BY <2>1, <2>3
    <3>2. Archive!Tombstoned(k)
      BY <1>7, <3>1 DEF Archive!Tombstoned
    <3> QED
      BY <3>2 DEF LogSound, Deleted
  <2> QED
    BY <2>2, <2>3
<1> QED
  BY <1>3, <1>4, <1>5, <1>6, <1>7 DEF Commits, Deleted

LEMMA HandleCommits ==
  ASSUME OwnStream, LogSound, NEW q \in Requests, q.batch \in Claimed, Handle(q),
         UNCHANGED outbox
  PROVE  Still \/ \E b \in StreamBatches : Commits(b)
<1>1. q.batch \in StreamBatches
  BY DEF Requests
<1>2. CASE Archive!Commit(q.batch, q.cp)
  BY <1>1, <1>2, CommitCommits
<1>3. CASE UNCHANGED archiveVars
  BY <1>3, QuietStill
<1> QED
  BY <1>2, <1>3 DEF Handle

LEMMA LogStep ==
  ASSUME OwnStream, LogSound, [Next]_vars
  PROVE  Still \/ \E b \in StreamBatches : Accepts(b) \/ Commits(b)
<1>1. InOrderSound /\ Sound /\ SharedTypes /\ ArchiveSound
  BY DEF LogSound, InOrderSound, Sound
<1>2. ASSUME NEW t \in Tabs, (\E o \in Ops \union {NoOp} : Route(t, o)) \/ Step(t) \/ Crash(t)
      PROVE  Still \/ \E b \in StreamBatches : Accepts(b)
  BY <1>1, <1>2, TabStill, AcknowledgedStill, NothingRefused, AddAccepts DEF Step
<1>3. ASSUME NEW t \in Tabs, Serve(t)
      PROVE  Still \/ \E b \in StreamBatches : Commits(b)
  <2>1. PICK q : q = wire[t].request
    OBVIOUS
  <2>2. Received(t, "request") /\ wire[t] # NoMessage /\ Handle(q) /\ UNCHANGED outbox
    BY <1>3, <2>1 DEF Serve, Received, outboxVars
  <2>3. q = Asked(t)
    BY <1>1, <2>1, <2>2 DEF Sound, TabSound
  <2>4. q \in Requests /\ q.batch \in Claimed
    BY <1>1, <2>2, <2>3, AskedFacts
  <2> QED
    BY <2>2, <2>4, HandleCommits
<1>4. ASSUME NEW q \in late, ServeLate(q)
      PROVE  Still \/ \E b \in StreamBatches : Commits(b)
  <2>1. q \in Requests /\ q.batch \in Claimed
    BY <1>1 DEF Sound, SharedTypes, ClaimSound
  <2>2. Handle(q) /\ UNCHANGED outbox
    BY <1>4 DEF ServeLate, outboxVars
  <2> QED
    BY <2>1, <2>2, HandleCommits
<1>5. CASE Pair
  <2>1. UNCHANGED <<outbox, receipts, head, stateRecords>>
    BY <1>5 DEF Pair, Archive!AdmitClient, outboxVars
  <2> QED
    BY <2>1, SameClaims DEF Still
<1>6. CASE Earlier
  <2>1. Len(head.chain) < 0 /\ Len(head.chain) \in Nat
    BY <1>1, <1>6, EmptySeq, LenProperties DEF Earlier, OwnStream, ArchiveSound
  <2> QED
    BY <2>1
<1>7. CASE UNCHANGED vars
  BY <1>7, QuietStill DEF vars, outboxVars
<1> QED
  BY <1>2, <1>3, <1>4, <1>5, <1>6, <1>7 DEF Next

-----------------------------------------------------------------------------
LEMMA LogSoundInit == OwnStream /\ Init => LogSound
<1> SUFFICES ASSUME OwnStream, Init PROVE LogSound
  OBVIOUS
<1>1. InOrderSound
  BY InitInOrder
<1>2. /\ outbox = {} /\ receipts = {} /\ head.chain = <<>>
      /\ \A k \in Keys : stateRecords[k] = NoRecord
  BY DEF Init, Archive!Init
<1>3. Uncommitted = {}
  BY <1>2 DEF Uncommitted, Claimed
<1>4. ChainCommitted
  BY <1>2, EmptySeq DEF ChainCommitted
<1>5. Deleted
  BY <1>2 DEF Deleted, Archive!Tombstoned
<1>6. Enumerates(<<>>, Uncommitted)
  BY <1>3, FS_EmptySet DEF Enumerates
<1> QED
  BY <1>1, <1>4, <1>5, <1>6 DEF LogSound

LEMMA LogSoundNext ==
  ASSUME OneTab, OwnStream, LogSound, [Next]_vars
  PROVE  LogSound'
<1>1. InOrderSound' /\ LogFacts
  BY NextInOrder, LogFactsHold DEF LogSound
<1>2. PICK s : Enumerates(s, Uncommitted)
  BY DEF LogSound
<1>3. head.chain \in Seq([batch : KnownBatches, from : Nat, to : Nat])
  BY DEF LogSound, InOrderSound, Sound, ArchiveSound
<1>4. CASE Still
  <2>1. Uncommitted' = Uncommitted
    BY <1>4 DEF Still, Uncommitted
  <2>2. ChainCommitted' /\ Deleted'
    BY <1>4 DEF Still, LogSound, ChainCommitted, Deleted, Archive!Tombstoned
  <2>3. Enumerates(s, Uncommitted')
    BY <1>2, <2>1
  <2> QED
    BY <1>1, <2>2, <2>3 DEF LogSound
<1>5. ASSUME NEW b \in StreamBatches, Accepts(b) PROVE LogSound'
  <2>1. Uncommitted' = Uncommitted \union {b}
    BY <1>5 DEF Accepts, Uncommitted
  <2>2. ChainCommitted' /\ Deleted'
    BY <1>5 DEF Accepts, LogSound, ChainCommitted, Deleted, Archive!Tombstoned
  <2>3. b \notin Uncommitted /\ \A c \in Uncommitted : c.from < b.from
    BY <1>5 DEF Accepts, Uncommitted
  <2>4. \E u : Enumerates(u, Uncommitted \union {b})
    BY <1>1, <1>2, <2>3, EnumeratesMore DEF LogFacts
  <2> QED
    BY <1>1, <2>1, <2>2, <2>4 DEF LogSound
<1>6. ASSUME NEW b \in StreamBatches, Commits(b) PROVE LogSound'
  <2>1. Uncommitted' = Uncommitted \ {b} /\ Deleted'
    BY <1>6 DEF Commits, Uncommitted
  <2>2. ChainCommitted'
    <3> DEFINE link == [batch |-> b, from |-> Archive!ArchiveFrom(b), to |-> Archive!ArchiveTo(b)]
    <3>1. link.batch = b
      OBVIOUS
    <3>2. head'.chain = Append(head.chain, link)
      BY <1>6 DEF Commits
    <3>3. Len(head.chain) \in Nat /\ Len(head'.chain) = Len(head.chain) + 1
      BY <1>3, <3>2, LenProperties
    <3> HIDE DEF link
    <3>4. ASSUME NEW i \in 1..Len(head'.chain) PROVE Committed(head.chain[i].batch)'
      <4>1. CASE i \in 1..Len(head.chain)
        <5>1. PICK c : c = head.chain[i].batch
          OBVIOUS
        <5>2. head'.chain[i].batch = c /\ Committed(c)
          BY <1>3, <3>2, <4>1, <5>1 DEF LogSound, ChainCommitted
        <5> QED
          BY <1>6, <5>2 DEF Commits, Committed
      <4>2. CASE i = Len(head.chain) + 1
        <5>1. head'.chain[i].batch = b
          BY <1>3, <3>1, <3>2, <3>3, <4>2
        <5>2. Committed(b)'
          BY <1>6 DEF Commits
        <5> QED
          BY <5>1, <5>2 DEF Committed
      <4> QED
        BY <3>3, <4>1, <4>2
    <3> QED
      BY <3>4 DEF ChainCommitted
  <2>3. \E u : Enumerates(u, Uncommitted \ {b})
    BY <1>1, <1>2, <1>6, EnumeratesLess DEF LogFacts, Commits
  <2> QED
    BY <1>1, <2>1, <2>2, <2>3 DEF LogSound
<1> QED
  BY <1>4, <1>5, <1>6, LogStep

\* The sequences of the mapping.
LEMMA OrderIds ==
  ASSUME NEW B, IsFiniteSet(B), B \subseteq StreamBatches, NEW s, Enumerates(s, B)
  PROVE  /\ IdsInOrder(B) \in Seq(Ops) /\ Len(IdsInOrder(B)) = Cardinality(B)
         /\ \A j \in 1..Cardinality(B) : IdsInOrder(B)[j] = s[j].id
<1>1. InOrder(B) = s /\ Cardinality(B) \in Nat
  BY InOrderIs, FS_CardinalityType
<1>2. \A j \in 1..Cardinality(B) : IdsInOrder(B)[j] = s[j].id /\ s[j] \in B
  BY <1>1 DEF Enumerates, IdsInOrder
<1>3. IdsInOrder(B) \in [1..Cardinality(B) -> Ops]
  BY <1>2, StreamBatchFacts DEF IdsInOrder
<1>4. IdsInOrder(B) \in Seq(Ops)
  BY <1>1, <1>3, SeqDef
<1>5. Len(IdsInOrder(B)) = Cardinality(B)
  BY <1>1, <1>3, <1>4, LenProperties
<1> QED
  BY <1>2, <1>4, <1>5

LEMMA DurableIds ==
  ASSUME OwnStream, LogSound
  PROVE  /\ Len(head.chain) \in Nat
         /\ Durable \in Seq(Ops) /\ Len(Durable) = Len(head.chain)
         /\ \A i \in 1..Len(head.chain) :
              /\ Durable[i] = head.chain[i].batch.id
              /\ head.chain[i].batch \in Claimed /\ Committed(head.chain[i].batch)
<1>1. /\ head.chain \in Seq([batch : StreamBatches, from : Nat, to : Nat])
      /\ Len(head.chain) \in Nat /\ SharedTypes
  BY KnownAreStream, LenProperties DEF LogSound, InOrderSound, Sound, ArchiveSound
<1>2. ASSUME NEW i \in 1..Len(head.chain)
      PROVE  /\ head.chain[i].batch.id \in Ops
             /\ head.chain[i].batch \in Claimed /\ Committed(head.chain[i].batch)
  <2>1. PICK b : b = head.chain[i].batch
    OBVIOUS
  <2>2. b \in StreamBatches
    <3>1. head.chain[i] \in [batch : StreamBatches, from : Nat, to : Nat]
      BY <1>1, ElementOfSeq
    <3> QED
      BY <2>1, <3>1
  <2>3. Committed(b)
    BY <2>1 DEF LogSound, ChainCommitted
  <2>4. b.id \in Ops /\ b \in Claimed
    BY <1>1, <2>2, <2>3, StreamBatchFacts, ClaimedIff DEF SharedTypes
  <2> QED
    BY <2>1, <2>3, <2>4
<1>3. Durable \in [1..Len(head.chain) -> Ops]
  BY <1>2 DEF Durable
<1>4. Durable \in Seq(Ops) /\ Len(Durable) = Len(head.chain)
  <2>1. PICK n, d : n = Len(head.chain) /\ d = Durable
    OBVIOUS
  <2>2. n \in Nat /\ d \in [1..n -> Ops]
    BY <1>1, <1>3, <2>1
  <2>3. d \in Seq(Ops)
    BY <2>2, SeqDef
  <2> QED
    BY <2>1, <2>2, <2>3, LenProperties
<1>5. Len(Durable) = Len(head.chain)
  BY <1>4
<1>6. \A i \in 1..Len(head.chain) : Durable[i] = head.chain[i].batch.id
  BY DEF Durable
<1> QED
  BY <1>1, <1>2, <1>4, <1>5, <1>6

LEMMA StillLog ==
  ASSUME LogFacts, LogFacts', Still
  PROVE  UNCHANGED Log!vars
<1>1. Unsent' = Unsent /\ head' = head
  BY DEF LogFacts, Still, Uncommitted
<1>2. Durable' = Durable
  BY <1>1 DEF Durable
<1>3. Waiting' = Waiting
  BY <1>1 DEF Waiting, IdsInOrder
<1> QED
  BY <1>1, <1>2, <1>3 DEF Log!vars

\* What a step adds to the waiting ones, or takes from them, ...
LEMMA WaitingGrows ==
  ASSUME LogSound, LogFacts, LogFacts', NEW b \in StreamBatches, Accepts(b)
  PROVE  /\ Waiting \in Seq(Ops)
         /\ \A i \in 1..Len(Waiting) : \E c \in Claimed : Waiting[i] = c.id
         /\ Waiting' = Append(Waiting, b.id)
<1>1. PICK B, s : B = Uncommitted /\ Enumerates(s, B)
  BY DEF LogSound
<1>2. /\ IsFiniteSet(B) /\ B \subseteq StreamBatches /\ B \subseteq Claimed /\ Unsent = B
      /\ Unsent' = B \union {b}
  BY <1>1 DEF LogFacts, Uncommitted, Accepts
<1>3. b \notin B /\ \A c \in B : c.from < b.from
  BY <1>1 DEF Accepts, Uncommitted
<1>4. PICK n : n = Cardinality(B)
  OBVIOUS
<1>5. n \in Nat
  BY <1>2, <1>4, FS_CardinalityType
<1>6. PICK u : u = [i \in 1..(n + 1) |-> IF i = n + 1 THEN b ELSE s[i]]
  OBVIOUS
<1>7. /\ Cardinality(B \union {b}) = n + 1 /\ Enumerates(u, B \union {b})
      /\ IsFiniteSet(B \union {b}) /\ B \union {b} \subseteq StreamBatches
  <2>1. IsFiniteSet(B \union {b}) /\ B \union {b} \subseteq StreamBatches
    BY <1>2, FS_AddElement
  <2>2. /\ Cardinality(B \union {b}) = Cardinality(B) + 1
        /\ Enumerates([i \in 1..(Cardinality(B) + 1) |->
                         IF i = Cardinality(B) + 1 THEN b ELSE s[i]], B \union {b})
    BY <1>1, <1>2, <1>3, EnumeratesMore
  <2> QED
    BY <1>4, <1>6, <2>1, <2>2
<1>8. PICK w, v : /\ w = IdsInOrder(B)
                  /\ v = IdsInOrder(B \union {b})
  OBVIOUS
<1>9. w \in Seq(Ops) /\ Len(w) = n /\ \A i \in 1..n : w[i] = s[i].id
  BY <1>1, <1>2, <1>4, <1>8, OrderIds
<1>10. v \in Seq(Ops) /\ Len(v) = n + 1 /\ \A i \in 1..(n + 1) : v[i] = u[i].id
  <2>1. PICK D : D = B \union {b}
    OBVIOUS
  <2>2. /\ IsFiniteSet(D) /\ D \subseteq StreamBatches /\ Enumerates(u, D)
        /\ Cardinality(D) = n + 1 /\ v = IdsInOrder(D)
    BY <1>7, <1>8, <2>1
  <2> QED
    BY <2>2, OrderIds
<1>11. v = Append(w, b.id)
  <2>1. b.id \in Ops
    BY StreamBatchFacts
  <2>2. /\ Append(w, b.id) \in Seq(Ops) /\ Len(Append(w, b.id)) = n + 1
        /\ \A i \in 1..n : Append(w, b.id)[i] = w[i]
        /\ Append(w, b.id)[n + 1] = b.id
    BY <1>9, <2>1, AppendProperties
  <2>3. \A i \in 1..(n + 1) : v[i] = Append(w, b.id)[i]
    BY <1>5, <1>6, <1>9, <1>10, <2>2
  <2> QED
    BY <1>10, <2>2, <2>3, SeqEqual
<1>12. Waiting = w /\ Waiting' = v
  BY <1>2, <1>8 DEF Waiting, IdsInOrder
<1>13. ASSUME NEW i \in 1..n PROVE \E c \in Claimed : w[i] = c.id
  <2>1. s[i] \in B
    BY <1>1, <1>4 DEF Enumerates
  <2> QED
    BY <1>2, <1>9, <2>1
<1> QED
  BY <1>9, <1>11, <1>12, <1>13

LEMMA WaitingShrinks ==
  ASSUME LogSound, LogFacts, LogFacts', NEW b \in StreamBatches, Commits(b)
  PROVE  Waiting' \in Seq(Ops) /\ Waiting \in Seq(Ops) /\ Waiting = <<b.id>> \o Waiting'
<1>1. PICK B, s : B = Uncommitted /\ Enumerates(s, B)
  BY DEF LogSound
<1>2. /\ IsFiniteSet(B) /\ B \subseteq StreamBatches /\ Unsent = B
      /\ Unsent' = B \ {b}
  BY <1>1 DEF LogFacts, Uncommitted, Commits
<1>3. b \in B /\ \A c \in B : c = b \/ b.from < c.from
  BY <1>1 DEF Commits
<1>4. PICK n : n = Cardinality(B)
  OBVIOUS
<1>5. n \in Nat \ {0} /\ s[1] = b
  BY <1>1, <1>2, <1>3, <1>4, EnumeratesLess
<1>6. PICK u : u = [i \in 1..(n - 1) |-> s[i + 1]]
  OBVIOUS
<1>7. /\ Cardinality(B \ {b}) = n - 1 /\ Enumerates(u, B \ {b})
      /\ IsFiniteSet(B \ {b}) /\ B \ {b} \subseteq StreamBatches
  BY <1>1, <1>2, <1>3, <1>4, <1>6, EnumeratesLess, FS_RemoveElement
<1>8. PICK w, v : /\ w = IdsInOrder(B)
                  /\ v = IdsInOrder(B \ {b})
  OBVIOUS
<1>9. w \in Seq(Ops) /\ Len(w) = n /\ \A i \in 1..n : w[i] = s[i].id
  BY <1>1, <1>2, <1>4, <1>8, OrderIds
<1>10. v \in Seq(Ops) /\ Len(v) = n - 1 /\ \A i \in 1..(n - 1) : v[i] = u[i].id
  <2>1. PICK D : D = B \ {b}
    OBVIOUS
  <2>2. /\ IsFiniteSet(D) /\ D \subseteq StreamBatches /\ Enumerates(u, D)
        /\ Cardinality(D) = n - 1 /\ v = IdsInOrder(D)
    BY <1>7, <1>8, <2>1
  <2> QED
    BY <2>2, OrderIds
<1>11. w = <<b.id>> \o v
  <2>1. <<b.id>> \in Seq(Ops) /\ Len(<<b.id>>) = 1 /\ <<b.id>>[1] = b.id
    BY StreamBatchFacts
  <2>2. /\ <<b.id>> \o v \in Seq(Ops) /\ Len(<<b.id>> \o v) = 1 + (n - 1)
        /\ \A i \in 1..(1 + (n - 1)) :
             (<<b.id>> \o v)[i] = IF i <= 1 THEN <<b.id>>[i] ELSE v[i - 1]
    BY <1>10, <2>1, ConcatProperties
  <2>3. ASSUME NEW i \in 1..n PROVE w[i] = (<<b.id>> \o v)[i]
    <3>1. CASE i = 1
      BY <1>5, <1>9, <2>1, <2>2, <3>1
    <3>2. CASE i # 1
      <4>1. /\ i - 1 \in 1..(n - 1) /\ ~ i <= 1 /\ i \in 1..(1 + (n - 1))
            /\ (i - 1) + 1 = i
        BY <1>5, <3>2
      <4>2. v[i - 1] = s[i].id
        BY <1>6, <1>10, <4>1
      <4>3. (<<b.id>> \o v)[i] = v[i - 1]
        BY <2>2, <4>1
      <4> QED
        BY <1>9, <4>2, <4>3
    <3> QED
      BY <3>1, <3>2
  <2>4. 1 + (n - 1) = n
    BY <1>5
  <2> QED
    BY <1>9, <2>2, <2>3, <2>4, SeqEqual
<1>12. Waiting = w /\ Waiting' = v
  BY <1>2, <1>8 DEF Waiting, IdsInOrder
<1> QED
  BY <1>9, <1>10, <1>11, <1>12

\* ... the log accepts, ...
LEMMA AcceptsLog ==
  ASSUME OwnStream, LogSound, LogFacts, LogFacts', NEW b \in StreamBatches, Accepts(b)
  PROVE  Log!Accept(b.id)
<1>1. PICK d, w : d = Durable /\ w = Waiting
  OBVIOUS
<1>2. /\ d \in Seq(Ops) /\ w \in Seq(Ops) /\ b.id \in Ops
      /\ \A i \in 1..Len(d) : \E c \in Claimed : d[i] = c.id
      /\ \A i \in 1..Len(w) : \E c \in Claimed : w[i] = c.id
      /\ Waiting' = Append(w, b.id)
  BY <1>1, DurableIds, WaitingGrows, StreamBatchFacts
<1>3. Durable' = d /\ Len(head.chain)' = Len(head.chain)
  BY <1>1 DEF Durable, Accepts
<1>4. d \o Append(w, b.id) = Append(d \o w, b.id)
  <2>1. /\ Append(w, b.id) = w \o <<b.id>> /\ <<b.id>> \in Seq(Ops)
        /\ d \o w \in Seq(Ops)
    BY <1>2, AppendIsConcat, ConcatProperties
  <2>2. Append(d \o w, b.id) = (d \o w) \o <<b.id>>
    BY <1>2, <2>1, AppendIsConcat
  <2>3. (d \o w) \o <<b.id>> = d \o (w \o <<b.id>>)
    BY <1>2, <2>1, ConcatAssociative
  <2> QED
    BY <2>1, <2>2, <2>3
<1>5. ASSUME NEW i \in 1..Len(d \o w) PROVE (d \o w)[i] # b.id
  <2>1. /\ Len(d) \in Nat /\ Len(w) \in Nat /\ i \in 1..(Len(d) + Len(w))
        /\ (d \o w)[i] = IF i <= Len(d) THEN d[i] ELSE w[i - Len(d)]
    BY <1>2, ConcatProperties, LenProperties
  <2>2. PICK c \in Claimed : (d \o w)[i] = c.id
    <3>1. CASE i <= Len(d)
      BY <1>2, <2>1, <3>1
    <3>2. CASE ~ i <= Len(d)
      <4>1. i - Len(d) \in 1..Len(w)
        BY <2>1, <3>2
      <4> QED
        BY <1>2, <2>1, <3>2, <4>1
    <3> QED
      BY <3>1, <3>2
  <2> QED
    BY <2>2 DEF Accepts
<1> QED
  BY <1>1, <1>2, <1>3, <1>4, <1>5 DEF Log!Accept

\* ... or makes durable.
LEMMA CommitsLog ==
  ASSUME OwnStream, LogSound, LogFacts, LogFacts', NEW b \in StreamBatches, Commits(b),
         LogSound'
  PROVE  Log!MakeDurable
<1>1. PICK d, w, v, chain : d = Durable /\ w = Waiting /\ v = Waiting' /\ chain = head.chain
  OBVIOUS
<1>2. /\ Len(chain) \in Nat /\ d \in Seq(Ops) /\ Len(d) = Len(chain)
      /\ w \in Seq(Ops) /\ v \in Seq(Ops) /\ w = <<b.id>> \o v
      /\ b.id \in Ops /\ \A i \in 1..Len(chain) : d[i] = chain[i].batch.id
      /\ chain \in Seq([batch : StreamBatches, from : Nat, to : Nat])
  BY <1>1, DurableIds, WaitingShrinks, StreamBatchFacts, KnownAreStream
  DEF LogSound, InOrderSound, Sound, ArchiveSound
<1>3. PICK link : link = [batch |-> b, from |-> Archive!ArchiveFrom(b),
                          to |-> Archive!ArchiveTo(b)]
  OBVIOUS
<1>4. link.batch = b /\ head'.chain = Append(chain, link)
  BY <1>1, <1>3 DEF Commits
<1>5. /\ Len(head'.chain) = Len(chain) + 1
      /\ \A i \in 1..Len(chain) : head'.chain[i] = chain[i]
      /\ head'.chain[Len(chain) + 1] = link
  BY <1>2, <1>4
<1>6. Durable' = Append(d, b.id)
  <2>1. PICK e : e = Durable'
    OBVIOUS
  <2>2. /\ e = [i \in 1..(Len(chain) + 1) |-> head'.chain[i].batch.id]
    BY <1>5, <2>1 DEF Durable
  <2>3. /\ Append(d, b.id) \in Seq(Ops) /\ Len(Append(d, b.id)) = Len(chain) + 1
        /\ \A i \in 1..Len(chain) : Append(d, b.id)[i] = d[i]
        /\ Append(d, b.id)[Len(chain) + 1] = b.id
    BY <1>2, AppendProperties
  <2>4. \A i \in 1..(Len(chain) + 1) : head'.chain[i].batch.id = Append(d, b.id)[i]
    BY <1>2, <1>4, <1>5, <2>3
  <2>5. Append(d, b.id) = [i \in 1..(Len(chain) + 1) |-> Append(d, b.id)[i]]
    BY <2>3, LenProperties
  <2> QED
    BY <2>1, <2>2, <2>4, <2>5, Zenon
<1>7. Append(d, b.id) \o v = d \o w
  <2>1. <<b.id>> \in Seq(Ops) /\ Append(d, b.id) = d \o <<b.id>>
    BY <1>2, AppendIsConcat
  <2>2. (d \o <<b.id>>) \o v = d \o (<<b.id>> \o v)
    BY <1>2, <2>1, ConcatAssociative
  <2> QED
    BY <1>2, <2>1, <2>2
<1>8. Len(chain) < Len(d \o w)
  <2>1. <<b.id>> \in Seq(Ops) /\ Len(<<b.id>>) = 1
    BY <1>2
  <2>2. Len(w) = 1 + Len(v) /\ Len(d \o w) = Len(d) + Len(w) /\ Len(v) \in Nat
    BY <1>2, <2>1, ConcatProperties, LenProperties
  <2> QED
    BY <1>2, <2>2
<1> QED
  BY <1>1, <1>2, <1>5, <1>6, <1>7, <1>8 DEF Log!MakeDurable

\* The pipeline of one tab is a durable log: an operation is accepted once, when its row
\* is added, and the accepted ones become durable in that order, one by one, whatever is
\* lost, late or retried, and whatever fails or is reloaded.
THEOREM DeliveryIsDurableLog == OneTab /\ OwnStream => (Spec => Log!Safety)
<1> SUFFICES ASSUME OneTab, OwnStream PROVE Spec => Log!Safety
  OBVIOUS
<1>1. Init => LogSound /\ Log!Init
  <2> SUFFICES ASSUME Init PROVE LogSound /\ Log!Init
    OBVIOUS
  <2>1. LogSound /\ LogFacts
    BY LogSoundInit, LogFactsHold
  <2>2. receipts = {} /\ outbox = {} /\ head.chain = <<>>
    BY DEF Init, Archive!Init
  <2>3. Unsent = {} /\ Cardinality(Unsent) = 0
    BY <2>2, FS_EmptySet DEF Unsent, PendingRows
  <2>4. Durable = <<>> /\ Waiting = <<>> /\ Len(head.chain) = 0
    BY <2>2, <2>3, EmptySeq DEF Durable, Waiting, IdsInOrder
  <2> QED
    BY <2>1, <2>4 DEF Log!Init
<1>2. LogSound /\ [Next]_vars => LogSound'
  BY LogSoundNext
<1>3. LogSound => LogFacts
  BY LogFactsHold
<1>4. LogSound /\ LogFacts /\ LogSound' /\ LogFacts' /\ [Next]_vars => [Log!Next]_(Log!vars)
  <2> SUFFICES ASSUME LogSound, LogFacts, LogSound', LogFacts', [Next]_vars
               PROVE  [Log!Next]_(Log!vars)
    OBVIOUS
  <2>1. CASE Still
    BY <2>1, StillLog
  <2>2. ASSUME NEW b \in StreamBatches, Accepts(b) PROVE Log!Next
    <3>1. Log!Accept(b.id) /\ b.id \in Ops
      BY <2>2, AcceptsLog, StreamBatchFacts
    <3> QED
      BY <3>1 DEF Log!Next
  <2>3. ASSUME NEW b \in StreamBatches, Commits(b) PROVE Log!Next
    <3>1. Log!MakeDurable
      BY <2>3, CommitsLog
    <3> QED
      BY <3>1 DEF Log!Next
  <2> QED
    BY <2>1, <2>2, <2>3, LogStep
<1> QED
  BY <1>1, <1>2, <1>3, <1>4, PTL DEF Spec, Log!Safety

-----------------------------------------------------------------------------
\* The bootstrap and the captures.  What the capture modules send is never one of the
\* bootstrap's batches, whatever became of those.
IsSequence(s) == s \in Seq({s[i] : i \in DOMAIN s})

IsCaptured(q) == ~ IsBootstrap(q.batch.id)

TabCaptures(t) ==
  /\ ~ IsBootstrap(doing[t])
  /\ IsSequence(queue[t]) /\ \A i \in DOMAIN queue[t] : IsCaptured(queue[t][i])
  /\ pc[t] = "replaying" => queue[t] # <<>>
  /\ pc[t] \in {"add", "setnext", "choose"} => IsCaptured(sending[t])
  /\ Received(t, "request") => IsCaptured(wire[t].request)

Memories ==
  /\ pc \in [Tabs -> Places]
  /\ doing \in [Tabs -> Ops \union {NoOp}]
  /\ queue = [t \in Tabs |-> queue[t]]
  /\ sending = [t \in Tabs |-> sending[t]]
  /\ wire = [t \in Tabs |-> wire[t]]

RowsCaptured ==
  /\ IsFiniteSet(outbox)
  /\ \A r \in outbox : DOMAIN r = {"batch", "cp", "status"} /\ IsCaptured(r)

CapturesFlow ==
  /\ Memories
  /\ RowsCaptured
  /\ IsSequence(head.chain)
  /\ \A t \in Tabs : TabCaptures(t)

\* The entries of the archive's chain, and what a step outside the bootstrap adds to
\* them and to the late requests: what was captured, what others committed, or a batch
\* that was already late.
Entries == {head.chain[n] : n \in DOMAIN head.chain}

AddsCaptures ==
  /\ Entries \subseteq Entries'
  /\ \A e \in Entries' : e \in Entries \/ IsCaptured(e) \/ \E q \in late : q.batch = e.batch
  /\ \A q \in late' : q \in late \/ IsCaptured(q)

\* What a load knows at each await: what it has had receipts for is in the archive, and
\* what it rebuilds after the last of them is whole.
Awaits ==
  {"closed", "recovered", "checking", "projecting", "planned", "preflighted", "staging",
   "committed", "rebuilding", "activated", "verified", "ready"}

LoadKnows(t) ==
  /\ DOMAIN memory[t] = {"sent", "next", "known", "pinned"}
  /\ memory[t].sent \in 0..Len(BootstrapOps)
  /\ \A i \in 1..memory[t].sent : Holds(head, i)
  /\ page[t] \in {"rebuilding", "activated", "verified"} =>
       /\ Whole(head)
       /\ memory[t].pinned # Unknown => Whole(memory[t].pinned)
  /\ page[t] \in {"activated", "verified"} => memory[t].pinned # Unknown
  /\ memory[t].pinned # Unknown =>
       page[t] \in {"projecting", "rebuilding", "activated", "verified"}

JournalKnows ==
  phase \in {"browser_verified", "committed"} => Whole(target.checkpoint) /\ Whole(head)

BootstrapSound ==
  /\ CapturesFlow
  /\ page \in [Tabs -> Awaits]
  /\ memory = [t \in Tabs |-> memory[t]]
  /\ \A t \in Tabs : LoadKnows(t)
  /\ JournalKnows

\* With loads apart: before a journal there is nothing of the bootstrap in the archive,
\* and a load that has found no interrupted migration finds all of it there or nothing.
Untouched ==
  /\ \A e \in Entries : ~ IsBootstrap(e.batch.id)
  /\ \A q \in late : ~ IsBootstrap(q.batch.id)

WholeOrNone(checkpoint) ==
  Whole(checkpoint) \/ \A i \in DOMAIN BootstrapOps : ~ Holds(checkpoint, i)

LoadTells(t) ==
  /\ page[t] \notin {"closed", "ready", "recovered", "checking", "projecting"} => phase # "none"
  /\ page[t] \in {"recovered", "checking", "projecting"} => Untouched \/ Whole(head)
  /\ page[t] = "projecting" /\ memory[t].pinned # Unknown => WholeOrNone(memory[t].pinned)

ApartSound ==
  /\ LoadsApart
  /\ phase = "none" => Untouched
  /\ \A t \in Tabs : LoadTells(t)
  /\ NoPartialBootstrapActive

LEMMA SequenceIs ==
  ASSUME NEW S, NEW s \in Seq(S)
  PROVE  IsSequence(s)
<1>1. Len(s) \in Nat /\ s \in [1..Len(s) -> S]
  BY LenProperties
<1>2. s \in [1..Len(s) -> {s[i] : i \in DOMAIN s}]
  BY <1>1
<1> QED
  BY <1>1, <1>2, SeqDef DEF IsSequence

LEMMA SequenceSteps ==
  ASSUME NEW s, IsSequence(s)
  PROVE  /\ Len(s) \in Nat /\ DOMAIN s = 1..Len(s)
         /\ \A x : /\ IsSequence(Append(s, x))
                  /\ {Append(s, x)[i] : i \in DOMAIN Append(s, x)}
                       = {s[i] : i \in DOMAIN s} \union {x}
         /\ s # <<>> => /\ IsSequence(Tail(s))
                        /\ Head(s) = s[1] /\ 1 \in DOMAIN s
                        /\ \A i \in DOMAIN Tail(s) : i + 1 \in DOMAIN s /\ Tail(s)[i] = s[i + 1]
<1> DEFINE S == {s[i] : i \in DOMAIN s}
<1>1. s \in Seq(S)
  BY DEF IsSequence
<1>2. Len(s) \in Nat /\ DOMAIN s = 1..Len(s)
  BY <1>1, LenProperties
<1>3. ASSUME NEW x
      PROVE  /\ IsSequence(Append(s, x))
             /\ {Append(s, x)[i] : i \in DOMAIN Append(s, x)} = S \union {x}
  <2>1. s \in Seq(S \union {x}) /\ x \in S \union {x}
    BY <1>1, <1>2, SeqDef, LenProperties
  <2>2. Append(s, x) \in Seq(S \union {x})
    <3> HIDE DEF S
    <3> QED
      BY <2>1, AppendProperties
  <2>3. /\ Len(Append(s, x)) = Len(s) + 1
        /\ \A i \in 1..Len(s) : Append(s, x)[i] = s[i]
        /\ Append(s, x)[Len(s) + 1] = x
    <3> HIDE DEF S
    <3> QED
      BY <2>1, AppendProperties
  <2>4. DOMAIN Append(s, x) = 1..(Len(s) + 1)
    BY <2>2, <2>3, LenProperties
  <2>5. {Append(s, x)[i] : i \in DOMAIN Append(s, x)} = S \union {x}
    BY <1>2, <2>3, <2>4
  <2> QED
    BY <2>2, <2>5, SequenceIs
<1>4. ASSUME s # <<>>
      PROVE  /\ IsSequence(Tail(s))
             /\ Head(s) = s[1] /\ 1 \in DOMAIN s
             /\ \A i \in DOMAIN Tail(s) : i + 1 \in DOMAIN s /\ Tail(s)[i] = s[i + 1]
  <2> HIDE DEF S
  <2>1. Tail(s) \in Seq(S) /\ Len(Tail(s)) = Len(s) - 1
        /\ \A i \in 1..Len(Tail(s)) : Tail(s)[i] = s[i + 1]
    BY <1>1, <1>4, HeadTailProperties
  <2>2. Len(s) >= 1
    BY <1>1, <1>2, <1>4, EmptySeq
  <2>3. Head(s) = s[1]
    BY <1>1
  <2>4. DOMAIN Tail(s) = 1..Len(Tail(s))
    BY <2>1, LenProperties
  <2>5. IsSequence(Tail(s))
    BY <2>1, SequenceIs
  <2>6. \A i \in 1..Len(Tail(s)) : i + 1 \in 1..Len(s)
    BY <1>2, <2>1
  <2> QED
    BY <1>2, <2>1, <2>2, <2>3, <2>4, <2>5, <2>6
<1> QED
  BY <1>2, <1>3, <1>4

LEMMA NoneQueued == IsSequence(<<>>) /\ DOMAIN <<>> = {}
<1>1. <<>> \in Seq({}) /\ Len(<<>>) = 0
  BY EmptySeq
<1>2. IsSequence(<<>>)
  BY <1>1, SequenceIs
<1>3. DOMAIN <<>> = 1..0
  BY <1>1, LenProperties
<1> QED
  BY <1>2, <1>3

LEMMA NoOpIsNone == ~ IsBootstrap(NoOp)
<1>1. \A i \in DOMAIN BootstrapOps : BootstrapOps[i] \in Ops
  BY BootstrapAssumption, LenProperties, ElementOfSeq
<1> QED
  BY <1>1, OperationsAssumption DEF IsBootstrap

LEMMA HistoryIsCaptured ==
  ASSUME NEW i \in DOMAIN History
  PROVE  ~ IsBootstrap(History[i].id)
<1>1. \A j \in DOMAIN BootstrapOps : BootstrapOps[j] \in Ops
  BY BootstrapAssumption, LenProperties, ElementOfSeq
<1> QED
  BY <1>1, HistoryAssumption DEF IsBootstrap

\* A step of one tab that keeps the outbox's rows captured.
LEMMA TabFlow ==
  ASSUME CapturesFlow, NEW t \in Tabs, OnlyTab(t), Memories', RowsCaptured', TabCaptures(t)',
         UNCHANGED archiveVars, late' \subseteq late \union {wire[t].request},
         late' \subseteq late \/ Received(t, "request")
  PROVE  CapturesFlow' /\ AddsCaptures
<1>1. ASSUME NEW u \in Tabs PROVE TabCaptures(u)'
  <2>1. CASE u # t
    <3>1. /\ pc'[u] = pc[u] /\ doing'[u] = doing[u] /\ queue'[u] = queue[u]
          /\ sending'[u] = sending[u] /\ wire'[u] = wire[u]
      BY <2>1 DEF OnlyTab
    <3>2. TabCaptures(u)
      BY DEF CapturesFlow
    <3> QED
      BY <3>1, <3>2 DEF TabCaptures, Received
  <2> QED
    BY <2>1
<1>2. \A q \in late' : q \in late \/ IsCaptured(q)
  BY DEF CapturesFlow, TabCaptures
<1> QED
  BY <1>1, <1>2 DEF CapturesFlow, AddsCaptures, Entries, archiveVars

\* Without a call a tab has nothing of its own.
LEMMA SettledFlow ==
  ASSUME CapturesFlow, NEW t \in Tabs, NEW how, Settle(t, how),
         wire' = wire \/ wire' = [wire EXCEPT ![t] = NoMessage],
         sending' = sending \/ sending' = [sending EXCEPT ![t] = NoMessage],
         RowsCaptured',
         UNCHANGED archiveVars, late' \subseteq late \union {wire[t].request},
         late' \subseteq late \/ Received(t, "request")
  PROVE  CapturesFlow' /\ AddsCaptures
<1>1. /\ pc' = [pc EXCEPT ![t] = "idle"] /\ doing' = [doing EXCEPT ![t] = NoOp]
      /\ queue' = [queue EXCEPT ![t] = <<>>]
  BY DEF Settle, Goto
<1>2. Memories' /\ OnlyTab(t)
  BY <1>1 DEF CapturesFlow, Memories, OnlyTab, Places
<1>3. /\ pc'[t] = "idle" /\ doing'[t] = NoOp /\ queue'[t] = <<>>
      /\ wire'[t] = wire[t] \/ wire'[t] = NoMessage
  BY <1>1 DEF CapturesFlow, Memories
<1>4. TabCaptures(t)
  BY DEF CapturesFlow
<1>5. TabCaptures(t)'
  BY <1>3, <1>4, NoneQueued, NoOpIsNone DEF TabCaptures, Received
<1> QED
  BY <1>2, <1>5, TabFlow

LEMMA DisconnectFlow ==
  ASSUME NEW t \in Tabs, Disconnect(t)
  PROVE  /\ wire' = [wire EXCEPT ![t] = NoMessage]
         /\ late' \subseteq late \union {wire[t].request}
         /\ late' \subseteq late \/ Received(t, "request")
  BY DEF Disconnect, Received

LEMMA SameRows ==
  ASSUME CapturesFlow, UNCHANGED outbox
  PROVE  RowsCaptured'
  BY DEF CapturesFlow, RowsCaptured

LEMMA SettlingFlow ==
  ASSUME CapturesFlow, NEW t \in Tabs,
         \/ HelloFails(t) \/ AddFails(t) \/ SetNextFails(t) \/ RetryNotNoted(t)
         \/ AcknowledgeFails(t) \/ QuarantineFails(t) \/ Stop(t) \/ Project(t)
         \/ ProjectFails(t) \/ OutboxFails(t) \/ Crash(t)
  PROVE  CapturesFlow' /\ AddsCaptures
<1>1. CASE HelloFails(t) \/ SetNextFails(t) \/ Project(t) \/ ProjectFails(t) \/ OutboxFails(t)
  BY <1>1, SettledFlow, SameRows
  DEF HelloFails, SetNextFails, Project, ProjectFails, OutboxFails, outboxVars
<1>2. CASE AddFails(t) \/ Stop(t)
  BY <1>2, SettledFlow, SameRows DEF AddFails, Stop
<1>3. CASE AcknowledgeFails(t) \/ QuarantineFails(t)
  BY <1>3, SettledFlow, SameRows DEF AcknowledgeFails, QuarantineFails, outboxVars
<1>4. CASE RetryNotNoted(t)
  BY <1>4, SettledFlow, SameRows, DisconnectFlow DEF RetryNotNoted, outboxVars
<1>5. CASE Crash(t)
  <2>1. /\ Settle(t, "lost") /\ sending' = [sending EXCEPT ![t] = NoMessage]
        /\ UNCHANGED <<outbox, archiveVars>>
        /\ (UNCHANGED <<wire, late>>) \/ Disconnect(t)
    BY <1>5 DEF Crash, outboxVars
  <2> QED
    BY <2>1, SettledFlow, SameRows, DisconnectFlow
<1> QED
  BY <1>1, <1>2, <1>3, <1>4, <1>5

\* A listing of the pending rows: a sequence of what was captured.
LEMMA ListedFlow ==
  ASSUME CapturesFlow, NEW s \in Listed(PendingRequests)
  PROVE  IsSequence(s) /\ \A i \in DOMAIN s : IsCaptured(s[i])
<1> DEFINE ask == [r \in PendingRows |-> Request(r)]
           n == Cardinality(PendingRequests)
<1>1. PendingRows \subseteq outbox /\ IsFiniteSet(PendingRows)
  BY FS_Subset DEF CapturesFlow, RowsCaptured, PendingRows
<1>2. ask \in Surjection(PendingRows, PendingRequests)
  BY DEF Surjection, PendingRequests
<1>3. n \in Nat
  BY <1>1, <1>2, FS_Surjection, FS_CardinalityType
<1>4. s \in [1..n -> PendingRequests]
  BY DEF Listed
<1>5. s \in Seq(PendingRequests)
  BY <1>3, <1>4, SeqDef
<1>6. \A q \in PendingRequests : IsCaptured(q)
  BY <1>1 DEF CapturesFlow, RowsCaptured, PendingRequests, Request, IsCaptured
<1>7. IsSequence(s)
  BY <1>5, SequenceIs
<1> QED
  BY <1>4, <1>6, <1>7

\* The steps of a call that go on with it.
LEMMA ReadingFlow ==
  ASSUME CapturesFlow, NEW t \in Tabs,
         \/ Hello(t) \/ ReadStoredNext(t) \/ ReadPending(t) \/ ListPending(t) \/ SendReplay(t)
         \/ NothingToSend(t)
  PROVE  CapturesFlow' /\ AddsCaptures
<1> TabCaptures(t)
  BY DEF CapturesFlow
<1>1. CASE Hello(t) \/ ReadStoredNext(t) \/ NothingToSend(t)
  <2>1. \E p \in Places \ {"replaying", "add", "setnext", "choose"} : pc' = [pc EXCEPT ![t] = p]
    BY <1>1 DEF Hello, ReadStoredNext, NothingToSend, Goto, Places
  <2>2. UNCHANGED <<doing, queue, sending, wire, outbox, late, archiveVars>>
    BY <1>1 DEF Hello, ReadStoredNext, NothingToSend, outboxVars
  <2>3. Memories' /\ OnlyTab(t) /\ TabCaptures(t)'
    BY <2>1, <2>2 DEF CapturesFlow, Memories, OnlyTab, TabCaptures, Received
  <2> QED
    BY <2>2, <2>3, SameRows, TabFlow
<1>2. CASE ReadPending(t)
  <2>1. CASE Settle(t, "rejected")
    BY <1>2, <2>1, SettledFlow, SameRows DEF ReadPending, outboxVars
  <2>2. CASE Goto(t, "list") /\ UNCHANGED <<doing, queue, outcome>>
    <3>1. pc' = [pc EXCEPT ![t] = "list"]
          /\ UNCHANGED <<doing, queue, sending, wire, outbox, late, archiveVars>>
      BY <1>2, <2>2 DEF ReadPending, outboxVars, Goto
    <3>2. Memories' /\ OnlyTab(t) /\ TabCaptures(t)'
      BY <3>1 DEF CapturesFlow, Memories, OnlyTab, TabCaptures, Received, Places
    <3> QED
      BY <3>1, <3>2, SameRows, TabFlow
  <2> QED
    BY <1>2, <2>1, <2>2 DEF ReadPending
<1>3. CASE ListPending(t)
  <2>1. PICK s \in Listed(PendingRequests) : queue' = [queue EXCEPT ![t] = s]
    BY <1>3 DEF ListPending
  <2>2. pc' = [pc EXCEPT ![t] = "replay"]
        /\ UNCHANGED <<doing, sending, wire, outbox, late, archiveVars>>
    BY <1>3 DEF ListPending, outboxVars, Goto
  <2>3. Memories' /\ OnlyTab(t) /\ queue'[t] = s
    BY <2>1, <2>2 DEF CapturesFlow, Memories, OnlyTab, Places
  <2>4. TabCaptures(t)'
    BY <2>2, <2>3, ListedFlow DEF CapturesFlow, Memories, TabCaptures, Received
  <2> QED
    BY <2>2, <2>3, <2>4, SameRows, TabFlow
<1>4. CASE SendReplay(t)
  <2>1. /\ queue[t] # <<>>
        /\ wire' = [wire EXCEPT ![t] = [kind |-> "request", request |-> Head(queue[t])]]
        /\ pc' = [pc EXCEPT ![t] = "replaying"]
        /\ UNCHANGED <<doing, queue, sending, outbox, late, archiveVars>>
    BY <1>4 DEF SendReplay, outboxVars, Goto
  <2>2. IsCaptured(Head(queue[t]))
    BY <2>1, SequenceSteps DEF TabCaptures
  <2>3. Memories' /\ OnlyTab(t)
    BY <2>1 DEF CapturesFlow, Memories, OnlyTab, Places
  <2>4. wire'[t].request = Head(queue[t]) /\ pc'[t] = "replaying"
    BY <2>1 DEF CapturesFlow, Memories
  <2>5. TabCaptures(t)'
    BY <2>1, <2>2, <2>4 DEF TabCaptures, Received
  <2> QED
    BY <2>1, <2>3, <2>5, SameRows, TabFlow
<1> QED
  BY <1>1, <1>2, <1>3, <1>4

\* The steps that take in what the companion answered.
LEMMA AnswerFlow ==
  ASSUME CapturesFlow, NEW t \in Tabs,
         \/ ReplayAcknowledged(t) \/ ReplayRetryable(t) \/ SentAcknowledged(t)
         \/ SentRetryable(t) \/ SentUsageFails(t)
  PROVE  CapturesFlow' /\ AddsCaptures
<1> TabCaptures(t)
  BY DEF CapturesFlow
<1>1. ASSUME NEW b, Acknowledge(t, b)
      PROVE  RowsCaptured' /\ wire' = [wire EXCEPT ![t] = NoMessage]
  <2>1. outbox' \subseteq outbox /\ wire' = [wire EXCEPT ![t] = NoMessage]
    BY <1>1 DEF Acknowledge, Without
  <2>2. IsFiniteSet(outbox')
    BY <2>1, FS_Subset DEF CapturesFlow, RowsCaptured
  <2> QED
    BY <2>1, <2>2 DEF CapturesFlow, RowsCaptured
<1>2. CASE ReplayAcknowledged(t)
  <2>1. /\ Acknowledge(t, Head(queue[t]).batch)
        /\ queue' = [queue EXCEPT ![t] = Tail(queue[t])]
        /\ pc' = [pc EXCEPT ![t] = "replay"]
        /\ UNCHANGED <<doing, sending, late, archiveVars>>
    BY <1>2 DEF ReplayAcknowledged, Goto
  <2>2. Memories' /\ OnlyTab(t)
    BY <1>1, <2>1 DEF CapturesFlow, Memories, OnlyTab, Places
  <2>3. wire'[t] = NoMessage /\ queue'[t] = Tail(queue[t]) /\ pc'[t] = "replay"
    BY <1>1, <2>1 DEF CapturesFlow, Memories
  <2>4. queue[t] # <<>>
    BY <1>2 DEF ReplayAcknowledged, At, TabCaptures
  <2>5. IsSequence(Tail(queue[t])) /\ \A i \in DOMAIN Tail(queue[t]) : IsCaptured(Tail(queue[t])[i])
    BY <2>4, SequenceSteps DEF TabCaptures
  <2>6. TabCaptures(t)'
    BY <2>1, <2>3, <2>5 DEF TabCaptures, Received
  <2> QED
    BY <1>1, <2>1, <2>2, <2>6, TabFlow
<1>3. CASE ReplayRetryable(t)
  <2>1. /\ Disconnect(t)
        /\ queue' = [queue EXCEPT ![t] = <<>>]
        /\ pc' = [pc EXCEPT ![t] = "replay"]
        /\ UNCHANGED <<doing, sending, outbox, archiveVars>>
    BY <1>3 DEF ReplayRetryable, Goto, outboxVars
  <2>2. Memories' /\ OnlyTab(t)
    BY <2>1, DisconnectFlow DEF CapturesFlow, Memories, OnlyTab, Places
  <2>3. wire'[t] = NoMessage /\ queue'[t] = <<>> /\ pc'[t] = "replay"
    BY <2>1, DisconnectFlow DEF CapturesFlow, Memories
  <2>4. TabCaptures(t)'
    BY <2>1, <2>3, NoneQueued DEF TabCaptures, Received
  <2> QED
    BY <2>1, <2>2, <2>4, DisconnectFlow, SameRows, TabFlow
<1>4. CASE SentAcknowledged(t) \/ SentUsageFails(t)
  <2>1. /\ Acknowledge(t, sending[t].batch)
        /\ \E p \in {"project", "stopping"} : pc' = [pc EXCEPT ![t] = p]
        /\ UNCHANGED <<doing, queue, sending, late, archiveVars>>
    BY <1>4 DEF SentAcknowledged, SentUsageFails, Goto
  <2>2. Memories' /\ OnlyTab(t) /\ TabCaptures(t)'
    BY <1>1, <2>1 DEF CapturesFlow, Memories, OnlyTab, Places, TabCaptures, Received
  <2> QED
    BY <1>1, <2>1, <2>2, TabFlow
<1>5. CASE SentRetryable(t)
  <2>1. /\ Disconnect(t)
        /\ pc' = [pc EXCEPT ![t] = "project"]
        /\ UNCHANGED <<doing, queue, sending, outbox, archiveVars>>
    BY <1>5 DEF SentRetryable, Goto, outboxVars
  <2>2. Memories' /\ OnlyTab(t) /\ TabCaptures(t)'
    BY <2>1, DisconnectFlow DEF CapturesFlow, Memories, OnlyTab, Places, TabCaptures, Received
  <2> QED
    BY <2>1, <2>2, DisconnectFlow, SameRows, TabFlow
<1> QED
  BY <1>2, <1>3, <1>4, <1>5

LEMMA RefusedFlow ==
  ASSUME CapturesFlow, NEW t \in Tabs, ReplayRefused(t) \/ SentRefused(t)
  PROVE  CapturesFlow' /\ AddsCaptures
<1>1. PICK b : Quarantine(t, b)
  BY DEF ReplayRefused, SentRefused
<1>2. /\ wire' = [wire EXCEPT ![t] = NoMessage]
      /\ pc' = [pc EXCEPT ![t] = "stopping"]
      /\ UNCHANGED <<doing, queue, sending, late, archiveVars>>
  BY <1>1 DEF Quarantine, Goto
<1>3. Memories' /\ OnlyTab(t) /\ TabCaptures(t)'
  BY <1>2 DEF CapturesFlow, Memories, OnlyTab, Places, TabCaptures, Received
<1>4. RowsCaptured'
  <2> DEFINE mark(r) == IF r.batch.id = b.id THEN [r EXCEPT !.status = "quarantined"] ELSE r
             marked == [r \in outbox |-> mark(r)]
  <2>1. outbox' = {mark(r) : r \in outbox}
    BY <1>1 DEF Quarantine
  <2>2. marked \in Surjection(outbox, outbox')
    BY <2>1 DEF Surjection
  <2>3. IsFiniteSet(outbox')
    BY <2>2, FS_Surjection DEF CapturesFlow, RowsCaptured
  <2>4. ASSUME NEW r \in outbox
        PROVE  DOMAIN mark(r) = {"batch", "cp", "status"} /\ mark(r).batch = r.batch
    BY DEF CapturesFlow, RowsCaptured
  <2> QED
    BY <2>1, <2>3, <2>4 DEF CapturesFlow, RowsCaptured, IsCaptured
<1> QED
  BY <1>2, <1>3, <1>4, TabFlow

\* The steps that build a batch of the operation, admit it and choose whether to send it.
LEMMA AdmittingFlow ==
  ASSUME CapturesFlow, NEW t \in Tabs, Build(t) \/ Add(t) \/ SetNext(t) \/ Choose(t)
  PROVE  CapturesFlow' /\ AddsCaptures
<1> TabCaptures(t)
  BY DEF CapturesFlow
<1>1. CASE Build(t)
  <2> DEFINE b == Batch(doing[t], next[t])
  <2>1. UNCHANGED <<wire, outbox, late, archiveVars>>
    BY <1>1 DEF Build
  <2>2. CASE Settle(t, "rejected") /\ UNCHANGED sending
    BY <2>1, <2>2, SettledFlow, SameRows
  <2>3. CASE /\ sending' = [sending EXCEPT ![t] = [batch |-> b, cp |-> known[t]]]
             /\ pc' = [pc EXCEPT ![t] = "add"]
             /\ UNCHANGED <<doing, queue>>
    <3>1. b.id = doing[t]
      BY DEF Batch
    <3>2. Memories' /\ OnlyTab(t)
      BY <2>1, <2>3 DEF CapturesFlow, Memories, OnlyTab, Places
    <3>3. sending'[t].batch.id = doing[t]
      BY <2>3, <3>1 DEF CapturesFlow, Memories
    <3>4. TabCaptures(t)'
      BY <2>1, <2>3, <3>3 DEF TabCaptures, Received, IsCaptured
    <3> QED
      BY <2>1, <3>2, <3>4, SameRows, TabFlow
  <2> QED
    BY <1>1, <2>2, <2>3 DEF Build, Goto
<1>2. CASE Add(t)
  <2> DEFINE row == [batch |-> sending[t].batch, cp |-> sending[t].cp, status |-> "pending"]
  <2>1. /\ pc[t] = "add" /\ outbox' = outbox \union {row}
        /\ pc' = [pc EXCEPT ![t] = "setnext"]
        /\ UNCHANGED <<doing, queue, sending, wire, late, archiveVars>>
    BY <1>2 DEF Add, At, Goto
  <2>2. IsCaptured(sending[t])
    BY <2>1 DEF TabCaptures
  <2>3. RowsCaptured'
    <3>1. IsFiniteSet(outbox')
      BY <2>1, FS_AddElement DEF CapturesFlow, RowsCaptured
    <3>2. DOMAIN row = {"batch", "cp", "status"} /\ IsCaptured(row)
      BY <2>2 DEF IsCaptured
    <3> QED
      BY <2>1, <3>1, <3>2 DEF CapturesFlow, RowsCaptured
  <2>4. Memories' /\ OnlyTab(t) /\ TabCaptures(t)'
    BY <2>1, <2>2 DEF CapturesFlow, Memories, OnlyTab, Places, TabCaptures, Received
  <2> QED
    BY <2>1, <2>3, <2>4, TabFlow
<1>3. CASE SetNext(t)
  <2>1. /\ pc[t] = "setnext" /\ pc' = [pc EXCEPT ![t] = "choose"]
        /\ UNCHANGED <<doing, queue, sending, wire, outbox, late, archiveVars>>
    BY <1>3 DEF SetNext, At, Goto
  <2>2. Memories' /\ OnlyTab(t) /\ TabCaptures(t)'
    BY <2>1 DEF CapturesFlow, Memories, OnlyTab, Places, TabCaptures, Received
  <2> QED
    BY <2>1, <2>2, SameRows, TabFlow
<1>4. CASE Choose(t)
  <2>1. /\ pc[t] = "choose"
        /\ \/ /\ wire' = [wire EXCEPT ![t] = [kind |-> "request", request |-> sending[t]]]
              /\ pc' = [pc EXCEPT ![t] = "sent"]
           \/ pc' = [pc EXCEPT ![t] = "project"] /\ wire' = wire
        /\ UNCHANGED <<doing, queue, sending, outbox, late, archiveVars>>
    BY <1>4 DEF Choose, At, Goto, outboxVars
  <2>2. IsCaptured(sending[t])
    BY <2>1 DEF TabCaptures
  <2>3. Memories' /\ OnlyTab(t)
    BY <2>1 DEF CapturesFlow, Memories, OnlyTab, Places
  <2>4. pc'[t] \in {"sent", "project"}
        /\ (wire'[t] = wire[t] \/ wire'[t] = [kind |-> "request", request |-> sending[t]])
    BY <2>1 DEF CapturesFlow, Memories
  <2>5. TabCaptures(t)'
    BY <2>1, <2>2, <2>4 DEF TabCaptures, Received
  <2> QED
    BY <2>1, <2>3, <2>5, SameRows, TabFlow
<1> QED
  BY <1>1, <1>2, <1>3, <1>4

\* What a commit adds to the archive, whatever the archive holds.
LEMMA CommitExtends ==
  ASSUME NEW b, NEW cp, Archive!Commit(b, cp), IsSequence(head.chain)
  PROVE  /\ \E e : e.batch = b /\ Entries' = Entries \union {e}
         /\ IsSequence(head'.chain)
<1> DEFINE e == [batch |-> b, from |-> Archive!ArchiveFrom(b), to |-> Archive!ArchiveTo(b)]
<1>1. head'.chain = Append(head.chain, e)
  BY DEF Archive!Commit, Archive!HeadAfter, Archive!Chain
<1>2. e.batch = b
  OBVIOUS
<1> HIDE DEF e
<1>3. IsSequence(head'.chain) /\ Entries' = Entries \union {e}
  BY <1>1, SequenceSteps DEF Entries
<1> QED
  BY <1>2, <1>3

LEMMA HandleExtends ==
  ASSUME NEW q, Handle(q), IsSequence(head.chain)
  PROVE  /\ Entries \subseteq Entries' /\ IsSequence(head'.chain)
         /\ \A e \in Entries' : e \in Entries \/ e.batch = q.batch
<1>1. CASE Archive!Commit(q.batch, q.cp)
  BY <1>1, CommitExtends
<1>2. CASE UNCHANGED archiveVars
  BY <1>2 DEF archiveVars, Entries
<1> QED
  BY <1>1, <1>2 DEF Handle

LEMMA SameMemories ==
  ASSUME CapturesFlow, UNCHANGED <<browserVars, wire, outbox>>, IsSequence(head'.chain)
  PROVE  CapturesFlow'
<1>1. Memories' /\ RowsCaptured'
  BY DEF CapturesFlow, Memories, RowsCaptured, browserVars
<1>2. \A t \in Tabs : TabCaptures(t)'
  BY DEF CapturesFlow, TabCaptures, Received, browserVars
<1> QED
  BY <1>1, <1>2 DEF CapturesFlow

\* The companion serves what is on a wire, or what arrives late.
LEMMA ServeFlow ==
  ASSUME CapturesFlow, NEW t \in Tabs, Serve(t)
  PROVE  CapturesFlow' /\ AddsCaptures
<1> DEFINE q == wire[t].request
<1>1. /\ Received(t, "request") /\ Handle(q)
      /\ wire' = [wire EXCEPT ![t] = AnswerTo(q)]
      /\ UNCHANGED <<pc, doing, next, known, queue, sending, outbox, late>>
  BY DEF Serve, Received, browserVars, outboxVars
<1>2. IsCaptured(q) /\ IsSequence(head.chain)
  BY <1>1 DEF CapturesFlow, TabCaptures
<1>3. AddsCaptures /\ IsSequence(head'.chain)
  BY <1>1, <1>2, HandleExtends DEF AddsCaptures, IsCaptured
<1>4. Memories' /\ RowsCaptured'
  BY <1>1 DEF CapturesFlow, Memories, RowsCaptured
<1>5. ASSUME NEW u \in Tabs PROVE TabCaptures(u)'
  <2>1. TabCaptures(u)
    BY DEF CapturesFlow
  <2>2. CASE u = t
    <3>1. AnswerTo(q).kind # "request"
      BY DEF AnswerTo
    <3>2. wire'[u] = AnswerTo(q)
      BY <1>1, <2>2 DEF CapturesFlow, Memories
    <3> QED
      BY <1>1, <2>1, <3>1, <3>2 DEF TabCaptures, Received
  <2>3. CASE u # t
    <3>1. wire'[u] = wire[u]
      BY <1>1, <2>3 DEF CapturesFlow, Memories
    <3> QED
      BY <1>1, <2>1, <3>1 DEF TabCaptures, Received
  <2> QED
    BY <2>2, <2>3
<1> QED
  BY <1>3, <1>4, <1>5 DEF CapturesFlow

LEMMA ServeLateFlow ==
  ASSUME CapturesFlow, NEW q \in late, ServeLate(q)
  PROVE  CapturesFlow' /\ AddsCaptures
<1>1. Handle(q) /\ late' \subseteq late /\ UNCHANGED <<browserVars, wire, outbox>>
  BY DEF ServeLate, outboxVars
<1>2. IsSequence(head.chain)
  BY DEF CapturesFlow
<1> QED
  BY <1>1, <1>2, HandleExtends, SameMemories DEF AddsCaptures

\* What others commit before the browser is paired, and the pairing itself.
LEMMA AdmitFlow ==
  ASSUME CapturesFlow, NEW c, Archive!AdmitClient(c),
         UNCHANGED <<browserVars, wire, outboxVars, late, outcome, crashes>>
  PROVE  CapturesFlow' /\ AddsCaptures
<1>1. UNCHANGED <<head, outbox>>
  BY DEF Archive!AdmitClient, outboxVars
<1>2. Entries' = Entries
  BY <1>1 DEF Entries
<1> QED
  BY <1>1, <1>2, SameMemories DEF CapturesFlow, AddsCaptures

LEMMA EarlierFlow ==
  ASSUME CapturesFlow, Earlier
  PROVE  CapturesFlow' /\ AddsCaptures
<1> DEFINE i == Len(head.chain) + 1
           b == History[i]
<1>1. /\ Len(head.chain) < Len(History)
      /\ Archive!AdmitClient(b.client) \/ Archive!Commit(b, Unknown)
      /\ UNCHANGED <<browserVars, wire, outboxVars, late, outcome, crashes>>
  BY DEF Earlier
<1>2. CASE Archive!AdmitClient(b.client)
  BY <1>1, <1>2, AdmitFlow
<1>3. CASE Archive!Commit(b, Unknown)
  <2>1. IsSequence(head.chain) /\ Len(head.chain) \in Nat
    BY SequenceSteps DEF CapturesFlow
  <2>2. Len(History) \in Nat /\ DOMAIN History = 1..Len(History)
    BY HistoryAssumption, LenProperties
  <2>3. i \in DOMAIN History
    BY <1>1, <2>1, <2>2
  <2>4. ~ IsBootstrap(b.id)
    BY <2>3, HistoryIsCaptured
  <2> HIDE DEF b
  <2>5. /\ \E e : e.batch = b /\ Entries' = Entries \union {e}
        /\ IsSequence(head'.chain)
    BY <1>3, <2>1, CommitExtends
  <2> QED
    BY <1>1, <2>4, <2>5, SameMemories DEF AddsCaptures, IsCaptured, outboxVars
<1> QED
  BY <1>1, <1>2, <1>3

LEMMA RouteFlow ==
  ASSUME CapturesFlow, NEW t \in Tabs, NEW o \in Ops \union {NoOp}, ~ IsBootstrap(o), Route(t, o)
  PROVE  CapturesFlow' /\ AddsCaptures
<1>1. UNCHANGED <<queue, sending, wire, outbox, late, archiveVars>>
  BY DEF Route
<1>2. TabCaptures(t)
  BY DEF CapturesFlow
<1>3. CASE UNCHANGED <<pc, doing>>
  <2>1. Memories' /\ OnlyTab(t) /\ TabCaptures(t)'
    BY <1>1, <1>2, <1>3 DEF CapturesFlow, Memories, OnlyTab, TabCaptures, Received
  <2> QED
    BY <1>1, <2>1, SameRows, TabFlow
<1>4. CASE doing' = [doing EXCEPT ![t] = o] /\ pc' = [pc EXCEPT ![t] = "hello"]
  <2>1. Memories' /\ OnlyTab(t) /\ TabCaptures(t)'
    BY <1>1, <1>2, <1>4 DEF CapturesFlow, Memories, OnlyTab, TabCaptures, Received, Places
  <2> QED
    BY <1>1, <2>1, SameRows, TabFlow
<1> QED
  BY <1>3, <1>4 DEF Route, Goto

LEMMA StepFlow ==
  ASSUME CapturesFlow, NEW t \in Tabs, Step(t)
  PROVE  CapturesFlow' /\ AddsCaptures
  BY SettlingFlow, ReadingFlow, AnswerFlow, RefusedFlow, AdmittingFlow DEF Step

-----------------------------------------------------------------------------
\* What the archive holds of the bootstrap stays, and what leaves the archive alone leaves
\* that alone too.
LEMMA HeldStays ==
  ASSUME Entries \subseteq Entries'
  PROVE  /\ \A i : Holds(head, i) => Holds(head', i)
         /\ Whole(head) => Whole(head')
<1>1. ASSUME NEW i, Holds(head, i) PROVE Holds(head', i)
  <2>1. PICK e \in Entries : e.batch.id = BootstrapOps[i]
    BY <1>1 DEF Holds, Entries
  <2>2. e \in Entries'
    BY <2>1
  <2> QED
    BY <2>1, <2>2 DEF Holds, Entries
<1> QED
  BY <1>1 DEF Whole

LEMMA IdleFlow ==
  ASSUME CapturesFlow, UNCHANGED <<browserVars, wire, outboxVars, archiveVars>>
  PROVE  CapturesFlow' /\ Entries' = Entries /\ head' = head
<1>1. CapturesFlow'
  BY SameMemories DEF CapturesFlow, outboxVars, archiveVars
<1> QED
  BY <1>1 DEF archiveVars, Entries

\* The step of one load: the others know what they knew.
OnlyLoad(t, place, kept) ==
  /\ page' = [page EXCEPT ![t] = place]
  /\ memory' = [memory EXCEPT ![t] = kept]

LEMMA LoadStep ==
  ASSUME BootstrapSound, CapturesFlow', Entries \subseteq Entries',
         NEW t \in Tabs, NEW place \in Awaits, NEW kept, OnlyLoad(t, place, kept)
  PROVE  /\ page'[t] = place /\ memory'[t] = kept
         /\ \A u \in Tabs : u # t => page'[u] = page[u] /\ memory'[u] = memory[u]
         /\ LoadKnows(t)' /\ JournalKnows' => BootstrapSound'
<1>1. page' \in [Tabs -> Awaits] /\ memory' = [u \in Tabs |-> memory'[u]]
  BY DEF BootstrapSound, OnlyLoad
<1>2. page'[t] = place /\ memory'[t] = kept
  BY DEF BootstrapSound, OnlyLoad
<1>3. \A u \in Tabs : u # t => page'[u] = page[u] /\ memory'[u] = memory[u]
  BY DEF BootstrapSound, OnlyLoad
<1>4. ASSUME NEW u \in Tabs, u # t PROVE LoadKnows(u)'
  <2>1. LoadKnows(u) /\ page'[u] = page[u] /\ memory'[u] = memory[u]
    BY <1>3, <1>4 DEF BootstrapSound
  <2> QED
    BY <2>1, HeldStays DEF LoadKnows
<1> QED
  BY <1>1, <1>2, <1>3, <1>4 DEF BootstrapSound

LEMMA GoesIs ==
  ASSUME BootstrapSound, NEW t \in Tabs, NEW place, Goes(t, place)
  PROVE  OnlyLoad(t, place, memory[t])
  BY DEF BootstrapSound, Goes, OnlyLoad

LEMMA LeavesIs ==
  ASSUME NEW t \in Tabs, NEW place, Leaves(t, place)
  PROVE  OnlyLoad(t, place, NoMemory)
  BY DEF Leaves, OnlyLoad

LEMMA BatchesCounted == Len(BootstrapOps) \in Nat /\ DOMAIN BootstrapOps = 1..Len(BootstrapOps)
  BY BootstrapAssumption, LenProperties

\* A load that ends knows nothing any more.
LEMMA LeavesSound ==
  ASSUME BootstrapSound, CapturesFlow', Entries \subseteq Entries',
         NEW t \in Tabs, NEW place \in {"closed", "ready"}, Leaves(t, place), JournalKnows'
  PROVE  BootstrapSound'
<1>1. OnlyLoad(t, place, NoMemory) /\ place \in Awaits
  BY LeavesIs DEF Awaits
<1>2. page'[t] = place /\ memory'[t] = NoMemory
  BY <1>1, LoadStep
<1>3. LoadKnows(t)'
  BY <1>2, BatchesCounted DEF LoadKnows, NoMemory
<1> QED
  BY <1>1, <1>3, LoadStep

\* The captures, other browsers and late requests.
LEMMA OutsideFlow ==
  ASSUME CapturesFlow, Earlier \/ Pair \/ (\E r \in late : ServeLate(r))
                       \/ \E t \in Tabs : Capture(t) \/ CloseInCall(t)
  PROVE  CapturesFlow' /\ AddsCaptures
<1>1. CASE Earlier \/ Pair \/ \E r \in late : ServeLate(r)
  BY <1>1, EarlierFlow, AdmitFlow, ServeLateFlow DEF Pair
<1>2. CASE \E t \in Tabs : Capture(t) \/ CloseInCall(t)
  BY <1>2, RouteFlow, StepFlow, ServeFlow, SettlingFlow DEF Capture, CloseInCall
<1> QED
  BY <1>1, <1>2

LEMMA SameLoads ==
  ASSUME BootstrapSound, CapturesFlow', Entries \subseteq Entries', UNCHANGED bootVars
  PROVE  BootstrapSound'
<1>1. \A t \in Tabs : LoadKnows(t)'
  BY HeldStays DEF BootstrapSound, LoadKnows, bootVars
<1>2. JournalKnows'
  BY HeldStays DEF BootstrapSound, JournalKnows, bootVars
<1> QED
  BY <1>1, <1>2 DEF BootstrapSound, bootVars

LEMMA OutsideSound ==
  ASSUME BootstrapSound,
         \/ UNCHANGED bootVars /\ (Earlier \/ Pair \/ \E r \in late : ServeLate(r))
         \/ \E t \in Tabs : Capture(t) \/ CloseInCall(t)
  PROVE  BootstrapSound'
<1>1. CapturesFlow' /\ Entries \subseteq Entries'
  BY OutsideFlow DEF BootstrapSound, AddsCaptures
<1>2. CASE UNCHANGED bootVars
  BY <1>1, <1>2, SameLoads
<1>3. CASE \E t \in Tabs : CloseInCall(t)
  <2>1. PICK t \in Tabs : Leaves(t, "closed") /\ UNCHANGED <<phase, target>>
    BY <1>3 DEF CloseInCall
  <2>2. JournalKnows'
    BY <1>1, <2>1, HeldStays DEF BootstrapSound, JournalKnows
  <2> QED
    BY <1>1, <2>1, <2>2, LeavesSound
<1> QED
  BY <1>2, <1>3 DEF Capture

\* The steps of a load that leave the archive alone.
Idles == UNCHANGED <<browserVars, wire, outboxVars, archiveVars>>

LEMMA LeavingSound ==
  ASSUME BootstrapSound, NEW t \in Tabs,
         \/ LoadBlocked(t) \/ LoadDeferred(t) \/ ActivateProjected(t) \/ JournalCommitted(t)
         \/ BootstrapFails(t) \/ Close(t)
  PROVE  BootstrapSound'
<1>1. Idles /\ \E place \in {"closed", "ready"} : Leaves(t, place)
  BY DEF LoadBlocked, LoadDeferred, ActivateProjected, JournalCommitted, BootstrapFails, Close,
         PipelineIdle, Idles
<1>2. CapturesFlow' /\ Entries \subseteq Entries' /\ head' = head
  BY <1>1, IdleFlow DEF BootstrapSound, Idles
<1>3. JournalKnows'
  <2>1. CASE \/ LoadBlocked(t) \/ LoadDeferred(t) \/ ActivateProjected(t)
             \/ BootstrapFails(t) \/ Close(t)
    <3>1. UNCHANGED <<phase, target>> \/ phase' = "rollback_required"
      BY <2>1 DEF LoadBlocked, LoadDeferred, ActivateProjected, BootstrapFails, Close,
                  WriteJournal
    <3> QED
      BY <1>2, <3>1 DEF BootstrapSound, JournalKnows
  <2>2. CASE JournalCommitted(t)
    <3>1. page[t] = "verified" /\ target' = Generation(t)
      BY <2>2 DEF JournalCommitted, WriteJournal
    <3>2. Whole(memory[t].pinned) /\ Whole(head)
      BY <3>1 DEF BootstrapSound, LoadKnows
    <3> QED
      BY <1>2, <3>1, <3>2 DEF JournalKnows, Generation
  <2> QED
    BY <2>1, <2>2
<1> QED
  BY <1>1, <1>2, <1>3, LeavesSound

LEMMA GoingSound ==
  ASSUME BootstrapSound, NEW t \in Tabs,
         \/ Recover(t) \/ FindPointer(t) \/ Check(t) \/ ReadRows(t) \/ ReceiveReceipt(t)
         \/ BeginRebuild(t) \/ ActivateRebuilt(t) \/ JournalVerified(t)
  PROVE  BootstrapSound'
<1> USE DEF Idles
<1>1. Idles
  BY DEF Recover, FindPointer, Check, ReadRows, ReceiveReceipt, BeginRebuild, ActivateRebuilt,
         JournalVerified, PipelineIdle
<1>2. CapturesFlow' /\ Entries \subseteq Entries' /\ head' = head
  BY <1>1, IdleFlow DEF BootstrapSound
<1>3. LoadKnows(t)
  BY DEF BootstrapSound
<1>4. ASSUME NEW place \in {"recovered", "checking", "projecting", "planned", "staging"},
             Goes(t, place),
             page[t] \in {"closed", "recovered", "checking", "preflighted", "committed"},
             JournalKnows'
      PROVE  BootstrapSound'
  <2>1. OnlyLoad(t, place, memory[t]) /\ place \in Awaits
    BY <1>4, GoesIs DEF Awaits
  <2>2. page'[t] = place /\ memory'[t] = memory[t]
    BY <1>2, <2>1, LoadStep
  <2>3. LoadKnows(t)'
    BY <1>2, <1>3, <1>4, <2>2 DEF LoadKnows
  <2> QED
    BY <1>2, <1>4, <2>1, <2>3, LoadStep
<1>5. CASE Recover(t)
  <2>1. page[t] = "closed" /\ Goes(t, "recovered") /\ UNCHANGED target
        /\ phase' = (IF phase = "browser_verified" THEN "committed" ELSE phase)
    BY <1>5 DEF Recover, Opens
  <2>2. JournalKnows'
    BY <1>2, <2>1 DEF BootstrapSound, JournalKnows
  <2> QED
    BY <1>4, <2>1, <2>2
<1>6. CASE FindPointer(t)
  <2>1. page[t] = "recovered" /\ UNCHANGED <<phase, target>>
        /\ \E place \in {"checking", "projecting"} : Goes(t, place)
    BY <1>6 DEF FindPointer
  <2>2. JournalKnows'
    BY <1>2, <2>1 DEF BootstrapSound, JournalKnows
  <2> QED
    BY <1>4, <2>1, <2>2
<1>7. CASE Check(t)
  <2>1. page[t] = "checking"
        /\ \/ Goes(t, "projecting") /\ UNCHANGED <<phase, target>>
           \/ Goes(t, "planned") /\ phase' = "planned"
    BY <1>7 DEF Check, WriteJournal
  <2>2. JournalKnows'
    BY <1>2, <2>1 DEF BootstrapSound, JournalKnows
  <2> QED
    BY <1>4, <2>1, <2>2
<1>8. CASE ReadRows(t) \/ ReceiveReceipt(t)
  <2>1. page[t] \in {"preflighted", "committed"} /\ Goes(t, "staging") /\ phase' = "staging"
    BY <1>8 DEF ReadRows, ReceiveReceipt, WriteJournal
  <2>2. JournalKnows'
    BY <1>2, <2>1 DEF JournalKnows
  <2> QED
    BY <1>4, <2>1, <2>2
<1>9. CASE BeginRebuild(t)
  <2>1. /\ page[t] = "staging" /\ memory[t].sent = Len(BootstrapOps)
        /\ OnlyLoad(t, "rebuilding", memory[t]) /\ phase' = "browser_rebuilding"
    BY <1>9, GoesIs DEF BeginRebuild, AllSent, WriteJournal
  <2>2. page'[t] = "rebuilding" /\ memory'[t] = memory[t]
    BY <1>2, <2>1, LoadStep DEF Awaits
  <2>3. Whole(head)
    BY <1>3, <2>1, BatchesCounted DEF LoadKnows, Whole
  <2>4. LoadKnows(t)'
    BY <1>2, <1>3, <2>1, <2>2, <2>3 DEF LoadKnows
  <2>5. JournalKnows'
    BY <1>2, <2>1 DEF JournalKnows
  <2> QED
    BY <1>2, <2>1, <2>4, <2>5, LoadStep DEF Awaits
<1>10. CASE ActivateRebuilt(t)
  <2>1. /\ page[t] = "rebuilding" /\ memory[t].pinned # Unknown
        /\ OnlyLoad(t, "activated", memory[t]) /\ UNCHANGED <<phase, target>>
    BY <1>10, GoesIs DEF ActivateRebuilt
  <2>2. page'[t] = "activated" /\ memory'[t] = memory[t]
    BY <1>2, <2>1, LoadStep DEF Awaits
  <2>3. LoadKnows(t)'
    BY <1>2, <1>3, <2>1, <2>2 DEF LoadKnows
  <2>4. JournalKnows'
    BY <1>2, <2>1 DEF BootstrapSound, JournalKnows
  <2> QED
    BY <1>2, <2>1, <2>3, <2>4, LoadStep DEF Awaits
<1>11. CASE JournalVerified(t)
  <2>1. /\ page[t] = "activated" /\ target' = Generation(t)
        /\ OnlyLoad(t, "verified", memory[t])
    BY <1>11, GoesIs DEF JournalVerified, WriteJournal
  <2>2. page'[t] = "verified" /\ memory'[t] = memory[t]
    BY <1>2, <2>1, LoadStep DEF Awaits
  <2>3. LoadKnows(t)'
    BY <1>2, <1>3, <2>1, <2>2 DEF LoadKnows
  <2>4. Whole(memory[t].pinned) /\ Whole(head)
    BY <1>3, <2>1 DEF LoadKnows
  <2>5. JournalKnows'
    BY <1>2, <2>1, <2>4 DEF JournalKnows, Generation
  <2> QED
    BY <1>2, <2>1, <2>3, <2>5, LoadStep DEF Awaits
<1> QED
  BY <1>5, <1>6, <1>7, <1>8, <1>9, <1>10, <1>11

LEMMA LearningSound ==
  ASSUME BootstrapSound, NEW t \in Tabs, Preflight(t) \/ PinArchive(t)
  PROVE  BootstrapSound'
<1>1. Idles
  BY DEF Preflight, PinArchive, PipelineIdle, Idles
<1>2. CapturesFlow' /\ Entries \subseteq Entries' /\ head' = head
  BY <1>1, IdleFlow DEF BootstrapSound, Idles
<1>3. LoadKnows(t)
  BY DEF BootstrapSound
<1>4. CASE Preflight(t)
  <2> DEFINE kept == [NoMemory EXCEPT !.known = head]
  <2>1. OnlyLoad(t, "preflighted", kept) /\ phase' = "preflighted"
    BY <1>4 DEF Preflight, OnlyLoad, WriteJournal
  <2>2. /\ DOMAIN kept = {"sent", "next", "known", "pinned"}
        /\ kept.sent = 0 /\ kept.pinned = Unknown
    BY DEF NoMemory
  <2> HIDE DEF kept
  <2>3. page'[t] = "preflighted" /\ memory'[t] = kept
    BY <1>2, <2>1, LoadStep DEF Awaits
  <2>4. LoadKnows(t)'
    BY <2>2, <2>3, BatchesCounted DEF LoadKnows
  <2>5. JournalKnows'
    BY <1>2, <2>1 DEF JournalKnows
  <2> QED
    BY <1>2, <2>1, <2>4, <2>5, LoadStep DEF Awaits
<1>5. CASE PinArchive(t)
  <2> DEFINE kept == [memory[t] EXCEPT !.pinned = head]
  <2>1. /\ page[t] \in {"rebuilding", "projecting"}
        /\ memory' = [memory EXCEPT ![t] = kept] /\ UNCHANGED <<page, phase, target>>
    BY <1>5 DEF PinArchive
  <2>2. page' = [page EXCEPT ![t] = page[t]] /\ page[t] \in Awaits
    BY <2>1 DEF BootstrapSound
  <2>3. OnlyLoad(t, page[t], kept)
    BY <2>1, <2>2 DEF OnlyLoad
  <2>4. /\ DOMAIN kept = {"sent", "next", "known", "pinned"}
        /\ kept.sent = memory[t].sent /\ kept.pinned = head
    BY <1>3 DEF LoadKnows
  <2> HIDE DEF kept
  <2>5. page'[t] = page[t] /\ memory'[t] = kept
    BY <1>2, <2>2, <2>3, LoadStep
  <2>6. LoadKnows(t)'
    BY <1>2, <1>3, <2>1, <2>4, <2>5 DEF LoadKnows
  <2>7. JournalKnows'
    BY <1>2, <2>1 DEF BootstrapSound, JournalKnows
  <2> QED
    BY <1>2, <2>2, <2>3, <2>6, <2>7, LoadStep
<1> QED
  BY <1>4, <1>5

LEMMA CommitBootstrapSound ==
  ASSUME BootstrapSound, NEW t \in Tabs, CommitBootstrapBatch(t)
  PROVE  BootstrapSound'
<1> DEFINE b == BootstrapBatch(t)
           kept == [sent |-> memory[t].sent + 1, next |-> Archive!To(b) + 1,
                    known |-> Archive!HeadAfter(b), pinned |-> memory[t].pinned]
<1>1. /\ page[t] = "staging" /\ memory[t].sent # Len(BootstrapOps)
      /\ Archive!Commit(b, memory[t].known)
      /\ OnlyLoad(t, "committed", kept)
      /\ UNCHANGED <<browserVars, wire, outboxVars, late, phase, target>>
  BY DEF CommitBootstrapBatch, AllSent, PipelineIdle, OnlyLoad
<1>2. b.id = BootstrapOps[memory[t].sent + 1]
  BY DEF BootstrapBatch, Batch
<1>3. IsSequence(head.chain) /\ LoadKnows(t)
  BY DEF BootstrapSound, CapturesFlow
<1>4. /\ DOMAIN kept = {"sent", "next", "known", "pinned"}
      /\ kept.sent = memory[t].sent + 1 /\ kept.pinned = memory[t].pinned
  BY <1>3 DEF LoadKnows
<1> HIDE DEF b, kept
<1>5. /\ \E e : e.batch = b /\ Entries' = Entries \union {e}
      /\ IsSequence(head'.chain)
  BY <1>1, <1>3, CommitExtends
<1>6. CapturesFlow'
  BY <1>1, <1>5, SameMemories DEF BootstrapSound, outboxVars
<1>7. Entries \subseteq Entries' /\ Holds(head', memory[t].sent + 1)
  BY <1>2, <1>5 DEF Holds, Entries
<1>8. page'[t] = "committed" /\ memory'[t] = kept
  BY <1>1, <1>6, <1>7, LoadStep DEF Awaits
<1>9. kept.sent \in 0..Len(BootstrapOps)
      /\ \A i \in 1..kept.sent : i \in 1..memory[t].sent \/ i = memory[t].sent + 1
  BY <1>1, <1>3, <1>4, BatchesCounted DEF LoadKnows
<1>10. \A i \in 1..kept.sent : Holds(head', i)
  BY <1>3, <1>7, <1>9, HeldStays DEF LoadKnows
<1>11. LoadKnows(t)'
  BY <1>1, <1>3, <1>4, <1>8, <1>9, <1>10 DEF LoadKnows
<1>12. JournalKnows'
  BY <1>1, <1>7, HeldStays DEF BootstrapSound, JournalKnows
<1> QED
  BY <1>1, <1>6, <1>7, <1>11, <1>12, LoadStep DEF Awaits

LEMMA BootstrapInit == BootInit => BootstrapSound
<1> SUFFICES ASSUME BootInit PROVE BootstrapSound
  OBVIOUS
<1>1. outbox = {} /\ head.chain = <<>>
  BY DEF BootInit, Init, Archive!Init
<1>2. Memories /\ RowsCaptured
  BY <1>1, FS_EmptySet DEF BootInit, Init, Memories, RowsCaptured, Places
<1>3. \A t \in Tabs : TabCaptures(t)
  BY NoneQueued, NoOpIsNone DEF BootInit, Init, TabCaptures, Received
<1>4. CapturesFlow
  BY <1>1, <1>2, <1>3, NoneQueued DEF CapturesFlow
<1>5. page \in [Tabs -> Awaits] /\ memory = [t \in Tabs |-> memory[t]]
  BY DEF BootInit, Awaits
<1>6. ASSUME NEW t \in Tabs PROVE LoadKnows(t)
  <2>1. page[t] = "closed" /\ memory[t] = NoMemory
    BY DEF BootInit
  <2> QED
    BY <2>1, BatchesCounted DEF LoadKnows, NoMemory
<1> QED
  BY <1>4, <1>5, <1>6 DEF BootInit, BootstrapSound, JournalKnows

LEMMA BootstrapNext == BootstrapSound /\ [BootNext]_<<vars, bootVars>> => BootstrapSound'
<1> SUFFICES ASSUME BootstrapSound, [BootNext]_<<vars, bootVars>> PROVE BootstrapSound'
  OBVIOUS
<1>1. CASE UNCHANGED <<vars, bootVars>>
  <2>1. UNCHANGED <<browserVars, wire, outboxVars, archiveVars, bootVars>>
    BY <1>1 DEF vars
  <2> QED
    BY <2>1, IdleFlow, SameLoads DEF BootstrapSound
<1>2. CASE BootNext
  BY <1>2, OutsideSound, LeavingSound, GoingSound, LearningSound, CommitBootstrapSound
  DEF BootNext, Load, Bootstrap
<1> QED
  BY <1>1, <1>2

\* Whatever pages load at the same time and write the journal over each other's, it calls
\* no migration verified or committed whose generation lacks some of the browser's rows.
THEOREM VerifiedWhole == BootSpec => []VerifiedIsWhole
<1>1. BootstrapSound => VerifiedIsWhole
  BY DEF BootstrapSound, JournalKnows, VerifiedIsWhole
<1>2. [BootNext /\ Remember]_<<vars, bootVars, apart>> => [BootNext]_<<vars, bootVars>>
  OBVIOUS
<1> QED
  BY <1>1, <1>2, BootstrapInit, BootstrapNext, PTL DEF BootSpec

-----------------------------------------------------------------------------
\* With loads apart: while one page loads, no other sends a batch of the bootstrap.
LEMMA NoneTouched ==
  ASSUME Untouched
  PROVE  \A i \in DOMAIN BootstrapOps : ~ Holds(head, i)
  BY DEF Untouched, Holds, Entries, IsBootstrap

LEMMA StaysUntouched ==
  ASSUME Untouched, AddsCaptures
  PROVE  Untouched'
<1>1. \A e \in Entries' : ~ IsBootstrap(e.batch.id)
  BY DEF Untouched, AddsCaptures, IsCaptured
<1>2. \A q \in late' : ~ IsBootstrap(q.batch.id)
  BY DEF Untouched, AddsCaptures, IsCaptured
<1> QED
  BY <1>1, <1>2 DEF Untouched

LEMMA OutsideApart ==
  ASSUME BootstrapSound, ApartSound, LoadsApart',
         \/ UNCHANGED bootVars /\ (Earlier \/ Pair \/ \E r \in late : ServeLate(r))
         \/ \E t \in Tabs : Capture(t) \/ CloseInCall(t)
  PROVE  ApartSound'
<1>1. AddsCaptures
  BY OutsideFlow DEF BootstrapSound
<1>2. Whole(head) => Whole(head')
  BY <1>1, HeldStays DEF AddsCaptures
<1>3. UNCHANGED <<phase, pointer>>
  BY DEF Capture, CloseInCall, bootVars
<1>4. ASSUME NEW u \in Tabs
      PROVE  page'[u] = "closed" \/ (page'[u] = page[u] /\ memory'[u] = memory[u])
  BY DEF BootstrapSound, Capture, CloseInCall, Leaves, bootVars
<1>5. ASSUME NEW u \in Tabs PROVE LoadTells(u)'
  <2>1. LoadTells(u)
    BY DEF ApartSound
  <2> QED
    BY <1>1, <1>2, <1>3, <1>4, <2>1, StaysUntouched DEF LoadTells
<1>6. NoPartialBootstrapActive'
  BY <1>3 DEF ApartSound, NoPartialBootstrapActive
<1> QED
  BY <1>1, <1>3, <1>5, <1>6, StaysUntouched DEF ApartSound

\* The steps of a load that leave the archive and the late requests alone.
LEMMA QuietApart ==
  ASSUME BootstrapSound, ApartSound, LoadsApart', NEW t \in Tabs,
         UNCHANGED <<archiveVars, late>>,
         NEW place \in Awaits, NEW kept, OnlyLoad(t, place, kept),
         phase' = "none" => phase = "none", phase # "none" => phase' # "none",
         LoadTells(t)', NoPartialBootstrapActive'
  PROVE  ApartSound'
<1>1. head' = head /\ Untouched' = Untouched
  BY DEF archiveVars, Untouched, Entries
<1>2. ASSUME NEW u \in Tabs PROVE LoadTells(u)'
  <2>1. CASE u # t
    <3>1. LoadTells(u) /\ page'[u] = page[u] /\ memory'[u] = memory[u]
      BY <2>1 DEF ApartSound, BootstrapSound, OnlyLoad
    <3> QED
      BY <1>1, <3>1 DEF LoadTells
  <2> QED
    BY <2>1
<1> QED
  BY <1>1, <1>2 DEF ApartSound

LEMMA AtTab ==
  ASSUME BootstrapSound, NEW t \in Tabs, NEW place, NEW kept, OnlyLoad(t, place, kept)
  PROVE  page'[t] = place /\ memory'[t] = kept
  BY DEF BootstrapSound, OnlyLoad

\* The steps before anything is sent.
LEMMA LookingApart ==
  ASSUME BootstrapSound, ApartSound, LoadsApart', NEW t \in Tabs,
         Recover(t) \/ FindPointer(t) \/ Check(t)
  PROVE  ApartSound'
<1>1. UNCHANGED <<archiveVars, late, pointer>>
  BY DEF Recover, FindPointer, Check, PipelineIdle
<1>2. head' = head /\ Untouched' = Untouched
  BY <1>1 DEF archiveVars, Untouched, Entries
<1>3. LoadTells(t) /\ NoPartialBootstrapActive' /\ LoadKnows(t)
  BY <1>1 DEF BootstrapSound, ApartSound, NoPartialBootstrapActive
<1>4. CASE Recover(t)
  <2>1. /\ page[t] = "closed" /\ ~ Interrupted
        /\ OnlyLoad(t, "recovered", memory[t])
        /\ phase' = (IF phase = "browser_verified" THEN "committed" ELSE phase)
    BY <1>4, GoesIs DEF Recover, Opens
  <2>2. page'[t] = "recovered" /\ memory'[t] = memory[t]
    BY <2>1, AtTab
  <2>3. phase \in {"none", "committed"} \/ (phase = "browser_verified" /\ target = pointer)
    BY <2>1 DEF Interrupted
  <2>4. Untouched \/ Whole(head)
    <3>1. CASE phase = "none"
      BY <3>1 DEF ApartSound
    <3>2. CASE phase \in {"committed", "browser_verified"}
      BY <3>2 DEF BootstrapSound, JournalKnows
    <3> QED
      BY <2>3, <3>1, <3>2
  <2>5. LoadTells(t)'
    BY <1>2, <2>2, <2>4 DEF LoadTells
  <2> QED
    BY <1>1, <1>3, <2>1, <2>5, QuietApart DEF Awaits
<1>5. CASE FindPointer(t) \/ Check(t)
  <2>1. /\ page[t] \in {"recovered", "checking"}
        /\ \/ /\ \E place \in {"checking", "projecting"} : OnlyLoad(t, place, memory[t])
              /\ phase' = phase
           \/ OnlyLoad(t, "planned", memory[t]) /\ phase' = "planned"
    BY <1>5, GoesIs DEF FindPointer, Check, WriteJournal
  <2>2. memory[t].pinned = Unknown
    BY <1>3, <2>1 DEF LoadKnows
  <2>3. CASE OnlyLoad(t, "planned", memory[t]) /\ phase' = "planned"
    <3>1. page'[t] = "planned" /\ memory'[t] = memory[t]
      BY <2>3, AtTab
    <3>2. LoadTells(t)'
      BY <2>3, <3>1 DEF LoadTells
    <3> QED
      BY <1>1, <1>3, <2>3, <3>2, QuietApart DEF Awaits
  <2>4. ASSUME NEW place \in {"checking", "projecting"}, OnlyLoad(t, place, memory[t]),
               phase' = phase
        PROVE  ApartSound'
    <3>1. page'[t] = place /\ memory'[t] = memory[t]
      BY <2>4, AtTab
    <3>2. LoadTells(t)'
      BY <1>2, <1>3, <2>1, <2>2, <3>1 DEF LoadTells
    <3> QED
      BY <1>1, <1>3, <2>4, <3>2, QuietApart DEF Awaits
  <2> QED
    BY <2>1, <2>3, <2>4
<1> QED
  BY <1>4, <1>5

\* The steps of a bootstrap that leave the archive and the late requests alone.
LEMMA BootstrapApart ==
  ASSUME BootstrapSound, ApartSound, LoadsApart', NEW t \in Tabs,
         \/ Preflight(t) \/ ReadRows(t) \/ ReceiveReceipt(t) \/ BeginRebuild(t)
         \/ JournalVerified(t)
  PROVE  ApartSound'
<1>1. UNCHANGED <<archiveVars, late, pointer>>
  BY DEF Preflight, ReadRows, ReceiveReceipt, BeginRebuild, JournalVerified, PipelineIdle
<1>2. NoPartialBootstrapActive'
  BY <1>1 DEF ApartSound, NoPartialBootstrapActive
<1>3. phase # "none" /\ phase' # "none"
  BY DEF Preflight, ReadRows, ReceiveReceipt, BeginRebuild, JournalVerified, WriteJournal,
         ApartSound, LoadTells
<1>4. PICK place, kept :
        place \in {"preflighted", "staging", "rebuilding", "verified"} /\ OnlyLoad(t, place, kept)
  <2>1. CASE Preflight(t)
    <3>1. OnlyLoad(t, "preflighted", [NoMemory EXCEPT !.known = head])
      BY <2>1 DEF Preflight, OnlyLoad
    <3> QED
      BY <3>1
  <2>2. CASE ReadRows(t) \/ ReceiveReceipt(t) \/ BeginRebuild(t) \/ JournalVerified(t)
    BY <2>2, GoesIs DEF ReadRows, ReceiveReceipt, BeginRebuild, JournalVerified
  <2> QED
    BY <2>1, <2>2
<1>5. LoadTells(t)'
  BY <1>3, <1>4, AtTab DEF LoadTells
<1> QED
  BY <1>1, <1>2, <1>3, <1>4, <1>5, QuietApart DEF Awaits

LEMMA LeavingApart ==
  ASSUME BootstrapSound, ApartSound, LoadsApart', NEW t \in Tabs,
         LoadBlocked(t) \/ LoadDeferred(t) \/ JournalCommitted(t)
  PROVE  ApartSound'
<1>1. /\ UNCHANGED <<archiveVars, late, pointer>>
      /\ OnlyLoad(t, "ready", NoMemory)
  BY LeavesIs DEF LoadBlocked, LoadDeferred, JournalCommitted, PipelineIdle
<1>2. NoPartialBootstrapActive'
  BY <1>1 DEF ApartSound, NoPartialBootstrapActive
<1>3. phase' = phase \/ (phase # "none" /\ phase' # "none")
  BY DEF LoadBlocked, LoadDeferred, JournalCommitted, Interrupted, WriteJournal, ApartSound,
         LoadTells
<1>4. LoadTells(t)'
  BY <1>1, AtTab DEF LoadTells
<1> QED
  BY <1>1, <1>2, <1>3, <1>4, QuietApart DEF Awaits

\* A generation is pinned and activated.
LEMMA RebuildApart ==
  ASSUME BootstrapSound, ApartSound, LoadsApart', NEW t \in Tabs,
         PinArchive(t) \/ ActivateRebuilt(t) \/ ActivateProjected(t)
  PROVE  ApartSound'
<1>1. UNCHANGED <<archiveVars, late, phase>>
  BY DEF PinArchive, ActivateRebuilt, ActivateProjected, PipelineIdle
<1>2. head' = head /\ Untouched' = Untouched
  BY <1>1 DEF archiveVars, Untouched, Entries
<1>3. LoadTells(t) /\ LoadKnows(t) /\ NoPartialBootstrapActive
  BY DEF BootstrapSound, ApartSound
<1>4. CASE PinArchive(t)
  <2> DEFINE kept == [memory[t] EXCEPT !.pinned = head]
  <2>1. /\ page[t] \in {"rebuilding", "projecting"}
        /\ memory' = [memory EXCEPT ![t] = kept] /\ UNCHANGED <<page, pointer>>
    BY <1>4 DEF PinArchive
  <2>2. page' = [page EXCEPT ![t] = page[t]] /\ page[t] \in Awaits
    BY <2>1 DEF BootstrapSound
  <2>3. OnlyLoad(t, page[t], kept)
    BY <2>1, <2>2 DEF OnlyLoad
  <2>4. kept.pinned = head
    BY <1>3 DEF LoadKnows
  <2> HIDE DEF kept
  <2>5. page'[t] = page[t] /\ memory'[t] = kept
    BY <2>3, AtTab
  <2>6. page[t] = "projecting" => WholeOrNone(head)
    BY <1>3, NoneTouched DEF LoadTells, WholeOrNone
  <2>7. LoadTells(t)'
    BY <1>1, <1>2, <1>3, <2>4, <2>5, <2>6 DEF LoadTells
  <2>8. NoPartialBootstrapActive'
    BY <1>3, <2>1 DEF NoPartialBootstrapActive
  <2> QED
    BY <1>1, <2>2, <2>3, <2>7, <2>8, QuietApart
<1>5. CASE ActivateRebuilt(t) \/ ActivateProjected(t)
  <2>1. /\ page[t] \in {"rebuilding", "projecting"} /\ memory[t].pinned # Unknown
        /\ pointer' = Generation(t)
    BY <1>5 DEF ActivateRebuilt, ActivateProjected
  <2>2. PICK place, kept :
          /\ place \in {"activated", "ready"} /\ OnlyLoad(t, place, kept)
          /\ place = "ready" \/ page[t] = "rebuilding"
    BY <1>5, GoesIs, LeavesIs DEF ActivateRebuilt, ActivateProjected
  <2>3. WholeOrNone(memory[t].pinned)
    BY <1>3, <2>1 DEF LoadTells, LoadKnows, WholeOrNone
  <2>4. NoPartialBootstrapActive'
    BY <2>1, <2>3 DEF NoPartialBootstrapActive, WholeOrNone, Generation
  <2>5. LoadTells(t)'
    BY <1>1, <1>3, <2>2, AtTab DEF LoadTells
  <2> QED
    BY <1>1, <2>2, <2>4, <2>5, QuietApart DEF Awaits
<1> QED
  BY <1>4, <1>5

\* The steps that send: the load is the only one, and there is a journal.
LEMMA SendingApart ==
  ASSUME BootstrapSound, ApartSound, LoadsApart', NEW t \in Tabs,
         CommitBootstrapBatch(t) \/ BootstrapFails(t) \/ Close(t)
  PROVE  ApartSound'
<1>1. pointer' = pointer
  BY DEF CommitBootstrapBatch, BootstrapFails, Close
<1>2. NoPartialBootstrapActive'
  BY <1>1 DEF ApartSound, NoPartialBootstrapActive
<1>3. PICK place, kept : place \in {"committed", "ready", "closed"} /\ OnlyLoad(t, place, kept)
  <2>1. CASE CommitBootstrapBatch(t)
    <3>1. PICK kept : OnlyLoad(t, "committed", kept)
      BY <2>1 DEF CommitBootstrapBatch, OnlyLoad
    <3> QED
      BY <3>1
  <2>2. CASE BootstrapFails(t) \/ Close(t)
    BY <2>2, LeavesIs DEF BootstrapFails, Close
  <2> QED
    BY <2>1, <2>2
<1>4. /\ page'[t] = place
      /\ \A u \in Tabs : u # t => page'[u] = page[u] /\ memory'[u] = memory[u]
  BY <1>3 DEF BootstrapSound, OnlyLoad
<1>5. phase' = phase \/ (phase # "none" /\ phase' # "none")
  BY DEF CommitBootstrapBatch, BootstrapFails, Close, WriteJournal, ApartSound, LoadTells
<1>6. CASE page[t] \in {"closed", "ready", "recovered", "checking", "projecting"}
  <2>1. Close(t) /\ late' = late /\ UNCHANGED archiveVars
    BY <1>6 DEF CommitBootstrapBatch, BootstrapFails, Close, AbandonExchange
  <2>2. LoadTells(t)'
    BY <1>4, <2>1 DEF LoadTells, Close, Leaves, BootstrapSound
  <2> QED
    BY <1>2, <1>3, <1>5, <2>1, <2>2, QuietApart DEF Awaits
<1>7. CASE page[t] \notin {"closed", "ready", "recovered", "checking", "projecting"}
  <2>1. phase # "none" /\ phase' # "none"
    BY <1>5, <1>7 DEF ApartSound, LoadTells
  <2>2. ASSUME NEW u \in Tabs, u # t PROVE page'[u] \in {"closed", "ready"}
    <3>1. page[u] \in {"closed", "ready"}
      BY <1>7, <2>2 DEF ApartSound, LoadsApart
    <3> QED
      BY <1>4, <2>2, <3>1
  <2>3. ASSUME NEW u \in Tabs PROVE LoadTells(u)'
    <3>1. page'[u] \in {"committed", "closed", "ready"}
      BY <1>3, <1>4, <2>2
    <3> QED
      BY <2>1, <3>1 DEF LoadTells
  <2> QED
    BY <1>2, <2>1, <2>3 DEF ApartSound
<1> QED
  BY <1>6, <1>7

LEMMA ApartInit == BootInit => ApartSound
<1> SUFFICES ASSUME BootInit PROVE ApartSound
  OBVIOUS
<1>1. late = {} /\ head.chain = <<>> /\ \A t \in Tabs : page[t] = "closed"
  BY DEF BootInit, Init, Archive!Init
<1>2. Untouched
  BY <1>1, NoneQueued DEF Untouched, Entries
<1> QED
  BY <1>1, <1>2 DEF BootInit, ApartSound, LoadsApart, LoadTells, NoPartialBootstrapActive

LEMMA ApartNext ==
  BootstrapSound /\ ApartSound /\ [BootNext /\ LoadsApart']_<<vars, bootVars>> => ApartSound'
<1> SUFFICES ASSUME BootstrapSound, ApartSound, [BootNext /\ LoadsApart']_<<vars, bootVars>>
             PROVE  ApartSound'
  OBVIOUS
<1>1. CASE UNCHANGED <<vars, bootVars>>
  <2>1. UNCHANGED <<head, late, bootVars>>
    BY <1>1 DEF vars, archiveVars
  <2>2. Untouched' = Untouched
    BY <2>1 DEF Untouched, Entries
  <2>3. \A t \in Tabs : LoadTells(t)'
    BY <2>1, <2>2 DEF ApartSound, LoadTells, bootVars
  <2> QED
    BY <2>1, <2>2, <2>3 DEF ApartSound, LoadsApart, NoPartialBootstrapActive, bootVars
<1>2. CASE BootNext /\ LoadsApart'
  BY <1>2, OutsideApart, LookingApart, BootstrapApart, LeavingApart, RebuildApart, SendingApart
  DEF BootNext, Load, Bootstrap
<1> QED
  BY <1>1, <1>2

LEMMA StaysApart ==
  BootstrapSound /\ (apart => ApartSound) /\ [BootNext /\ Remember]_<<vars, bootVars, apart>>
    => (apart' => ApartSound')
<1> SUFFICES ASSUME BootstrapSound, apart => ApartSound,
                    [BootNext /\ Remember]_<<vars, bootVars, apart>>, apart'
             PROVE  ApartSound'
  OBVIOUS
<1>1. CASE UNCHANGED <<vars, bootVars, apart>>
  <2>1. apart
    BY <1>1, Zenon
  <2> QED
    BY <1>1, <2>1, ApartNext
<1>2. CASE BootNext /\ Remember
  <2>1. apart /\ LoadsApart'
    BY <1>2, Zenon DEF Remember
  <2> QED
    BY <1>2, <2>1, ApartNext
<1> QED
  BY <1>1, <1>2

\* As long as no two pages have loaded at the same time: wherever a bootstrap is
\* interrupted, and whatever ready tabs, other browsers and late requests commit meanwhile,
\* the active generation holds all of the browser's rows or none.
THEOREM NoPartialBootstrap == BootSpec => []NoPartialBootstrapApart
<1>1. BootInit => BootstrapSound /\ (apart => ApartSound)
  BY BootstrapInit, ApartInit
<1>2. [BootNext /\ Remember]_<<vars, bootVars, apart>> => [BootNext]_<<vars, bootVars>>
  OBVIOUS
<1>3. (apart => ApartSound) => NoPartialBootstrapApart
  BY DEF ApartSound, NoPartialBootstrapApart
<1> QED
  BY <1>1, <1>2, <1>3, BootstrapNext, StaysApart, PTL DEF BootSpec
=============================================================================

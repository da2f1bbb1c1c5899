------------------------- MODULE ArchiveRestoreProofs -------------------------
(***************************************************************************)
(* Proofs about ArchiveRestore, for any streams, keys, batches, page sizes *)
(* and any number of restores, snapshots, destructions and crashes.        *)
(*                                                                         *)
(* One condition is assumed, OwnPast: when a restore switches, the head of *)
(* its snapshot is a boundary of the active archive.  The code compares    *)
(* the archive's identity and the two sequences only, and both survive a   *)
(* destruction and a roll-back, so the condition can fail; PastIsOwn says  *)
(* when it cannot.  Under it the merge of a restore rebuilds the active    *)
(* database but for the current state, and everything else follows.        *)
(*                                                                         *)
(*   - Exact(db): head, receipts and checkpoints are those of one chain of *)
(*     batches, the journal holds their rows, the streams are contiguous,  *)
(*     and each record of the current state is a row of its key.           *)
(*   - CatchesUp: a key whose record is not the last row of its key will   *)
(*     be written by the restore, from its queue or from what it has not   *)
(*     read yet.                                                           *)
(*   - Rewinds: a key no client wrote since the switch shows what the      *)
(*     snapshot shows, and so does whatever is queued for it.              *)
(*                                                                         *)
(* The lemmas go from batches and chains (a commit grows an exact          *)
(* database) over ORDER BY and the merge to one lemma for every action.    *)
(***************************************************************************)
EXTENDS ArchiveRestore, FiniteSetTheorems, SequenceTheorems, WellFoundedInduction, TLAPS

\* What clients and restores send.
Senders == Streams \union Epochs

RestoreIds == [epoch : Epochs, n : Nat \ {0}, of : MutationIds \union {NoRecord}]

SentMutation == [mid : MutationIds \union RestoreIds, key : Keys, kind : Archive!Kinds]

RestoreBatches ==
  {b \in [id : [epoch : Epochs, from : Nat \ {0}], client : Epochs, from : Nat \ {0},
          muts : Seq(SentMutation)] :
     /\ Len(b.muts) >= 1
     /\ \A i, j \in 1..Len(b.muts) : b.muts[i].mid = b.muts[j].mid => i = j}

SentBatches == Batches \union RestoreBatches

JournalRow ==
  [batch : {b.id : b \in Batches} \union [epoch : Epochs, from : Nat \ {0}], client : Senders, cseq : Nat \ {0},
   mid : MutationIds \union RestoreIds, key : Keys, kind : Archive!Kinds]

Link == [batch : SentBatches, from : Nat \ {0}, to : Nat]

-----------------------------------------------------------------------------
\* A database is exact when its chain of batches says all but its current state.
EndOf(c, i) == IF i = 0 THEN 0 ELSE c[i].to

BoundaryAt(c, i) == [seq |-> EndOf(c, i), chain |-> SubSeq(c, 1, i)]

ReceiptAt(c, i) ==
  [batch |-> c[i].batch, from |-> c[i].from, to |-> c[i].to,
   prior |-> SubSeq(c, 1, i - 1), chain |-> SubSeq(c, 1, i)]

\* The links of a chain follow each other.
Linked(c) ==
  /\ c \in Seq(Link)
  /\ \A i \in 1..Len(c) : /\ c[i].from = EndOf(c, i - 1) + 1
                          /\ c[i].to = EndOf(c, i - 1) + Len(c[i].batch.muts)
  /\ \A i, j \in 0..Len(c) : i <= j => EndOf(c, i) <= EndOf(c, j)
  /\ \A i, j \in 1..Len(c) : c[i].batch.id = c[j].batch.id => i = j

\* Head, receipts and checkpoints are those of the chain.
Chained(db) ==
  LET c == db.head.chain IN
  /\ Linked(c)
  /\ db.head = BoundaryAt(c, Len(c))
  /\ db.receipts = {ReceiptAt(c, i) : i \in 1..Len(c)}
  /\ db.checkpoints = {BoundaryAt(c, i) : i \in 0..Len(c)}

\* The journal holds the rows of the chain's batches, one row of each identity.
Filled(j, c) ==
  /\ j \in Seq(JournalRow)
  /\ Len(j) = EndOf(c, Len(c))
  /\ \A n \in 1..Len(j) : \E i \in 1..Len(c) : c[i].from <= n /\ n <= c[i].to
  /\ \A i \in 1..Len(c) : \A m \in 1..Len(c[i].batch.muts) :
       j[EndOf(c, i - 1) + m] = Archive!JournalRows(c[i].batch)[m]
  /\ \A n, m \in 1..Len(j) : j[n].mid = j[m].mid => n = m

\* Every stream is contiguous in the journal.
InStreams(db) ==
  LET j == db.journal IN
  /\ db.admitted \subseteq Senders
  /\ db.lastSeq \in [Senders -> Nat]
  /\ \A c \in Senders \ db.admitted : db.lastSeq[c] = 0
  /\ \A c \in Senders :
       /\ \A n \in 1..Len(j) : j[n].client = c => j[n].cseq <= db.lastSeq[c]
       /\ \A s \in 1..db.lastSeq[c] : \E n \in 1..Len(j) : j[n].client = c /\ j[n].cseq = s
       /\ \A n, m \in 1..Len(j) :
            j[n].client = c /\ j[m].client = c /\ n < m => j[n].cseq < j[m].cseq

\* A record of the current state is a row of the journal, if not the last one of its key.
Points(s, j) ==
  /\ s \in [Keys -> [kind : Archive!Kinds, seq : Nat] \union {NoRecord}]
  /\ \A k \in Keys : s[k] # NoRecord => /\ s[k].seq \in 1..Len(j)
                                        /\ j[s[k].seq].key = k
                                        /\ j[s[k].seq].kind = s[k].kind

Fields == {"admitted", "lastSeq", "journal", "stateRecords", "receipts", "checkpoints",
           "head", "retainedFrom", "namespace", "audit"}

Exact(db) ==
  /\ DOMAIN db = Fields
  /\ db.namespace = TRUE
  /\ Chained(db)
  /\ Filled(db.journal, db.head.chain)
  /\ InStreams(db)
  /\ Points(db.stateRecords, db.journal)

Unpaired(db) ==
  /\ db.namespace = FALSE
  /\ db.admitted = {} 
  /\ db.lastSeq = [c \in Senders |-> 0]
  /\ db.journal = <<>>
  /\ db.stateRecords = [k \in Keys |-> NoRecord]
  /\ db.receipts = {}
  /\ db.checkpoints = {}
  /\ db.head = [seq |-> 0, chain |-> <<>>]

Proper(db) == Exact(db) \/ Unpaired(db)

\* The record of a key is the last row of the journal that names it.
IsCurrent(k, s, j) ==
  /\ s[k] = NoRecord => \A n \in 1..Len(j) : j[n].key # k
  /\ s[k] # NoRecord => \A n \in 1..Len(j) : j[n].key = k => n <= s[k].seq

Replayed(db) == \A k \in Keys : IsCurrent(k, db.stateRecords, db.journal)

-----------------------------------------------------------------------------
Image(i) == Exact(i.db) /\ DOMAIN i = {"id", "archive", "db"}

AgentFields == {"epoch", "snap", "retained", "source", "cursor", "queue", "next", "known"}

\* What the agent will still write.
Writes(k) == \E i \in 1..Len(agent.queue) : agent.queue[i].key = k

AgentSound ==
  /\ DOMAIN agent = AgentFields
  /\ agent.epoch \in Epochs
  /\ Image(agent.snap)
  /\ agent.source \in {"snapshot", "current", "done"}
  /\ agent.cursor \in Nat
  /\ agent.next \in Nat \ {0}
  /\ agent.queue \in Seq(SentMutation)
  /\ \A i \in 1..Len(agent.queue) :
       /\ agent.queue[i].mid \in RestoreIds
       /\ agent.queue[i].mid.epoch = agent.epoch
       /\ agent.queue[i].mid.n = agent.next + i - 1
  /\ pc # "append" => agent.source = "snapshot" /\ agent.cursor = 0 /\ agent.queue = <<>>
  /\ Restoring => /\ Exact(agent.retained)
                  /\ agent.retained = [f \in Fields |-> agent.retained[f]]

\* A key whose record is not the last row of the journal will be written.
Pending(k) ==
  \/ Writes(k)
  \/ agent.source = "snapshot" /\ stateRecords[k] # NoRecord /\ agent.cursor < Rank[k]
  \/ /\ stateRecords[k] = NoRecord /\ agent.retained.stateRecords[k] # NoRecord
     /\ \/ agent.source = "snapshot"
        \/ agent.source = "current" /\ agent.cursor < Rank[k]

CatchesUp ==
  /\ pc = "idle" \/ pc = "staged" => Replayed(Active)
  /\ Restoring => /\ Replayed(agent.retained)
                  /\ \A k \in Keys : IsCurrent(k, stateRecords, journal) \/ Pending(k)

\* What the restore's end will show.
Rewinds ==
  Restoring =>
    \A k \in Keys \ touched :
      /\ Shown(Active, k) = Shown(agent.snap.db, k)
      /\ \A i \in 1..Len(agent.queue) :
           agent.queue[i].key = k =>
             Shown(agent.snap.db, k) =
               IF agent.queue[i].kind = "tombstone" THEN NoRecord ELSE agent.queue[i].mid.of

IInv ==
  /\ pc \in {"idle", "staged", "switched", "append"}
  /\ Proper(Active)
  /\ namespace \in BOOLEAN
  /\ \A s \in snapshots : Image(s)
  /\ writing = NoImage \/ Image(writing)
  /\ pc # "idle" => AgentSound
  /\ ~ interrupted => CatchesUp
  /\ touched \subseteq Keys
  /\ Rewinds

\* The snapshot a restore goes back to is of the archive's own past.
OwnPast == pc = "staged" /\ CanSwitch => agent.snap.db.head \in checkpoints
-----------------------------------------------------------------------------
\* What a client or a restore sends is a batch: rows of distinct mutations, numbered.
LEMMA BatchFacts ==
  ASSUME NEW b \in SentBatches
  PROVE  /\ b.client \in Senders
         /\ b.from \in Nat \ {0}
         /\ Len(b.muts) \in Nat \ {0}
         /\ b.muts \in Seq(SentMutation)
         /\ \A i \in 1..Len(b.muts) : b.muts[i] \in SentMutation
         /\ \A i, j \in 1..Len(b.muts) : b.muts[i].mid = b.muts[j].mid => i = j
         /\ b.id \in {c.id : c \in Batches} \union [epoch : Epochs, from : Nat \ {0}]
<1>1. CASE b \in Batches
  <2>1. Archive!WellFormed(b) /\ b.client \in Streams
    BY <1>1, ClientsAssumption
  <2>2. b.muts \in Seq(Archive!Mutation) /\ Len(b.muts) >= 1 /\ b.from \in Nat \ {0}
    BY <2>1 DEF Archive!WellFormed
  <2>3. Archive!Mutation \subseteq SentMutation
    BY DEF Archive!Mutation, SentMutation
  <2>4. Len(b.muts) \in Nat \ {0} /\ b.muts \in [1..Len(b.muts) -> Archive!Mutation]
    BY <2>2, LenProperties
  <2>5. b.muts \in [1..Len(b.muts) -> SentMutation]
    BY <2>3, <2>4
  <2>6. b.muts \in Seq(SentMutation)
    BY <2>4, <2>5, SeqDef
  <2> QED
    BY <1>1, <2>1, <2>2, <2>4, <2>5, <2>6 DEF Archive!WellFormed, Senders
<1>2. CASE b \in RestoreBatches
  <2>1. /\ b.muts \in Seq(SentMutation) /\ Len(b.muts) >= 1
        /\ b.client \in Epochs /\ b.from \in Nat \ {0} /\ b.id \in [epoch : Epochs, from : Nat \ {0}]
    BY <1>2 DEF RestoreBatches
  <2>2. /\ Len(b.muts) \in Nat \ {0}
        /\ \A i \in 1..Len(b.muts) : b.muts[i] \in SentMutation
    BY <2>1, LenProperties, ElementOfSeq
  <2> QED
    BY <1>2, <2>1, <2>2 DEF RestoreBatches, Senders
<1> QED
  BY <1>1, <1>2 DEF SentBatches

\* The journal rows a commit writes (_commit_batch) are the batch's mutations, in order.
LEMMA RowsFacts ==
  ASSUME NEW b \in SentBatches
  PROVE  /\ Archive!JournalRows(b) \in Seq(JournalRow)
         /\ Len(Archive!JournalRows(b)) = Len(b.muts)
         /\ \A i \in 1..Len(b.muts) :
              /\ Archive!JournalRows(b)[i].mid = b.muts[i].mid
              /\ Archive!JournalRows(b)[i].key = b.muts[i].key
              /\ Archive!JournalRows(b)[i].kind = b.muts[i].kind
              /\ Archive!JournalRows(b)[i].client = b.client
              /\ Archive!JournalRows(b)[i].cseq = b.from + i - 1
<1> DEFINE n == Len(b.muts)
           rows == Archive!JournalRows(b)
<1>1. /\ n \in Nat /\ b.client \in Senders /\ b.from \in Nat \ {0}
      /\ b.id \in {c.id : c \in Batches} \union [epoch : Epochs, from : Nat \ {0}]
      /\ \A i \in 1..n : b.muts[i] \in SentMutation
  BY BatchFacts
<1>2. ASSUME NEW i \in 1..n
      PROVE  /\ rows[i] = [batch |-> b.id, client |-> b.client, cseq |-> b.from + i - 1,
                   mid |-> b.muts[i].mid, key |-> b.muts[i].key, kind |-> b.muts[i].kind]
             /\ rows[i] \in JournalRow
  <2>1. b.from + i - 1 \in Nat \ {0}
    BY <1>1
  <2>2. /\ b.muts[i].mid \in MutationIds \union RestoreIds
        /\ b.muts[i].key \in Keys /\ b.muts[i].kind \in Archive!Kinds
    BY <1>1 DEF SentMutation
  <2>3. rows[i] = [batch |-> b.id, client |-> b.client, cseq |-> b.from + i - 1,
                   mid |-> b.muts[i].mid, key |-> b.muts[i].key, kind |-> b.muts[i].kind]
    BY DEF Archive!JournalRows
  <2> QED
    BY <1>1, <2>1, <2>2, <2>3 DEF JournalRow
<1>3. rows \in [1..n -> JournalRow]
  BY <1>2 DEF Archive!JournalRows
<1>4. rows \in Seq(JournalRow)
  BY <1>1, <1>3, SeqDef
<1>5. Len(rows) = n
  BY <1>1, <1>3, <1>4, LenProperties
<1> HIDE DEF rows
<1>6. ASSUME NEW i \in 1..n
      PROVE  /\ rows[i].mid = b.muts[i].mid /\ rows[i].key = b.muts[i].key
             /\ rows[i].kind = b.muts[i].kind
             /\ rows[i].client = b.client /\ rows[i].cseq = b.from + i - 1
  <2>1. rows[i] = [batch |-> b.id, client |-> b.client, cseq |-> b.from + i - 1,
                   mid |-> b.muts[i].mid, key |-> b.muts[i].key, kind |-> b.muts[i].kind]
    BY <1>2
  <2> QED
    BY <2>1
<1> QED
  BY <1>4, <1>5, <1>6 DEF rows

\* A non-empty bounded set of naturals has a greatest element.
LEMMA GreatestExists ==
  ASSUME NEW n \in Nat, NEW T, T \subseteq 0..n, T # {}
  PROVE  \E i \in T : \A j \in T : j <= i
<1> DEFINE R == {p \in Nat \X Nat : p[1] < p[2]}
           Below == {n - i : i \in T}
<1>1. IsWellFoundedOn(R, Nat)
  BY NatLessThanWellFounded DEF OpToRel
<1>2. Below \subseteq Nat /\ Below # {}
  <2>1. \A i \in T : i \in 0..n /\ n - i \in Nat
    OBVIOUS
  <2>2. PICK i \in T : TRUE
    OBVIOUS
  <2>3. n - i \in Below
    BY <2>2
  <2> QED
    BY <2>1, <2>3
<1>3. PICK x \in Below : \A y \in Below : ~ (<<y, x>> \in R)
  BY <1>1, <1>2, WFMin
<1>4. PICK i \in T : x = n - i
  OBVIOUS
<1>5. ASSUME NEW j \in T PROVE j <= i
  <2>1. n - j \in Below /\ n - j \in Nat /\ x \in Nat
    BY <1>2
  <2>2. ~ (n - j < x)
    BY <1>3, <2>1
  <2> QED
    BY <1>4, <2>2
<1> QED
  BY <1>5

\* The current state of a key is written by the batch's last mutation of that key.
LEMMA LastOnFacts ==
  ASSUME NEW b \in SentBatches, NEW k, Archive!Touches(b, k)
  PROVE  /\ Archive!LastOn(b, k) \in 1..Len(b.muts)
         /\ b.muts[Archive!LastOn(b, k)].key = k
         /\ \A j \in 1..Len(b.muts) : b.muts[j].key = k => j <= Archive!LastOn(b, k)
<1> DEFINE T == {i \in 1..Len(b.muts) : b.muts[i].key = k}
<1>1. Len(b.muts) \in Nat
  BY BatchFacts
<1>2. T \subseteq 0..Len(b.muts) /\ T # {}
  BY <1>1 DEF Archive!Touches
<1>3. \E i \in T : \A j \in T : j <= i
  BY <1>1, <1>2, GreatestExists
<1>4. \E i \in 1..Len(b.muts) :
        /\ b.muts[i].key = k
        /\ \A j \in 1..Len(b.muts) : b.muts[j].key = k => j <= i
  BY <1>3
<1> QED
  BY <1>4 DEF Archive!LastOn

-----------------------------------------------------------------------------
\* Chains.
LEMMA LinkFacts ==
  ASSUME NEW c, Linked(c)
  PROVE  /\ Len(c) \in Nat /\ c \in Seq(Link)
         /\ \A i \in 1..Len(c) : /\ c[i] \in Link /\ c[i].batch \in SentBatches
                                 /\ c[i].from \in Nat \ {0} /\ c[i].to \in Nat
                                 /\ Len(c[i].batch.muts) \in Nat \ {0}
                                 /\ c[i] = [batch |-> c[i].batch, from |-> c[i].from, to |-> c[i].to]
         /\ \A i \in 0..Len(c) : EndOf(c, i) \in Nat
<1>1. c \in Seq(Link) /\ Len(c) \in Nat /\ \A i \in 1..Len(c) : c[i] \in Link
  BY LenProperties, ElementOfSeq DEF Linked
<1>2. \A i \in 1..Len(c) : /\ c[i].batch \in SentBatches
                           /\ c[i].from \in Nat \ {0} /\ c[i].to \in Nat
                           /\ c[i] = [batch |-> c[i].batch, from |-> c[i].from, to |-> c[i].to]
  BY <1>1 DEF Link
<1>3. \A i \in 1..Len(c) : Len(c[i].batch.muts) \in Nat \ {0}
  BY <1>2, BatchFacts
<1>4. ASSUME NEW i \in 0..Len(c) PROVE EndOf(c, i) \in Nat
  <2>1. i # 0 => i \in 1..Len(c)
    BY <1>1
  <2> QED
    BY <1>2, <2>1 DEF EndOf
<1> QED
  BY <1>1, <1>2, <1>3, <1>4

\* The link of a batch at a chain's end, and the chain with it.
LinkAfter(c, b) ==
  [batch |-> b, from |-> EndOf(c, Len(c)) + 1, to |-> EndOf(c, Len(c)) + Len(b.muts)]

Extended(d, c, e, n) ==
  /\ Linked(d) /\ Len(d) = n + 1
  /\ EndOf(d, n + 1) = e.to
  /\ \A i \in 0..n : EndOf(d, i) = EndOf(c, i) /\ BoundaryAt(d, i) = BoundaryAt(c, i)
  /\ \A i \in 1..n : d[i] = c[i] /\ ReceiptAt(d, i) = ReceiptAt(c, i)
  /\ d[n + 1] = e
  /\ BoundaryAt(d, n + 1) = [seq |-> e.to, chain |-> d]
  /\ ReceiptAt(d, n + 1) =
       [batch |-> e.batch, from |-> e.from, to |-> e.to, prior |-> c, chain |-> d]

\* A batch that no link of a chain holds makes the chain one link longer.
LEMMA ChainGrows ==
  ASSUME NEW c, Linked(c), NEW b \in SentBatches,
         \A i \in 1..Len(c) : c[i].batch.id # b.id
  PROVE  Extended(Append(c, LinkAfter(c, b)), c, LinkAfter(c, b), Len(c))
<1>1. PICK n, m, e, d : /\ n = Len(c) /\ m = Len(b.muts)
                        /\ e = LinkAfter(c, b) /\ d = Append(c, e)
  OBVIOUS
<1>2. /\ n \in Nat /\ c \in Seq(Link) /\ m \in Nat \ {0}
      /\ \A i \in 0..n : EndOf(c, i) \in Nat
  BY <1>1, LinkFacts, BatchFacts
<1>3. /\ e \in Link /\ e.batch = b /\ e.from = EndOf(c, n) + 1 /\ e.to = EndOf(c, n) + m
      /\ e.to \in Nat
  <2>1. n \in 0..n /\ e = [batch |-> b, from |-> EndOf(c, n) + 1, to |-> EndOf(c, n) + m]
    BY <1>1, <1>2 DEF LinkAfter
  <2>2. EndOf(c, n) + 1 \in Nat \ {0} /\ EndOf(c, n) + m \in Nat
    BY <1>2, <2>1
  <2> QED
    BY <2>1, <2>2 DEF Link
<1>4. /\ d \in Seq(Link) /\ Len(d) = n + 1 /\ d[n + 1] = e
      /\ \A i \in 1..n : d[i] = c[i]
  BY <1>1, <1>2, <1>3, AppendProperties
<1>5. /\ EndOf(d, n + 1) = e.to
      /\ \A i \in 0..n : EndOf(d, i) = EndOf(c, i)
  BY <1>2, <1>4 DEF EndOf
<1>6. \A i \in 0..n : SubSeq(d, 1, i) = SubSeq(c, 1, i)
  <2>1. <<e>> \in Seq(Link) /\ Len(<<e>>) = 1 /\ d = c \o <<e>>
    BY <1>1, <1>2, <1>3, AppendIsConcat
  <2>2. ASSUME NEW i \in 0..n PROVE SubSeq(c \o <<e>>, 1, i) = SubSeq(c, 1, i)
    <3>1. CASE i = 0
      <4>1. c \o <<e>> \in Seq(Link)
        BY <1>4, <2>1
      <4> QED
        BY <1>2, <3>1, <4>1, SubSeqEmpty
    <3>2. CASE i # 0
      BY <1>1, <1>2, <2>1, <3>2, SubSeqOfConcat1
    <3> QED
      BY <3>1, <3>2
  <2> QED
    BY <2>1, <2>2
<1>7. SubSeq(d, 1, n + 1) = d /\ SubSeq(d, 1, n) = c
  <2>1. n \in 0..n /\ SubSeq(d, 1, n) = SubSeq(c, 1, n)
    BY <1>2, <1>6
  <2> QED
    BY <1>1, <1>2, <1>4, <2>1, SubSeqFull
<1>8. Linked(d)
  <2>1. ASSUME NEW i \in 1..(n + 1)
        PROVE  /\ d[i].from = EndOf(d, i - 1) + 1
               /\ d[i].to = EndOf(d, i - 1) + Len(d[i].batch.muts)
    <3>1. CASE i \in 1..n
      <4>1. i - 1 \in 0..n /\ d[i] = c[i]
        BY <1>2, <1>4, <3>1
      <4>2. EndOf(d, i - 1) = EndOf(c, i - 1)
        BY <1>5, <4>1
      <4>3. c[i].from = EndOf(c, i - 1) + 1 /\ c[i].to = EndOf(c, i - 1) + Len(c[i].batch.muts)
        BY <1>1, <3>1 DEF Linked
      <4> QED
        BY <4>1, <4>2, <4>3
    <3>2. CASE i = n + 1
      <4>1. i - 1 = n /\ n \in 0..n /\ d[i] = e
        BY <1>2, <1>4, <3>2
      <4> QED
        BY <1>1, <1>3, <1>5, <4>1
    <3> QED
      BY <1>2, <3>1, <3>2
  <2>2. ASSUME NEW i \in 0..(n + 1), NEW j \in 0..(n + 1), i <= j
        PROVE  EndOf(d, i) <= EndOf(d, j)
    <3>1. CASE j \in 0..n
      <4>1. i \in 0..n
        BY <1>2, <2>2, <3>1
      <4>2. EndOf(c, i) <= EndOf(c, j)
        BY <1>1, <2>2, <3>1, <4>1 DEF Linked
      <4> QED
        BY <1>5, <3>1, <4>1, <4>2
    <3>2. CASE i \in 0..n /\ j = n + 1
      <4>1. n \in 0..n /\ i <= n
        BY <1>2, <3>2
      <4>2. EndOf(c, i) <= EndOf(c, n)
        BY <1>1, <3>2, <4>1 DEF Linked
      <4>3. EndOf(d, i) = EndOf(c, i) /\ EndOf(d, j) = EndOf(c, n) + m
        BY <1>3, <1>5, <3>2
      <4>4. EndOf(c, i) \in Nat /\ EndOf(c, n) \in Nat
        BY <1>2, <3>2, <4>1
      <4> QED
        BY <1>2, <4>2, <4>3, <4>4
    <3>3. CASE i = n + 1 /\ j = n + 1
      BY <1>3, <1>5, <3>3
    <3> QED
      BY <1>2, <2>2, <3>1, <3>2, <3>3
  <2>3. ASSUME NEW i \in 1..(n + 1), NEW j \in 1..(n + 1), d[i].batch.id = d[j].batch.id
        PROVE  i = j
    <3>1. CASE i \in 1..n /\ j \in 1..n
      BY <1>1, <1>4, <2>3, <3>1 DEF Linked
    <3>2. CASE i \in 1..n /\ j = n + 1
      BY <1>1, <1>3, <1>4, <2>3, <3>2
    <3>3. CASE i = n + 1 /\ j \in 1..n
      BY <1>1, <1>3, <1>4, <2>3, <3>3
    <3>4. CASE i = n + 1 /\ j = n + 1
      BY <3>4
    <3> QED
      BY <1>2, <3>1, <3>2, <3>3, <3>4
  <2> QED
    BY <1>4, <2>1, <2>2, <2>3 DEF Linked
<1>9. /\ \A i \in 0..n : BoundaryAt(d, i) = BoundaryAt(c, i)
      /\ BoundaryAt(d, n + 1) = [seq |-> e.to, chain |-> d]
  BY <1>5, <1>6, <1>7 DEF BoundaryAt
<1>10. /\ \A i \in 1..n : ReceiptAt(d, i) = ReceiptAt(c, i)
       /\ ReceiptAt(d, n + 1) =
            [batch |-> b, from |-> e.from, to |-> e.to, prior |-> c, chain |-> d]
  <2>1. \A i \in 1..n : i - 1 \in 0..n /\ i \in 0..n
    BY <1>2
  <2>2. \A i \in 1..n : ReceiptAt(d, i) = ReceiptAt(c, i)
    BY <1>4, <1>6, <2>1 DEF ReceiptAt
  <2>3. PICK p : p = n + 1
    OBVIOUS
  <2>4. ReceiptAt(d, n + 1) =
          [batch |-> d[n + 1].batch, from |-> d[n + 1].from, to |-> d[n + 1].to,
           prior |-> SubSeq(d, 1, n), chain |-> SubSeq(d, 1, n + 1)]
    <3>1. ReceiptAt(d, p) =
            [batch |-> d[p].batch, from |-> d[p].from, to |-> d[p].to,
             prior |-> SubSeq(d, 1, p - 1), chain |-> SubSeq(d, 1, p)]
      BY DEF ReceiptAt
    <3>2. p - 1 = n
      BY <1>2, <2>3
    <3> QED
      BY <2>3, <3>1, <3>2
  <2>5. ReceiptAt(d, n + 1) =
          [batch |-> b, from |-> e.from, to |-> e.to, prior |-> c, chain |-> d]
    BY <1>3, <1>4, <1>7, <2>4
  <2> QED
    BY <2>2, <2>5
<1>11. Extended(d, c, e, n)
  BY <1>3, <1>4, <1>5, <1>8, <1>9, <1>10 DEF Extended
<1> QED
  BY <1>1, <1>11
-----------------------------------------------------------------------------
\* What a commit of b makes of a database.
LinkFor(d, b) == [batch |-> b, from |-> d.head.seq + 1, to |-> d.head.seq + Len(b.muts)]

Grown(d, e, b) ==
  /\ b.client \in d.admitted
  /\ \A r \in d.receipts : r.batch.id # b.id
  /\ \A i \in 1..Len(b.muts) : \A n \in 1..Len(d.journal) : d.journal[n].mid # b.muts[i].mid
  /\ b.from = d.lastSeq[b.client] + 1
  /\ DOMAIN e = DOMAIN d
  /\ e.namespace = d.namespace
  /\ e.admitted = d.admitted
  /\ e.lastSeq = [d.lastSeq EXCEPT ![b.client] = b.from + Len(b.muts) - 1]
  /\ e.journal = d.journal \o Archive!JournalRows(b)
  /\ e.head = [seq |-> d.head.seq + Len(b.muts), chain |-> Append(d.head.chain, LinkFor(d, b))]
  /\ e.checkpoints = d.checkpoints \union {e.head}
  /\ e.receipts = d.receipts \union
       {[batch |-> b, from |-> LinkFor(d, b).from, to |-> LinkFor(d, b).to,
         prior |-> d.head.chain, chain |-> e.head.chain]}
  /\ e.stateRecords =
       [k \in Keys |->
          IF Archive!Touches(b, k)
          THEN [kind |-> b.muts[Archive!LastOn(b, k)].kind,
                seq |-> d.head.seq + Archive!LastOn(b, k)]
          ELSE d.stateRecords[k]]

\* A commit grows the active database by one batch.
LEMMA CommitGrows ==
  ASSUME NEW b, NEW cp, Archive!Commit(b, cp), UNCHANGED <<namespace, audit>>
  PROVE  Grown(Active, Active', b)
<1>1. /\ DOMAIN Active = Fields /\ DOMAIN Active' = Fields
  BY DEF Active, Fields
<1>2. /\ b.client \in admitted /\ b.from = lastSeq[b.client] + 1
      /\ \A r \in receipts : r.batch.id # b.id
      /\ \A i \in 1..Len(b.muts) : \A n \in 1..Len(journal) : journal[n].mid # b.muts[i].mid
  BY DEF Archive!Commit, Archive!Known, Archive!Fresh, Archive!NextInSequence
<1>3. /\ Archive!HeadAfter(b) =
           [seq |-> head.seq + Len(b.muts), chain |-> Append(head.chain, LinkFor(Active, b))]
      /\ Archive!ReceiptFor(b) =
           [batch |-> b, from |-> LinkFor(Active, b).from, to |-> LinkFor(Active, b).to,
            prior |-> head.chain, chain |-> Archive!HeadAfter(b).chain]
  BY DEF Archive!HeadAfter, Archive!ReceiptFor, Archive!Chain, Archive!ArchiveFrom,
         Archive!ArchiveTo, LinkFor, Active
<1>4. /\ admitted' = admitted /\ namespace' = namespace
      /\ lastSeq' = [lastSeq EXCEPT ![b.client] = b.from + Len(b.muts) - 1]
      /\ journal' = journal \o Archive!JournalRows(b)
      /\ head' = Archive!HeadAfter(b)
      /\ checkpoints' = checkpoints \union {Archive!HeadAfter(b)}
      /\ receipts' = receipts \union {Archive!ReceiptFor(b)}
      /\ stateRecords' =
           [k \in Keys |->
              IF Archive!Touches(b, k)
              THEN [kind |-> b.muts[Archive!LastOn(b, k)].kind,
                    seq |-> head.seq + Archive!LastOn(b, k)]
              ELSE stateRecords[k]]
  BY DEF Archive!Commit, Archive!To
<1>5. /\ Active.admitted = admitted /\ Active.namespace = namespace
      /\ Active.lastSeq = lastSeq /\ Active.journal = journal /\ Active.head = head
      /\ Active.checkpoints = checkpoints /\ Active.receipts = receipts
      /\ Active.stateRecords = stateRecords
  BY DEF Active
<1>6. /\ Active'.admitted = admitted' /\ Active'.namespace = namespace'
      /\ Active'.lastSeq = lastSeq' /\ Active'.journal = journal' /\ Active'.head = head'
      /\ Active'.checkpoints = checkpoints' /\ Active'.receipts = receipts'
      /\ Active'.stateRecords = stateRecords'
  BY DEF Active
<1> QED
  BY <1>1, <1>2, <1>3, <1>4, <1>5, <1>6 DEF Grown

\* The journal of a commit.
Lengthened(k, j, rows, m) ==
  /\ k \in Seq(JournalRow)
  /\ Len(j) \in Nat /\ Len(k) = Len(j) + m
  /\ \A n \in 1..Len(j) : k[n] = j[n] /\ n \in 1..Len(k)
  /\ \A i \in 1..m : k[Len(j) + i] = rows[i] /\ Len(j) + i \in 1..Len(k)
  /\ \A n \in 1..Len(k) : n \in 1..Len(j) \/ \E i \in 1..m : n = Len(j) + i

\* The journal after a commit is the journal before, then the batch's rows.
LEMMA JournalGrows ==
  ASSUME NEW j \in Seq(JournalRow), NEW b \in SentBatches
  PROVE  Lengthened(j \o Archive!JournalRows(b), j, Archive!JournalRows(b), Len(b.muts))
<1> DEFINE rows == Archive!JournalRows(b)
           both == j \o rows
           m == Len(b.muts)
<1>1. /\ rows \in Seq(JournalRow) /\ Len(rows) = Len(b.muts)
      /\ Len(j) \in Nat /\ Len(b.muts) \in Nat
  BY RowsFacts, BatchFacts, LenProperties
<1> HIDE DEF rows
<1>2. /\ both \in Seq(JournalRow)
      /\ Len(both) = Len(j) + Len(rows)
      /\ \A i \in 1..(Len(j) + Len(rows)) :
           both[i] = IF i <= Len(j) THEN j[i] ELSE rows[i - Len(j)]
  BY <1>1, ConcatProperties
<1> HIDE DEF both
<1>3. ASSUME NEW n \in 1..Len(j) PROVE both[n] = j[n] /\ n \in 1..Len(both)
  BY <1>1, <1>2
<1>4. ASSUME NEW i \in 1..m
      PROVE  both[Len(j) + i] = rows[i] /\ Len(j) + i \in 1..Len(both)
  <2>1. Len(j) + i \in 1..Len(both) /\ ~ (Len(j) + i <= Len(j)) /\ Len(j) + i - Len(j) = i
    BY <1>1, <1>2
  <2>2. Len(j) + i \in 1..(Len(j) + Len(rows))
    BY <1>2, <2>1
  <2> QED
    BY <1>2, <2>1, <2>2
<1>5. ASSUME NEW n \in 1..Len(both), n \notin 1..Len(j)
      PROVE  \E i \in 1..m : n = Len(j) + i
  <2>1. n - Len(j) \in 1..m /\ n = Len(j) + (n - Len(j))
    BY <1>1, <1>2, <1>5
  <2> QED
    BY <2>1
<1> QED
  BY <1>1, <1>2, <1>3, <1>4, <1>5 DEF Lengthened, both, rows

\* An exact database grown by a batch has head, receipts and checkpoints of one chain.
LEMMA GrownChained ==
  ASSUME NEW d, NEW e, NEW b \in SentBatches, Exact(d), Grown(d, e, b)
  PROVE  Chained(e)
<1>1. PICK c, l, n : c = d.head.chain /\ l = LinkFor(d, b) /\ n = Len(c)
  OBVIOUS
<1>2. /\ Linked(c) /\ d.head = BoundaryAt(c, n)
      /\ d.receipts = {ReceiptAt(c, i) : i \in 1..n}
      /\ d.checkpoints = {BoundaryAt(c, i) : i \in 0..n}
      /\ n \in Nat
  BY <1>1, LinkFacts DEF Exact, Chained
<1>3. d.head.seq = EndOf(c, n)
  BY <1>2 DEF BoundaryAt
<1>4. /\ l = LinkAfter(c, b)
      /\ l.from = EndOf(c, n) + 1 /\ l.to = EndOf(c, n) + Len(b.muts) /\ l.batch = b
  BY <1>1, <1>3 DEF LinkFor, LinkAfter
<1>5. ASSUME NEW i \in 1..n PROVE c[i].batch.id # b.id
  <2>1. ReceiptAt(c, i) \in d.receipts /\ ReceiptAt(c, i).batch = c[i].batch
    BY <1>2 DEF ReceiptAt
  <2> QED
    BY <2>1 DEF Grown
<1>6. PICK a : a = Append(c, l)
  OBVIOUS
<1>7. /\ Linked(a) /\ Len(a) = n + 1 /\ EndOf(a, n + 1) = l.to
      /\ \A i \in 0..n : BoundaryAt(a, i) = BoundaryAt(c, i)
      /\ \A i \in 1..n : ReceiptAt(a, i) = ReceiptAt(c, i)
      /\ BoundaryAt(a, n + 1) = [seq |-> l.to, chain |-> a]
      /\ ReceiptAt(a, n + 1) =
           [batch |-> b, from |-> l.from, to |-> l.to, prior |-> c, chain |-> a]
  <2>1. Extended(Append(c, LinkAfter(c, b)), c, LinkAfter(c, b), Len(c))
    BY <1>1, <1>2, <1>5, ChainGrows
  <2>2. Extended(a, c, l, n)
    BY <1>1, <1>4, <1>6, <2>1
  <2> QED
    BY <1>4, <2>2 DEF Extended
<1>8. /\ e.head = [seq |-> EndOf(c, n) + Len(b.muts), chain |-> a]
      /\ e.head.chain = a
      /\ e.checkpoints = d.checkpoints \union {e.head}
      /\ e.receipts = d.receipts \union
           {[batch |-> b, from |-> l.from, to |-> l.to, prior |-> c, chain |-> a]}
  <2>1. e.head = [seq |-> EndOf(c, n) + Len(b.muts), chain |-> a]
    BY <1>1, <1>3, <1>6 DEF Grown
  <2>2. e.head.chain = a
    BY <2>1
  <2> QED
    BY <1>1, <2>1, <2>2 DEF Grown
<1>9. e.head = BoundaryAt(a, n + 1)
  BY <1>4, <1>7, <1>8
<1>10. e.checkpoints = {BoundaryAt(a, i) : i \in 0..(n + 1)}
  <2>1. \A i \in 0..(n + 1) : i \in 0..n \/ i = n + 1
    BY <1>2
  <2>2. \A i \in 0..n : i \in 0..(n + 1)
    BY <1>2
  <2>3. n + 1 \in 0..(n + 1)
    BY <1>2
  <2>4. \A x : x \in e.checkpoints <=> \E i \in 0..(n + 1) : x = BoundaryAt(a, i)
    BY <1>2, <1>7, <1>8, <1>9, <2>1, <2>2, <2>3
  <2> QED
    BY <2>4
<1>11. e.receipts = {ReceiptAt(a, i) : i \in 1..(n + 1)}
  <2>1. \A i \in 1..(n + 1) : i \in 1..n \/ i = n + 1
    BY <1>2
  <2>2. \A i \in 1..n : i \in 1..(n + 1)
    BY <1>2
  <2>3. n + 1 \in 1..(n + 1)
    BY <1>2
  <2>4. \A x : x \in e.receipts <=> \E i \in 1..(n + 1) : x = ReceiptAt(a, i)
    BY <1>2, <1>7, <1>8, <2>1, <2>2, <2>3
  <2> QED
    BY <2>4
<1> QED
  BY <1>7, <1>8, <1>9, <1>10, <1>11 DEF Chained

\* An exact database grown by a batch has the rows of its chain in its journal.
LEMMA GrownFilled ==
  ASSUME NEW d, NEW e, NEW b \in SentBatches, Exact(d), Grown(d, e, b)
  PROVE  Filled(e.journal, e.head.chain)
<1>1. PICK c, l, n, j, m : /\ c = d.head.chain /\ l = LinkFor(d, b) /\ n = Len(c)
                           /\ j = d.journal /\ m = Len(b.muts)
  OBVIOUS
<1>2. Linked(c) /\ d.head = BoundaryAt(c, n) /\ Filled(j, c)
  BY <1>1 DEF Exact, Chained
<1>3. d.head.seq = EndOf(c, n)
  BY <1>2 DEF BoundaryAt
<1>4. /\ l = LinkAfter(c, b)
      /\ l.from = EndOf(c, n) + 1 /\ l.to = EndOf(c, n) + m /\ l.batch = b
  BY <1>1, <1>3 DEF LinkFor, LinkAfter
<1>5. ASSUME NEW i \in 1..n PROVE c[i].batch.id # b.id
  <2>1. d.receipts = {ReceiptAt(c, x) : x \in 1..n}
    BY <1>1 DEF Exact, Chained
  <2>2. ReceiptAt(c, i) \in d.receipts /\ ReceiptAt(c, i).batch = c[i].batch
    BY <2>1 DEF ReceiptAt
  <2> QED
    BY <2>2 DEF Grown
<1>6. PICK a, rows, k : a = Append(c, l) /\ rows = Archive!JournalRows(b) /\ k = j \o rows
  OBVIOUS
<1>7. e.head.chain = a /\ e.journal = k
  <2>1. e.head = [seq |-> d.head.seq + Len(b.muts), chain |-> a]
    BY <1>1, <1>6 DEF Grown
  <2>2. e.head.chain = a
    BY <2>1
  <2> QED
    BY <1>1, <1>6, <2>2 DEF Grown
<1>8. /\ Len(a) = n + 1 /\ EndOf(a, n + 1) = l.to /\ a[n + 1] = l
      /\ \A i \in 0..n : EndOf(a, i) = EndOf(c, i)
      /\ \A i \in 1..n : a[i] = c[i]
  <2>1. Extended(Append(c, LinkAfter(c, b)), c, LinkAfter(c, b), Len(c))
    BY <1>1, <1>2, <1>5, ChainGrows
  <2>2. Extended(a, c, l, n)
    BY <1>1, <1>4, <1>6, <2>1
  <2> QED
    BY <1>4, <2>2 DEF Extended
<1>9. /\ n \in Nat /\ m \in Nat \ {0} /\ EndOf(c, n) \in Nat
      /\ \A i \in 1..n : Len(c[i].batch.muts) \in Nat /\ EndOf(c, i - 1) \in Nat
                         /\ c[i].to = EndOf(c, i - 1) + Len(c[i].batch.muts)
                         /\ c[i].to <= EndOf(c, n)
  <2>1. n \in Nat /\ m \in Nat \ {0} /\ n \in 0..n
    BY <1>1, <1>2, LinkFacts, BatchFacts
  <2>2. EndOf(c, n) \in Nat
    BY <1>1, <1>2, <2>1, LinkFacts
  <2>3. ASSUME NEW i \in 1..n
        PROVE  /\ Len(c[i].batch.muts) \in Nat /\ EndOf(c, i - 1) \in Nat
               /\ c[i].to = EndOf(c, i - 1) + Len(c[i].batch.muts)
               /\ c[i].to <= EndOf(c, n)
    <3>1. i - 1 \in 0..n /\ i \in 0..n /\ i <= n /\ EndOf(c, i) = c[i].to
      BY <2>1 DEF EndOf
    <3>2. EndOf(c, i) <= EndOf(c, n) /\ c[i].to = EndOf(c, i - 1) + Len(c[i].batch.muts)
      BY <1>1, <1>2, <2>1, <3>1 DEF Linked
    <3>3. Len(c[i].batch.muts) \in Nat /\ EndOf(c, i - 1) \in Nat
      BY <1>1, <1>2, <3>1, LinkFacts
    <3> QED
      BY <3>1, <3>2, <3>3
  <2> QED
    BY <2>1, <2>2, <2>3
<1>10. /\ j \in Seq(JournalRow) /\ Len(j) = EndOf(c, n)
       /\ \A x \in 1..Len(j) : \E i \in 1..n : c[i].from <= x /\ x <= c[i].to
       /\ \A i \in 1..n : \A x \in 1..Len(c[i].batch.muts) :
            j[EndOf(c, i - 1) + x] = Archive!JournalRows(c[i].batch)[x]
       /\ \A x, y \in 1..Len(j) : j[x].mid = j[y].mid => x = y
  BY <1>1, <1>2 DEF Filled
<1>11. /\ k \in Seq(JournalRow) /\ Len(k) = Len(j) + m
       /\ \A x \in 1..Len(j) : k[x] = j[x] /\ x \in 1..Len(k)
       /\ \A x \in 1..m : k[Len(j) + x] = rows[x] /\ Len(j) + x \in 1..Len(k)
       /\ \A x \in 1..Len(k) : x \in 1..Len(j) \/ \E y \in 1..m : x = Len(j) + y
  <2>1. Lengthened(j \o Archive!JournalRows(b), j, Archive!JournalRows(b), Len(b.muts))
    BY <1>10, JournalGrows
  <2>2. Lengthened(k, j, rows, m)
    BY <1>1, <1>6, <2>1
  <2> QED
    BY <2>2 DEF Lengthened
<1>12. Len(k) = EndOf(a, n + 1)
  BY <1>4, <1>8, <1>10, <1>11
<1>13. ASSUME NEW x \in 1..Len(k)
       PROVE  \E i \in 1..(n + 1) : a[i].from <= x /\ x <= a[i].to
  <2>1. CASE x \in 1..Len(j)
    <3>1. PICK i \in 1..n : c[i].from <= x /\ x <= c[i].to
      BY <1>10, <2>1
    <3>2. i \in 1..(n + 1) /\ a[i] = c[i]
      BY <1>8, <1>9
    <3> QED
      BY <3>1, <3>2
  <2>2. CASE \E y \in 1..m : x = Len(j) + y
    <3>1. PICK y \in 1..m : x = Len(j) + y
      BY <2>2
    <3>2. n + 1 \in 1..(n + 1) /\ l.from <= x /\ x <= l.to
      BY <1>4, <1>9, <1>10, <3>1
    <3> QED
      BY <1>8, <3>2
  <2> QED
    BY <1>11, <2>1, <2>2
<1>14. ASSUME NEW i \in 1..(n + 1), NEW x \in 1..Len(a[i].batch.muts)
       PROVE  k[EndOf(a, i - 1) + x] = Archive!JournalRows(a[i].batch)[x]
  <2>1. CASE i \in 1..n
    <3>1. a[i] = c[i] /\ i - 1 \in 0..n /\ EndOf(a, i - 1) = EndOf(c, i - 1)
      BY <1>8, <1>9, <2>1
    <3>2. /\ x \in 1..Len(c[i].batch.muts)
          /\ j[EndOf(c, i - 1) + x] = Archive!JournalRows(c[i].batch)[x]
      BY <1>10, <2>1, <3>1
    <3>3. EndOf(c, i - 1) + x \in 1..Len(j)
      <4>1. PICK p, q, r : p = EndOf(c, i - 1) /\ q = Len(c[i].batch.muts) /\ r = EndOf(c, n)
        OBVIOUS
      <4>2. p \in Nat /\ q \in Nat /\ r \in Nat /\ p + q <= r /\ x \in 1..q
        BY <1>9, <2>1, <3>2, <4>1
      <4>3. p + x \in 1..r
        BY <4>2
      <4> QED
        BY <1>10, <4>1, <4>3
    <3> QED
      BY <1>11, <3>1, <3>2, <3>3
  <2>2. CASE i = n + 1
    <3>1. a[i] = l /\ i - 1 = n /\ n \in 0..n
      BY <1>8, <1>9, <2>2
    <3>2. EndOf(a, i - 1) = Len(j) /\ x \in 1..m
      BY <1>1, <1>4, <1>8, <1>10, <3>1
    <3> QED
      <4>1. a[i].batch = b /\ k[EndOf(a, i - 1) + x] = rows[x]
        BY <1>4, <1>11, <3>1, <3>2
      <4> QED
        BY <1>6, <4>1
  <2> QED
    BY <1>9, <2>1, <2>2
<1>15. ASSUME NEW x \in 1..Len(k), NEW y \in 1..Len(k), k[x].mid = k[y].mid
       PROVE  x = y
  <2>1. \A u \in 1..m : /\ rows[u].mid = b.muts[u].mid
                        /\ \A v \in 1..Len(j) : j[v].mid # b.muts[u].mid
    BY <1>1, <1>6, RowsFacts DEF Grown
  <2>2. \A u, v \in 1..m : b.muts[u].mid = b.muts[v].mid => u = v
    BY <1>1, BatchFacts
  <2>3. CASE x \in 1..Len(j) /\ y \in 1..Len(j)
    BY <1>10, <1>11, <1>15, <2>3
  <2>4. CASE x \in 1..Len(j) /\ y \notin 1..Len(j)
    <3>1. PICK v \in 1..m : y = Len(j) + v
      BY <1>11, <2>4
    <3>2. k[y].mid = b.muts[v].mid /\ k[x] = j[x]
      BY <1>11, <2>1, <2>4, <3>1
    <3> QED
      BY <1>15, <2>1, <2>4, <3>2
  <2>5. CASE x \notin 1..Len(j) /\ y \in 1..Len(j)
    <3>1. PICK v \in 1..m : x = Len(j) + v
      BY <1>11, <2>5
    <3>2. k[x].mid = b.muts[v].mid /\ k[y] = j[y]
      BY <1>11, <2>1, <2>5, <3>1
    <3> QED
      BY <1>15, <2>1, <2>5, <3>2
  <2>6. CASE x \notin 1..Len(j) /\ y \notin 1..Len(j)
    <3>1. PICK u \in 1..m, v \in 1..m : x = Len(j) + u /\ y = Len(j) + v
      BY <1>11, <2>6
    <3>2. k[x].mid = b.muts[u].mid /\ k[y].mid = b.muts[v].mid
      BY <1>11, <2>1, <3>1
    <3>3. u = v
      BY <1>15, <2>2, <3>2
    <3> QED
      BY <3>1, <3>3
  <2> QED
    BY <2>3, <2>4, <2>5, <2>6
<1>16. Filled(k, a)
  BY <1>8, <1>11, <1>12, <1>13, <1>14, <1>15 DEF Filled
<1> QED
  BY <1>7, <1>16
\* What the other lemmas use of a commit.
LEMMA GrownJournal ==
  ASSUME NEW d, NEW e, NEW b \in SentBatches, Exact(d), Grown(d, e, b)
  PROVE  /\ Lengthened(e.journal, d.journal, Archive!JournalRows(b), Len(b.muts))
         /\ d.head.seq = Len(d.journal)
<1>1. d.journal \in Seq(JournalRow)
  BY DEF Exact, Filled
<1>2. Lengthened(d.journal \o Archive!JournalRows(b), d.journal, Archive!JournalRows(b), Len(b.muts))
  BY <1>1, JournalGrows
<1>3. e.journal = d.journal \o Archive!JournalRows(b)
  BY DEF Grown
<1>4. d.head.seq = EndOf(d.head.chain, Len(d.head.chain))
  <2>1. d.head = BoundaryAt(d.head.chain, Len(d.head.chain))
    BY DEF Exact, Chained
  <2>2. BoundaryAt(d.head.chain, Len(d.head.chain)).seq = EndOf(d.head.chain, Len(d.head.chain))
    BY DEF BoundaryAt
  <2> QED
    BY <2>1, <2>2
<1>5. Len(d.journal) = EndOf(d.head.chain, Len(d.head.chain))
  BY DEF Exact, Filled
<1> QED
  BY <1>2, <1>3, <1>4, <1>5

\* An exact database grown by a batch has contiguous streams.
LEMMA GrownStreams ==
  ASSUME NEW d, NEW e, NEW b \in SentBatches, Exact(d), Grown(d, e, b)
  PROVE  InStreams(e)
<1>1. PICK j, k, m, rows, n : /\ j = d.journal /\ k = e.journal /\ m = Len(b.muts)
                              /\ rows = Archive!JournalRows(b) /\ n = Len(j)
  OBVIOUS
<1>2. /\ n \in Nat /\ Len(k) = n + m
      /\ \A x \in 1..n : k[x] = j[x] /\ x \in 1..Len(k)
      /\ \A x \in 1..m : k[n + x] = rows[x] /\ n + x \in 1..Len(k)
      /\ \A x \in 1..Len(k) : x \in 1..n \/ \E y \in 1..m : x = n + y
  <2>1. Lengthened(e.journal, d.journal, Archive!JournalRows(b), Len(b.muts))
    BY GrownJournal
  <2>2. Lengthened(k, j, rows, m)
    BY <1>1, <2>1
  <2> QED
    BY <1>1, <2>2 DEF Lengthened
<1>3. /\ m \in Nat \ {0} /\ b.client \in Senders /\ b.from \in Nat \ {0}
      /\ \A x \in 1..m : rows[x].client = b.client /\ rows[x].cseq = b.from + x - 1
  BY <1>1, BatchFacts, RowsFacts
<1>4. /\ d.admitted \subseteq Senders /\ d.lastSeq \in [Senders -> Nat]
      /\ \A c \in Senders \ d.admitted : d.lastSeq[c] = 0
      /\ \A c \in Senders :
           /\ \A x \in 1..n : j[x].client = c => j[x].cseq <= d.lastSeq[c]
           /\ \A s \in 1..d.lastSeq[c] : \E x \in 1..n : j[x].client = c /\ j[x].cseq = s
           /\ \A x, y \in 1..n :
                j[x].client = c /\ j[y].client = c /\ x < y => j[x].cseq < j[y].cseq
  BY <1>1 DEF Exact, InStreams
<1>5. /\ e.admitted = d.admitted /\ b.client \in d.admitted
      /\ b.from = d.lastSeq[b.client] + 1
      /\ e.lastSeq = [d.lastSeq EXCEPT ![b.client] = b.from + m - 1]
  BY <1>1 DEF Grown
<1>6. /\ e.lastSeq \in [Senders -> Nat]
      /\ e.lastSeq[b.client] = d.lastSeq[b.client] + m
      /\ \A c \in Senders : c # b.client => e.lastSeq[c] = d.lastSeq[c]
      /\ \A c \in Senders : d.lastSeq[c] \in Nat
  BY <1>3, <1>4, <1>5
<1>7. \A x \in 1..n : j[x].cseq \in Nat
  <2>1. j \in Seq(JournalRow)
    BY <1>1 DEF Exact, Filled
  <2>2. \A x \in 1..n : j[x] \in JournalRow
    BY <1>1, <2>1, ElementOfSeq
  <2> QED
    BY <2>2 DEF JournalRow
<1>8. \A c \in Senders \ e.admitted : e.lastSeq[c] = 0
  BY <1>4, <1>5, <1>6
<1>9. ASSUME NEW c \in Senders, c # b.client
      PROVE  /\ \A x \in 1..Len(k) : k[x].client = c => k[x].cseq <= e.lastSeq[c]
             /\ \A s \in 1..e.lastSeq[c] : \E x \in 1..Len(k) : k[x].client = c /\ k[x].cseq = s
             /\ \A x, y \in 1..Len(k) :
                  k[x].client = c /\ k[y].client = c /\ x < y => k[x].cseq < k[y].cseq
  <2>1. ASSUME NEW x \in 1..Len(k), k[x].client = c PROVE x \in 1..n /\ k[x] = j[x]
    <3>1. \A y \in 1..m : k[n + y].client # c
      BY <1>2, <1>3, <1>9
    <3>2. x \in 1..n
      BY <1>2, <2>1, <3>1
    <3> QED
      BY <1>2, <3>2
  <2>2. \A x \in 1..Len(k) : k[x].client = c => k[x].cseq <= e.lastSeq[c]
    BY <1>4, <1>6, <1>9, <2>1
  <2>3. \A s \in 1..e.lastSeq[c] : \E x \in 1..Len(k) : k[x].client = c /\ k[x].cseq = s
    <3> SUFFICES ASSUME NEW s \in 1..e.lastSeq[c]
                 PROVE  \E x \in 1..Len(k) : k[x].client = c /\ k[x].cseq = s
      OBVIOUS
    <3>1. s \in 1..d.lastSeq[c]
      BY <1>6, <1>9
    <3>2. PICK x \in 1..n : j[x].client = c /\ j[x].cseq = s
      BY <1>4, <3>1
    <3> QED
      BY <1>2, <3>2
  <2>4. \A x, y \in 1..Len(k) :
          k[x].client = c /\ k[y].client = c /\ x < y => k[x].cseq < k[y].cseq
    BY <1>4, <2>1
  <2> QED
    BY <2>2, <2>3, <2>4
<1>10. PICK c, l : c = b.client /\ l = d.lastSeq[c]
  OBVIOUS
<1>11. /\ c \in Senders /\ l \in Nat /\ e.lastSeq[c] = l + m
       /\ \A x \in 1..m : rows[x].client = c /\ rows[x].cseq = l + x
  <2>1. c \in Senders /\ l \in Nat /\ e.lastSeq[c] = l + m /\ b.from = l + 1
    BY <1>3, <1>5, <1>6, <1>10
  <2>2. ASSUME NEW x \in 1..m PROVE rows[x].client = c /\ rows[x].cseq = l + x
    <3>1. rows[x].client = b.client /\ rows[x].cseq = b.from + x - 1
      BY <1>3
    <3>2. b.from + x - 1 = l + x
      BY <1>3, <2>1
    <3> QED
      BY <1>10, <3>1, <3>2
  <2> QED
    BY <2>1, <2>2
<1>12. \A x \in 1..Len(k) : k[x].client = c => k[x].cseq <= e.lastSeq[c]
  <2> SUFFICES ASSUME NEW x \in 1..Len(k), k[x].client = c PROVE k[x].cseq <= l + m
    BY <1>11
  <2>1. CASE x \in 1..n
    <3>1. j[x].cseq <= l /\ k[x] = j[x] /\ j[x].cseq \in Nat
      BY <1>2, <1>4, <1>7, <1>10, <1>11, <2>1
    <3> QED
      BY <1>3, <1>11, <3>1
  <2>2. CASE \E y \in 1..m : x = n + y
    <3>1. PICK y \in 1..m : x = n + y
      BY <2>2
    <3>2. k[x].cseq = l + y
      BY <1>2, <1>11, <3>1
    <3> QED
      BY <1>3, <1>11, <3>2
  <2> QED
    BY <1>2, <2>1, <2>2
<1>13. ASSUME NEW s \in 1..e.lastSeq[c]
       PROVE  \E x \in 1..Len(k) : k[x].client = c /\ k[x].cseq = s
  <2>1. CASE s \in 1..l
    <3>1. PICK x \in 1..n : j[x].client = c /\ j[x].cseq = s
      BY <1>4, <1>10, <1>11, <2>1
    <3> QED
      BY <1>2, <3>1
  <2>2. CASE s \notin 1..l
    <3>1. s - l \in 1..m /\ s = l + (s - l)
      BY <1>3, <1>11, <2>2
    <3>2. /\ n + (s - l) \in 1..Len(k)
          /\ k[n + (s - l)].client = c /\ k[n + (s - l)].cseq = s
      BY <1>2, <1>11, <3>1
    <3> QED
      BY <3>2
  <2> QED
    BY <2>1, <2>2
<1>14. ASSUME NEW x \in 1..Len(k), NEW y \in 1..Len(k), k[x].client = c, k[y].client = c, x < y
       PROVE  k[x].cseq < k[y].cseq
  <2>1. CASE x \in 1..n /\ y \in 1..n
    BY <1>2, <1>4, <1>11, <1>14, <2>1
  <2>2. CASE x \in 1..n /\ y \notin 1..n
    <3>1. PICK v \in 1..m : y = n + v
      BY <1>2, <2>2
    <3>2. j[x].cseq <= l /\ k[x] = j[x] /\ j[x].cseq \in Nat /\ k[y].cseq = l + v
      BY <1>2, <1>4, <1>7, <1>10, <1>11, <1>14, <2>2, <3>1
    <3> QED
      BY <1>11, <3>2
  <2>3. CASE x \notin 1..n
    <3>1. PICK u \in 1..m : x = n + u
      BY <1>2, <2>3
    <3>2. y \notin 1..n
      BY <1>2, <1>14, <3>1
    <3>3. PICK v \in 1..m : y = n + v
      BY <1>2, <3>2
    <3>4. u < v
      BY <1>2, <1>14, <3>1, <3>3
    <3>5. k[x].cseq = l + u
      BY <1>2, <1>11, <3>1
    <3>6. k[y].cseq = l + v
      BY <1>2, <1>11, <3>3
    <3> QED
      BY <1>11, <3>4, <3>5, <3>6
  <2> QED
    BY <2>1, <2>2, <2>3
<1>15. \A z \in Senders :
         /\ \A x \in 1..Len(k) : k[x].client = z => k[x].cseq <= e.lastSeq[z]
         /\ \A s \in 1..e.lastSeq[z] : \E x \in 1..Len(k) : k[x].client = z /\ k[x].cseq = s
         /\ \A x, y \in 1..Len(k) :
              k[x].client = z /\ k[y].client = z /\ x < y => k[x].cseq < k[y].cseq
  BY <1>9, <1>10, <1>12, <1>13, <1>14
<1> QED
  BY <1>1, <1>4, <1>5, <1>6, <1>8, <1>15 DEF InStreams

\* The record of a key a commit writes is its last row.
LEMMA GrownRecords ==
  ASSUME NEW d, NEW e, NEW b \in SentBatches, Exact(d), Grown(d, e, b)
  PROVE  /\ Points(e.stateRecords, e.journal)
         /\ \A k \in Keys :
              IF Archive!Touches(b, k)
              THEN /\ IsCurrent(k, e.stateRecords, e.journal)
                   /\ e.stateRecords[k] # NoRecord
                   /\ e.stateRecords[k].kind = b.muts[Archive!LastOn(b, k)].kind
                   /\ e.journal[e.stateRecords[k].seq].mid = b.muts[Archive!LastOn(b, k)].mid
              ELSE /\ e.stateRecords[k] = d.stateRecords[k]
                   /\ IsCurrent(k, d.stateRecords, d.journal) =>
                        IsCurrent(k, e.stateRecords, e.journal)
                   /\ d.stateRecords[k] # NoRecord =>
                        e.journal[d.stateRecords[k].seq] = d.journal[d.stateRecords[k].seq]
<1>1. PICK j, g, m, rows, n, s, t :
        /\ j = d.journal /\ g = e.journal /\ m = Len(b.muts) /\ rows = Archive!JournalRows(b)
        /\ n = Len(j) /\ s = d.stateRecords /\ t = e.stateRecords
  OBVIOUS
<1>2. /\ n \in Nat /\ Len(g) = n + m
      /\ \A x \in 1..n : g[x] = j[x] /\ x \in 1..Len(g)
      /\ \A x \in 1..m : g[n + x] = rows[x] /\ n + x \in 1..Len(g)
      /\ \A x \in 1..Len(g) : x \in 1..n \/ \E y \in 1..m : x = n + y
  <2>1. Lengthened(e.journal, d.journal, Archive!JournalRows(b), Len(b.muts))
    BY GrownJournal
  <2>2. Lengthened(g, j, rows, m)
    BY <1>1, <2>1
  <2> QED
    BY <1>1, <2>2 DEF Lengthened
<1>3. /\ m \in Nat \ {0}
      /\ \A x \in 1..m : /\ rows[x].key = b.muts[x].key /\ rows[x].kind = b.muts[x].kind
                         /\ rows[x].mid = b.muts[x].mid
                         /\ b.muts[x].kind \in Archive!Kinds
  <2>1. \A x \in 1..m : b.muts[x] \in SentMutation
    BY <1>1, BatchFacts
  <2> QED
    BY <1>1, <2>1, BatchFacts, RowsFacts DEF SentMutation
<1>4. /\ s \in [Keys -> [kind : Archive!Kinds, seq : Nat] \union {NoRecord}]
      /\ \A k \in Keys : s[k] # NoRecord => /\ s[k].seq \in 1..n
                                            /\ j[s[k].seq].key = k
                                            /\ j[s[k].seq].kind = s[k].kind
  BY <1>1 DEF Exact, Points
<1>5. t = [k \in Keys |->
             IF Archive!Touches(b, k)
             THEN [kind |-> b.muts[Archive!LastOn(b, k)].kind, seq |-> n + Archive!LastOn(b, k)]
             ELSE s[k]]
  <2>1. d.head.seq = n
    BY <1>1, GrownJournal
  <2>2. t = [k \in Keys |->
               IF Archive!Touches(b, k)
               THEN [kind |-> b.muts[Archive!LastOn(b, k)].kind,
                     seq |-> d.head.seq + Archive!LastOn(b, k)]
               ELSE s[k]]
    BY <1>1 DEF Grown
  <2> QED
    BY <2>1, <2>2
<1>6. ASSUME NEW k \in Keys, Archive!Touches(b, k)
      PROVE  /\ t[k] \in [kind : Archive!Kinds, seq : Nat] /\ t[k] # NoRecord
             /\ t[k].seq \in 1..Len(g) /\ g[t[k].seq].key = k /\ g[t[k].seq].kind = t[k].kind
             /\ t[k].kind = b.muts[Archive!LastOn(b, k)].kind
             /\ g[t[k].seq].mid = b.muts[Archive!LastOn(b, k)].mid
             /\ \A x \in 1..Len(g) : g[x].key = k => x <= t[k].seq
  <2>1. PICK l : l = Archive!LastOn(b, k)
    OBVIOUS
  <2>2. /\ l \in 1..m /\ b.muts[l].key = k
        /\ \A x \in 1..m : b.muts[x].key = k => x <= l
    BY <1>1, <1>6, <2>1, LastOnFacts
  <2>3. t[k] = [kind |-> b.muts[l].kind, seq |-> n + l]
    BY <1>5, <1>6, <2>1
  <2>4. t[k].kind = b.muts[l].kind /\ t[k].seq = n + l /\ n + l \in Nat
    BY <1>2, <2>2, <2>3
  <2>5. t[k] \in [kind : Archive!Kinds, seq : Nat]
    BY <1>3, <2>2, <2>3, <2>4
  <2>6. t[k] # NoRecord
    BY <2>5, ClientsAssumption
  <2>7. ASSUME NEW x \in 1..Len(g), g[x].key = k PROVE x <= n + l
    <3>1. CASE x \in 1..n
      BY <1>2, <2>2, <3>1
    <3>2. CASE \E y \in 1..m : x = n + y
      <4>1. PICK y \in 1..m : x = n + y
        BY <3>2
      <4>2. y <= l
        BY <1>2, <1>3, <2>2, <2>7, <4>1
      <4> QED
        BY <1>2, <2>2, <4>1, <4>2
    <3> QED
      BY <1>2, <3>1, <3>2
  <2>8. g[n + l] = rows[l] /\ n + l \in 1..Len(g)
    BY <1>2, <2>2
  <2> QED
    BY <1>3, <2>1, <2>2, <2>4, <2>5, <2>6, <2>7, <2>8
<1>7. ASSUME NEW k \in Keys, ~ Archive!Touches(b, k)
      PROVE  /\ t[k] = s[k]
             /\ s[k] # NoRecord => /\ s[k].seq \in 1..Len(g) /\ g[s[k].seq] = j[s[k].seq]
                                   /\ g[s[k].seq].key = k /\ g[s[k].seq].kind = s[k].kind
             /\ \A x \in 1..Len(g) : g[x].key = k => x \in 1..n /\ j[x].key = k
  <2>1. t[k] = s[k]
    BY <1>5, <1>7
  <2>2. \A x \in 1..m : rows[x].key # k
    BY <1>1, <1>3, <1>7 DEF Archive!Touches
  <2>3. \A x \in 1..Len(g) : g[x].key = k => x \in 1..n /\ j[x].key = k
    BY <1>2, <2>2
  <2> QED
    BY <1>2, <1>4, <2>1, <2>3
<1>8. Points(t, g)
  <2>1. t \in [Keys -> [kind : Archive!Kinds, seq : Nat] \union {NoRecord}]
    <3>1. \A k \in Keys : t[k] \in [kind : Archive!Kinds, seq : Nat] \union {NoRecord}
      BY <1>4, <1>6, <1>7
    <3> QED
      BY <1>5, <3>1
  <2> QED
    BY <1>6, <1>7, <2>1 DEF Points
<1>9. ASSUME NEW k \in Keys, Archive!Touches(b, k) PROVE IsCurrent(k, t, g)
  BY <1>6, <1>9 DEF IsCurrent
<1>10. ASSUME NEW k \in Keys, ~ Archive!Touches(b, k), IsCurrent(k, s, j)
       PROVE  IsCurrent(k, t, g)
  BY <1>1, <1>7, <1>10 DEF IsCurrent
<1> QED
  BY <1>1, <1>6, <1>7, <1>8, <1>9, <1>10

\* A commit leaves an exact database exact.
LEMMA GrownExact ==
  ASSUME NEW d, NEW e, NEW b \in SentBatches, Exact(d), Grown(d, e, b)
  PROVE  Exact(e)
<1>1. DOMAIN e = Fields /\ e.namespace = TRUE
  BY DEF Exact, Grown
<1> QED
  BY <1>1, GrownChained, GrownFilled, GrownStreams, GrownRecords DEF Exact
-----------------------------------------------------------------------------
\* What InOrder gives: every member once, by rank.
Below(S, rank, x) == {y \in S : rank[y] < rank[x]}

Ranked(S, rank) ==
  /\ IsFiniteSet(S)
  /\ \A x \in S : rank[x] \in Nat
  /\ \A x, y \in S : rank[x] = rank[y] => x = y

\* Of ranked elements, a higher one has more elements below it.
LEMMA BelowCounts ==
  ASSUME NEW S, NEW rank, Ranked(S, rank), NEW x \in S
  PROVE  /\ Cardinality(Below(S, rank, x)) \in Nat
         /\ Cardinality(Below(S, rank, x)) < Cardinality(S)
         /\ Cardinality(S) \in Nat
         /\ \A y \in S : rank[x] < rank[y] =>
              Cardinality(Below(S, rank, x)) < Cardinality(Below(S, rank, y))
<1>1. IsFiniteSet(S) /\ \A z \in S : rank[z] \in Nat
  BY DEF Ranked
<1>2. ASSUME NEW T, T \subseteq S, Below(S, rank, x) \subseteq T, x \in T
      PROVE  /\ Cardinality(Below(S, rank, x)) \in Nat /\ Cardinality(T) \in Nat
             /\ Cardinality(Below(S, rank, x)) < Cardinality(T)
  <2>1. PICK B : B = Below(S, rank, x)
    OBVIOUS
  <2>2. x \notin B /\ B \subseteq S
    BY <1>1, <2>1 DEF Below
  <2>3. IsFiniteSet(B) /\ IsFiniteSet(T)
    BY <1>1, <1>2, <2>2, FS_Subset
  <2>4. PICK C : C = B \union {x}
    OBVIOUS
  <2>5. Cardinality(C) = Cardinality(B) + 1 /\ C \in SUBSET T
    BY <1>2, <2>1, <2>2, <2>3, <2>4, FS_AddElement
  <2>6. Cardinality(C) <= Cardinality(T)
    BY <2>3, <2>5, FS_Subset
  <2>7. Cardinality(B) \in Nat /\ Cardinality(T) \in Nat
    BY <2>3, FS_CardinalityType
  <2> QED
    BY <2>1, <2>5, <2>6, <2>7
<1>3. Below(S, rank, x) \subseteq S
  BY DEF Below
<1>4. ASSUME NEW y \in S, rank[x] < rank[y]
      PROVE  Cardinality(Below(S, rank, x)) < Cardinality(Below(S, rank, y))
  <2>1. /\ Below(S, rank, y) \subseteq S /\ x \in Below(S, rank, y)
        /\ Below(S, rank, x) \subseteq Below(S, rank, y)
    BY <1>1, <1>4 DEF Below
  <2> QED
    BY <1>2, <2>1
<1> QED
  BY <1>2, <1>3, <1>4

\* Two ranked elements with as many elements below them are one.
LEMMA RankCounts ==
  ASSUME NEW S, NEW rank, Ranked(S, rank), NEW x \in S, NEW y \in S,
         Cardinality(Below(S, rank, x)) = Cardinality(Below(S, rank, y))
  PROVE  x = y
<1>1. rank[x] \in Nat /\ rank[y] \in Nat /\ (rank[x] = rank[y] => x = y)
  BY DEF Ranked
<1>2. ~ rank[x] < rank[y] /\ ~ rank[y] < rank[x]
  <2>1. Cardinality(Below(S, rank, x)) \in Nat /\ Cardinality(Below(S, rank, y)) \in Nat
    BY BelowCounts
  <2>2. /\ rank[x] < rank[y] =>
             Cardinality(Below(S, rank, x)) < Cardinality(Below(S, rank, y))
        /\ rank[y] < rank[x] =>
             Cardinality(Below(S, rank, y)) < Cardinality(Below(S, rank, x))
    BY BelowCounts
  <2> QED
    BY <2>1, <2>2
<1> QED
  BY <1>1, <1>2

Sorted(s, S, rank, n) ==
  /\ n \in Nat /\ s \in [1..n -> S]
  /\ \A x \in S : \E i \in 1..n : s[i] = x
  /\ \A i, j \in 1..n : i < j => rank[s[i]] < rank[s[j]]
  /\ \A i \in 1..n, x \in S : Cardinality(Below(S, rank, x)) = i - 1 => s[i] = x

\* ORDER BY lists every element of a finite ranked set once, by rank.
LEMMA InOrderFacts ==
  ASSUME NEW S, NEW rank, Ranked(S, rank)
  PROVE  Sorted(InOrder(S, rank), S, rank, Cardinality(S))
<1>1. PICK n : n = Cardinality(S)
  OBVIOUS
<1>2. PICK count : count = [x \in S |-> Cardinality(Below(S, rank, x))]
  OBVIOUS
<1>3. n \in Nat /\ IsFiniteSet(S) /\ \A x \in S : rank[x] \in Nat
  BY <1>1, FS_CardinalityType DEF Ranked
<1>4. \A x \in S : count[x] \in 0..(n - 1)
  <2> SUFFICES ASSUME NEW x \in S PROVE count[x] \in 0..(n - 1)
    OBVIOUS
  <2>1. Cardinality(Below(S, rank, x)) \in Nat /\ Cardinality(Below(S, rank, x)) < n
    BY <1>1, BelowCounts
  <2> QED
    BY <1>2, <1>3, <2>1
<1>5. count \in Injection(S, 0..(n - 1))
  <2>1. ASSUME NEW x \in S, NEW y \in S, x # y PROVE count[x] # count[y]
    BY <1>2, <2>1, RankCounts
  <2> QED
    BY <1>2, <1>4, <2>1 DEF Injection, IsInjective
<1>6. IsFiniteSet(0..(n - 1)) /\ Cardinality(0..(n - 1)) = n
  BY <1>3, FS_Interval
<1>7. count \in Surjection(S, 0..(n - 1))
  BY <1>1, <1>5, <1>6, FS_Injection
<1>8. ASSUME NEW i \in 1..n
      PROVE  \E x \in S : Cardinality(Below(S, rank, x)) = i - 1
  <2>1. i - 1 \in 0..(n - 1)
    BY <1>3
  <2>2. PICK x \in S : count[x] = i - 1
    BY <1>7, <2>1 DEF Surjection
  <2> QED
    BY <1>2, <2>2
<1>9. PICK s : s = InOrder(S, rank)
  OBVIOUS
<1>10. ASSUME NEW i \in 1..n
       PROVE  s[i] \in S /\ Cardinality(Below(S, rank, s[i])) = i - 1
  <2>1. s[i] = CHOOSE x \in S : Cardinality(Below(S, rank, x)) = i - 1
    BY <1>1, <1>9 DEF InOrder, Below
  <2> QED
    BY <1>8, <2>1
<1>11. s \in [1..n -> S]
  BY <1>1, <1>9, <1>10 DEF InOrder
<1>12. ASSUME NEW i \in 1..n, NEW x \in S, Cardinality(Below(S, rank, x)) = i - 1
       PROVE  s[i] = x
  <2>1. s[i] \in S /\ Cardinality(Below(S, rank, s[i])) = Cardinality(Below(S, rank, x))
    BY <1>10, <1>12
  <2> QED
    BY <2>1, RankCounts
<1>13. ASSUME NEW x \in S PROVE \E i \in 1..n : s[i] = x
  <2>1. PICK i : i = Cardinality(Below(S, rank, x)) + 1
    OBVIOUS
  <2>2. i \in 1..n /\ Cardinality(Below(S, rank, x)) = i - 1
    <3>1. Cardinality(Below(S, rank, x)) \in Nat /\ Cardinality(Below(S, rank, x)) < n
      BY <1>1, BelowCounts
    <3> QED
      BY <1>3, <2>1, <3>1
  <2> QED
    BY <1>12, <2>2
<1>14. ASSUME NEW i \in 1..n, NEW j \in 1..n, i < j PROVE rank[s[i]] < rank[s[j]]
  <2>1. PICK x \in S, y \in S : x = s[i] /\ y = s[j]
    BY <1>10
  <2>2. Cardinality(Below(S, rank, x)) = i - 1 /\ Cardinality(Below(S, rank, y)) = j - 1
    BY <1>10, <2>1
  <2>3. x # y /\ ~ rank[y] < rank[x]
    <3>1. i - 1 # j - 1 /\ ~ j - 1 < i - 1
      BY <1>3, <1>14
    <3> QED
      BY <2>2, <3>1, BelowCounts
  <2>4. rank[x] \in Nat /\ rank[y] \in Nat /\ rank[x] # rank[y]
    BY <2>3 DEF Ranked
  <2> QED
    BY <2>1, <2>3, <2>4
<1> QED
  BY <1>1, <1>3, <1>9, <1>11, <1>12, <1>13, <1>14 DEF Sorted

\* The members of an interval, in order.
Counts(s, K, a, n) == s \in [1..n -> K] /\ \A i \in 1..n : s[i] = a + i

\* An interval of sequences in order is counted through.
LEMMA IntervalInOrder ==
  ASSUME NEW a \in Nat, NEW b \in Nat, a <= b, NEW K, K = (a + 1)..b
  PROVE  Counts(InOrder(K, [x \in K |-> x]), K, a, b - a)
<1>1. PICK rank : rank = [x \in K |-> x]
  OBVIOUS
<1>2. IsFiniteSet(K) /\ Cardinality(K) = b - a
  <2>1. /\ a + 1 \in Int /\ b \in Int
        /\ IF a + 1 > b THEN 0 = b - a ELSE b - (a + 1) + 1 = b - a
    OBVIOUS
  <2> QED
    BY <2>1, FS_Interval
<1>3. \A x \in K : x \in Nat /\ a + 1 <= x /\ x <= b
  OBVIOUS
<1>4. Ranked(K, rank)
  BY <1>1, <1>2, <1>3 DEF Ranked
<1>5. ASSUME NEW i \in 1..(b - a)
      PROVE  a + i \in K /\ Cardinality(Below(K, rank, a + i)) = i - 1
  <2>1. a + i \in K
    OBVIOUS
  <2>2. Below(K, rank, a + i) = (a + 1)..(a + i - 1)
    <3>1. \A x \in K : rank[x] < rank[a + i] <=> x < a + i
      BY <1>1, <2>1
    <3>2. ASSUME NEW x PROVE x \in Below(K, rank, a + i) <=> x \in (a + 1)..(a + i - 1)
      BY <1>3, <3>1 DEF Below
    <3> QED
      BY <3>2
  <2>3. Cardinality((a + 1)..(a + i - 1)) = i - 1
    <3>1. /\ a + 1 \in Int /\ a + i - 1 \in Int
          /\ IF a + 1 > a + i - 1 THEN 0 = i - 1 ELSE a + i - 1 - (a + 1) + 1 = i - 1
      OBVIOUS
    <3> QED
      BY <3>1, FS_Interval
  <2> QED
    BY <2>1, <2>2, <2>3
<1>6. PICK s, n : s = InOrder(K, rank) /\ n = Cardinality(K)
  OBVIOUS
<1>7. /\ s \in [1..n -> K]
      /\ \A i \in 1..n, x \in K : Cardinality(Below(K, rank, x)) = i - 1 => s[i] = x
  <2>1. Sorted(InOrder(K, rank), K, rank, Cardinality(K))
    BY <1>4, InOrderFacts
  <2> QED
    BY <1>6, <2>1 DEF Sorted
<1> QED
  BY <1>1, <1>2, <1>5, <1>6, <1>7 DEF Counts
-----------------------------------------------------------------------------
\* A database whose head is a checkpoint of another one is of the other's past.
Past(t, d, k) ==
  LET c == d.head.chain IN
  /\ k \in 0..Len(c) /\ Len(t.head.chain) = k /\ t.head.seq = EndOf(c, k)
  /\ Len(t.journal) = EndOf(c, k) /\ Len(d.journal) = d.head.seq
  /\ EndOf(c, k) \in Nat /\ d.head.seq \in Nat /\ EndOf(c, k) <= d.head.seq
  /\ t.receipts = {ReceiptAt(c, i) : i \in 1..k}
  /\ t.checkpoints = {BoundaryAt(c, i) : i \in 0..k}
  /\ \A n \in 1..Len(t.journal) : n \in 1..Len(d.journal) /\ t.journal[n] = d.journal[n]

\* What the prefix of a chain says is what the chain says up to it.
SaysAsMuch(a, c, k) ==
  /\ Len(a) = k
  /\ \A i \in 0..k : EndOf(a, i) = EndOf(c, i) /\ BoundaryAt(a, i) = BoundaryAt(c, i)
  /\ \A i \in 1..k : a[i] = c[i] /\ ReceiptAt(a, i) = ReceiptAt(c, i)

\* The first links of a chain are a chain that says the same of them.
LEMMA PrefixFacts ==
  ASSUME NEW c, Linked(c), NEW k \in 0..Len(c)
  PROVE  SaysAsMuch(SubSeq(c, 1, k), c, k)
<1> PICK a : a = SubSeq(c, 1, k)
  OBVIOUS
<1>1. Len(c) \in Nat /\ c \in Seq(Link)
  BY LinkFacts
<1>2. /\ a \in Seq(Link) /\ Len(a) = k
      /\ \A i \in 1..k : a[i] = c[i]
  BY <1>1, SubSeqProperties
<1>3. \A i \in 0..k : EndOf(a, i) = EndOf(c, i)
  BY <1>2 DEF EndOf
<1>4. ASSUME NEW i \in 0..k PROVE SubSeq(a, 1, i) = SubSeq(c, 1, i)
  <2>1. CASE i = 0
    BY <1>1, <1>2, <2>1, SubSeqEmpty
  <2>2. CASE i # 0
    <3>1. /\ SubSeq(a, 1, i) \in Seq(Link) /\ Len(SubSeq(a, 1, i)) = i
          /\ \A x \in 1..i : SubSeq(a, 1, i)[x] = a[x]
      BY <1>1, <1>2, <2>2, SubSeqProperties
    <3>2. /\ SubSeq(c, 1, i) \in Seq(Link) /\ Len(SubSeq(c, 1, i)) = i
          /\ \A x \in 1..i : SubSeq(c, 1, i)[x] = c[x]
      BY <1>1, <2>2, SubSeqProperties
    <3>3. \A x \in 1..i : a[x] = c[x]
      BY <1>2
    <3> QED
      BY <3>1, <3>2, <3>3, SeqEqual
  <2> QED
    BY <2>1, <2>2
<1>5. \A i \in 0..k : BoundaryAt(a, i) = BoundaryAt(c, i)
  BY <1>3, <1>4 DEF BoundaryAt
<1>6. \A i \in 1..k : ReceiptAt(a, i) = ReceiptAt(c, i)
  <2>1. \A i \in 1..k : i - 1 \in 0..k /\ i \in 0..k
    BY <1>1
  <2> QED
    BY <1>2, <1>4, <2>1 DEF ReceiptAt
<1> QED
  BY <1>2, <1>3, <1>5, <1>6 DEF SaysAsMuch

\* A database whose head is a boundary of another one holds a prefix of its chain.
LEMMA SamePast ==
  ASSUME NEW t, NEW d, Exact(t), Exact(d), t.head \in d.checkpoints
  PROVE  \E k \in 0..Len(d.head.chain) : Past(t, d, k)
<1>1. PICK a, c : a = t.head.chain /\ c = d.head.chain
  OBVIOUS
<1>2. /\ Linked(a) /\ t.head = BoundaryAt(a, Len(a))
      /\ t.receipts = {ReceiptAt(a, i) : i \in 1..Len(a)}
      /\ t.checkpoints = {BoundaryAt(a, i) : i \in 0..Len(a)}
      /\ Filled(t.journal, a)
  BY <1>1 DEF Exact, Chained
<1>3. /\ Linked(c) /\ d.head = BoundaryAt(c, Len(c))
      /\ d.checkpoints = {BoundaryAt(c, i) : i \in 0..Len(c)}
      /\ Filled(d.journal, c)
  BY <1>1 DEF Exact, Chained
<1>4. PICK k \in 0..Len(c) : t.head = BoundaryAt(c, k)
  BY <1>3
<1>5. a = SubSeq(c, 1, k) /\ t.head.seq = EndOf(c, k)
  BY <1>1, <1>4 DEF BoundaryAt
<1>6. /\ Len(a) = k /\ Len(c) \in Nat /\ k \in Nat
      /\ \A i \in 0..k : EndOf(a, i) = EndOf(c, i) /\ BoundaryAt(a, i) = BoundaryAt(c, i)
      /\ \A i \in 1..k : a[i] = c[i] /\ ReceiptAt(a, i) = ReceiptAt(c, i)
  <2>1. Len(c) \in Nat /\ k \in Nat
    BY <1>3, LinkFacts
  <2>2. /\ Len(a) = k
        /\ \A i \in 0..k : EndOf(a, i) = EndOf(c, i) /\ BoundaryAt(a, i) = BoundaryAt(c, i)
        /\ \A i \in 1..k : a[i] = c[i] /\ ReceiptAt(a, i) = ReceiptAt(c, i)
    <3>1. SaysAsMuch(SubSeq(c, 1, k), c, k)
      BY <1>3, PrefixFacts
    <3> QED
      BY <1>5, <3>1 DEF SaysAsMuch
  <2> QED
    BY <2>1, <2>2
<1>7. /\ t.receipts = {ReceiptAt(c, i) : i \in 1..k}
      /\ t.checkpoints = {BoundaryAt(c, i) : i \in 0..k}
  BY <1>2, <1>6
<1>8. d.head.seq = EndOf(c, Len(c)) /\ Len(d.journal) = d.head.seq
  BY <1>3 DEF BoundaryAt, Filled
<1>9. EndOf(c, k) \in Nat /\ d.head.seq \in Nat /\ EndOf(c, k) <= d.head.seq
  <2>1. Len(c) \in 0..Len(c) /\ k <= Len(c)
    BY <1>6
  <2>2. EndOf(c, k) \in Nat /\ EndOf(c, Len(c)) \in Nat
    BY <1>3, <2>1, LinkFacts
  <2>3. EndOf(c, k) <= EndOf(c, Len(c))
    BY <1>3, <2>1 DEF Linked
  <2> QED
    BY <1>8, <2>2, <2>3
<1>10. Len(t.journal) = EndOf(c, k)
  <2>1. k \in 0..k /\ Len(t.journal) = EndOf(a, k)
    BY <1>2, <1>6 DEF Filled
  <2> QED
    BY <1>6, <2>1
<1>11. ASSUME NEW n \in 1..Len(t.journal)
       PROVE  n \in 1..Len(d.journal) /\ t.journal[n] = d.journal[n]
  <2>1. PICK i \in 1..k : a[i].from <= n /\ n <= a[i].to
    BY <1>2, <1>6 DEF Filled
  <2>2. PICK e, m : e = EndOf(a, i - 1) /\ m = Len(a[i].batch.muts)
    OBVIOUS
  <2>3. e \in Nat /\ m \in Nat /\ a[i].from = e + 1 /\ a[i].to = e + m
    <3>1. i - 1 \in 0..Len(a) /\ i \in 1..Len(a)
      BY <1>6
    <3> QED
      BY <1>2, <2>2, <3>1, LinkFacts DEF Linked
  <2>4. PICK x : x = n - e
    OBVIOUS
  <2>5. x \in 1..m /\ n = e + x
    BY <1>9, <1>10, <2>1, <2>3, <2>4
  <2>6. t.journal[e + x] = Archive!JournalRows(a[i].batch)[x]
    BY <1>2, <1>6, <2>2, <2>5 DEF Filled
  <2>7. e = EndOf(c, i - 1) /\ a[i] = c[i] /\ i \in 1..Len(c)
    <3>1. i - 1 \in 0..k
      BY <1>6
    <3> QED
      BY <1>6, <2>2, <3>1
  <2>8. d.journal[e + x] = Archive!JournalRows(a[i].batch)[x]
    BY <1>3, <2>2, <2>5, <2>7 DEF Filled
  <2> QED
    BY <1>8, <1>9, <1>10, <2>5, <2>6, <2>8
<1> QED
  BY <1>1, <1>4, <1>5, <1>6, <1>7, <1>8, <1>9, <1>10, <1>11 DEF Past

-----------------------------------------------------------------------------
\* What Merged is, field by field.
LEMMA MergedFields ==
  ASSUME NEW t, DOMAIN t = Fields
  PROVE  LET m == Merged(t)
             from == t.head.seq + 1
         IN  /\ DOMAIN m = Fields
             /\ m.journal = t.journal \o RowsFrom(t, from)
             /\ m.receipts = t.receipts \union
                  {r \in receipts : /\ r.from >= from
                                    /\ \A q \in t.receipts : q.batch.id # r.batch.id}
             /\ m.checkpoints = t.checkpoints \union {p \in checkpoints : p.seq >= from}
             /\ m.admitted = t.admitted \union admitted
             /\ m.lastSeq = [c \in DOMAIN t.lastSeq |->
                               IF c \in admitted THEN lastSeq[c] ELSE t.lastSeq[c]]
             /\ m.head = head
             /\ m.namespace = t.namespace
             /\ m.stateRecords = t.stateRecords
<1>1. PICK h : h = WithHistoryFrom(t, t.head.seq + 1)
  OBVIOUS
<1>2. /\ DOMAIN h = Fields
      /\ h.journal = t.journal \o RowsFrom(t, t.head.seq + 1)
      /\ h.receipts = t.receipts \union
           {r \in receipts : /\ r.from >= t.head.seq + 1
                             /\ \A q \in t.receipts : q.batch.id # r.batch.id}
      /\ h.checkpoints = t.checkpoints \union {p \in checkpoints : p.seq >= t.head.seq + 1}
      /\ h.admitted = t.admitted /\ h.lastSeq = t.lastSeq /\ h.namespace = t.namespace
      /\ h.stateRecords = t.stateRecords
  BY <1>1 DEF WithHistoryFrom, Fields
<1>3. PICK g : g = WithClients(h)
  OBVIOUS
<1>4. /\ DOMAIN g = Fields
      /\ g.journal = h.journal /\ g.receipts = h.receipts /\ g.checkpoints = h.checkpoints
      /\ g.admitted = h.admitted \union admitted /\ g.namespace = h.namespace
      /\ g.lastSeq = [c \in DOMAIN h.lastSeq |->
                        IF c \in admitted THEN lastSeq[c] ELSE h.lastSeq[c]]
      /\ g.stateRecords = h.stateRecords
  BY <1>2, <1>3 DEF WithClients, Fields
<1>5. PICK m : m = WithHead(g)
  OBVIOUS
<1>6. /\ DOMAIN m = Fields
      /\ m.journal = g.journal /\ m.receipts = g.receipts /\ m.checkpoints = g.checkpoints
      /\ m.admitted = g.admitted /\ m.namespace = g.namespace /\ m.lastSeq = g.lastSeq
      /\ m.stateRecords = g.stateRecords /\ m.head = head
  BY <1>4, <1>5 DEF WithHead, Fields
<1>7. m = Merged(t)
  BY <1>1, <1>3, <1>5 DEF Merged
<1> QED
  BY <1>2, <1>4, <1>6, <1>7
ActiveFields ==
  /\ Active.admitted = admitted /\ Active.lastSeq = lastSeq /\ Active.journal = journal
  /\ Active.stateRecords = stateRecords /\ Active.receipts = receipts
  /\ Active.checkpoints = checkpoints /\ Active.head = head
  /\ Active.namespace = namespace /\ Active.audit = audit
  /\ DOMAIN Active = Fields

\* The fields of the active database are its variables.
LEMMA ActiveIs == ActiveFields
  BY DEF ActiveFields, Active, Fields

\* _copy_future_history: after a common past, the rows from the next sequence on complete the journal.
LEMMA RowsFromPast ==
  ASSUME NEW t, Exact(t), Exact(Active), NEW k, Past(t, Active, k)
  PROVE  t.journal \o RowsFrom(t, t.head.seq + 1) = journal
<1>1. PICK h, n, j : h = t.head.seq /\ n = Len(journal) /\ j = t.journal
  OBVIOUS
<1>2. /\ h \in Nat /\ n \in Nat /\ h <= n /\ Len(j) = h
      /\ \A i \in 1..h : i \in 1..n /\ j[i] = journal[i]
  <2>1. Active.journal = journal
    BY ActiveIs DEF ActiveFields
  <2> QED
    BY <1>1, <2>1 DEF Past
<1>3. /\ j \in Seq(JournalRow) /\ journal \in Seq(JournalRow)
      /\ \A x, y \in 1..n : journal[x].mid = journal[y].mid => x = y
  <2>1. Filled(j, t.head.chain) /\ Filled(journal, head.chain)
    BY <1>1, ActiveIs DEF ActiveFields, Exact
  <2> QED
    BY <1>1, <2>1 DEF Filled
<1>4. PICK K : K = {x \in (t.head.seq + 1)..Len(journal) :
                      \A i \in 1..Len(t.journal) : t.journal[i].mid # journal[x].mid}
  OBVIOUS
<1>5. K = (h + 1)..n
  <2>1. ASSUME NEW x \in (h + 1)..n, NEW i \in 1..h PROVE j[i].mid # journal[x].mid
    <3>1. x \in 1..n /\ i \in 1..n /\ i # x /\ j[i] = journal[i]
      BY <1>2
    <3> QED
      BY <1>3, <3>1
  <2>2. K = {x \in (h + 1)..n : \A i \in 1..h : j[i].mid # journal[x].mid}
    BY <1>1, <1>2, <1>4
  <2> QED
    BY <2>1, <2>2
<1>6. PICK s : s = InOrder(K, [x \in K |-> x])
  OBVIOUS
<1>7. s \in [1..(n - h) -> K] /\ \A i \in 1..(n - h) : s[i] = h + i
  <2>1. Counts(InOrder(K, [x \in K |-> x]), K, h, n - h)
    BY <1>2, <1>5, IntervalInOrder
  <2> QED
    BY <1>6, <2>1 DEF Counts
<1>8. PICK r : r = RowsFrom(t, t.head.seq + 1)
  OBVIOUS
<1>9. r = [i \in DOMAIN s |-> journal[s[i]]]
  BY <1>4, <1>6, <1>8 DEF RowsFrom
<1>10. \A i \in 1..(n - h) : r[i] = journal[h + i] /\ h + i \in 1..n
  BY <1>2, <1>7, <1>9
<1>11. r \in Seq(JournalRow) /\ Len(r) = n - h
  <2>1. \A i \in 1..(n - h) : journal[h + i] \in JournalRow
    BY <1>1, <1>3, <1>10, ElementOfSeq
  <2>2. r \in [1..(n - h) -> JournalRow]
    BY <1>7, <1>9, <1>10, <2>1
  <2>3. n - h \in Nat
    BY <1>2
  <2> QED
    BY <2>2, <2>3, SeqDef, LenProperties
<1>12. /\ j \o r \in Seq(JournalRow) /\ Len(j \o r) = n
       /\ \A i \in 1..n : (j \o r)[i] = IF i <= h THEN j[i] ELSE r[i - h]
  <2>1. /\ j \o r \in Seq(JournalRow) /\ Len(j \o r) = Len(j) + Len(r)
        /\ \A i \in 1..(Len(j) + Len(r)) : (j \o r)[i] = IF i <= Len(j) THEN j[i] ELSE r[i - Len(j)]
    BY <1>3, <1>11, ConcatProperties
  <2>2. Len(j) = h /\ Len(j) + Len(r) = n
    BY <1>2, <1>11
  <2> QED
    BY <2>1, <2>2
<1>13. ASSUME NEW i \in 1..n PROVE (j \o r)[i] = journal[i]
  <2>1. CASE i <= h
    BY <1>2, <1>12, <2>1
  <2>2. CASE ~ i <= h
    <3>1. i - h \in 1..(n - h) /\ h + (i - h) = i
      BY <1>2, <2>2
    <3> QED
      BY <1>10, <1>12, <2>2, <3>1
  <2> QED
    BY <2>1, <2>2
<1>14. j \o r = journal
  BY <1>1, <1>3, <1>12, <1>13, SeqEqual
<1> QED
  BY <1>1, <1>8, <1>14

MergesInto(t, m) ==
  /\ DOMAIN m = Fields
  /\ m.journal = journal
  /\ m.receipts = receipts
  /\ m.checkpoints = checkpoints
  /\ m.head = head
  /\ m.admitted = t.admitted \union admitted
  /\ m.lastSeq = lastSeq
  /\ m.namespace = TRUE
  /\ m.stateRecords = t.stateRecords

\* What a restore merges of its own past is the active database but for the state.
LEMMA MergeIs ==
  ASSUME NEW t, Exact(t), Exact(Active), t.head \in checkpoints
  PROVE  MergesInto(t, Merged(t))
<1>1. PICK k \in 0..Len(head.chain) : Past(t, Active, k)
  <2>1. Active.head = head /\ Active.checkpoints = checkpoints
    BY ActiveIs DEF ActiveFields
  <2>2. \E k \in 0..Len(Active.head.chain) : Past(t, Active, k)
    BY <2>1, SamePast
  <2> QED
    BY <2>1, <2>2
<1>2. PICK c, h, m : c = head.chain /\ h = t.head.seq /\ m = Merged(t)
  OBVIOUS
<1>3. /\ Linked(c) /\ h = EndOf(c, k)
      /\ receipts = {ReceiptAt(c, i) : i \in 1..Len(c)}
      /\ checkpoints = {BoundaryAt(c, i) : i \in 0..Len(c)}
      /\ t.receipts = {ReceiptAt(c, i) : i \in 1..k}
      /\ t.checkpoints = {BoundaryAt(c, i) : i \in 0..k}
      /\ Len(t.journal) = h
      /\ \A n \in 1..Len(t.journal) : n \in 1..Len(journal) /\ t.journal[n] = journal[n]
  <2>1. Active.head = head /\ Active.receipts = receipts /\ Active.checkpoints = checkpoints
        /\ Active.journal = journal
    BY ActiveIs DEF ActiveFields
  <2>2. Chained(Active)
    BY DEF Exact
  <2> QED
    BY <1>1, <1>2, <2>1, <2>2 DEF Past, Chained
<1>4. /\ DOMAIN m = Fields
      /\ m.journal = t.journal \o RowsFrom(t, h + 1)
      /\ m.receipts = t.receipts \union
           {r \in receipts : r.from >= h + 1 /\ \A q \in t.receipts : q.batch.id # r.batch.id}
      /\ m.checkpoints = t.checkpoints \union {p \in checkpoints : p.seq >= h + 1}
      /\ m.admitted = t.admitted \union admitted
      /\ m.lastSeq = [x \in DOMAIN t.lastSeq |->
                        IF x \in admitted THEN lastSeq[x] ELSE t.lastSeq[x]]
      /\ m.head = head /\ m.namespace = t.namespace /\ m.stateRecords = t.stateRecords
  <2>1. DOMAIN t = Fields
    BY DEF Exact
  <2>2. /\ DOMAIN Merged(t) = Fields
        /\ Merged(t).journal = t.journal \o RowsFrom(t, t.head.seq + 1)
        /\ Merged(t).receipts = t.receipts \union
             {r \in receipts : /\ r.from >= t.head.seq + 1
                               /\ \A q \in t.receipts : q.batch.id # r.batch.id}
        /\ Merged(t).checkpoints = t.checkpoints \union
             {p \in checkpoints : p.seq >= t.head.seq + 1}
        /\ Merged(t).admitted = t.admitted \union admitted
        /\ Merged(t).lastSeq = [x \in DOMAIN t.lastSeq |->
                                  IF x \in admitted THEN lastSeq[x] ELSE t.lastSeq[x]]
        /\ Merged(t).head = head /\ Merged(t).namespace = t.namespace
        /\ Merged(t).stateRecords = t.stateRecords
    BY <2>1, MergedFields
  <2> QED
    BY <1>2, <2>2
<1>5. m.journal = journal
  BY <1>1, <1>2, <1>4, RowsFromPast
<1>6. /\ Len(c) \in Nat /\ k \in 0..Len(c)
      /\ \A i \in 0..Len(c) : EndOf(c, i) \in Nat
      /\ \A i \in 1..Len(c) : i > k => /\ c[i].from >= h + 1 /\ c[i].to >= h + 1
                                       /\ EndOf(c, i) = c[i].to
  <2>1. /\ Len(c) \in Nat /\ k \in 0..Len(c)
        /\ \A i \in 0..Len(c) : EndOf(c, i) \in Nat
        /\ \A i \in 1..Len(c) : Len(c[i].batch.muts) \in Nat \ {0}
    BY <1>1, <1>2, <1>3, LinkFacts
  <2>2. ASSUME NEW i \in 1..Len(c), i > k
        PROVE  c[i].from >= h + 1 /\ c[i].to >= h + 1 /\ EndOf(c, i) = c[i].to
    <3>1. i - 1 \in 0..Len(c) /\ k <= i - 1 /\ k \in 0..Len(c)
      BY <2>1, <2>2
    <3>2. /\ EndOf(c, k) <= EndOf(c, i - 1)
          /\ c[i].from = EndOf(c, i - 1) + 1
          /\ c[i].to = EndOf(c, i - 1) + Len(c[i].batch.muts)
      BY <1>3, <3>1 DEF Linked
    <3>3. EndOf(c, i - 1) \in Nat /\ EndOf(c, k) \in Nat /\ Len(c[i].batch.muts) \in Nat \ {0}
      BY <2>1, <3>1
    <3>4. EndOf(c, i) = c[i].to
      BY DEF EndOf
    <3> QED
      BY <1>3, <3>2, <3>3, <3>4
  <2> QED
    BY <2>1, <2>2
<1>7. m.receipts = receipts
  <2>1. t.receipts \subseteq receipts
    <3>1. \A i \in 1..k : i \in 1..Len(c)
      BY <1>6
    <3> QED
      BY <1>3, <3>1
  <2>2. ASSUME NEW r \in receipts PROVE r \in m.receipts
    <3>1. PICK i \in 1..Len(c) : r = ReceiptAt(c, i)
      BY <1>3
    <3>2. CASE i <= k
      <4>1. i \in 1..k
        BY <1>6, <3>2
      <4> QED
        BY <1>3, <1>4, <3>1, <4>1
    <3>3. CASE i > k
      <4>1. r.from >= h + 1 /\ r.batch = c[i].batch
        BY <1>6, <3>1, <3>3 DEF ReceiptAt
      <4>2. ASSUME NEW q \in t.receipts PROVE q.batch.id # r.batch.id
        <5>1. PICK x \in 1..k : q = ReceiptAt(c, x)
          BY <1>3
        <5>2. x # i /\ x \in 1..Len(c) /\ q.batch = c[x].batch
          BY <1>6, <3>3, <5>1 DEF ReceiptAt
        <5> QED
          BY <1>3, <4>1, <5>2 DEF Linked
      <4> QED
        BY <1>4, <4>1, <4>2
    <3> QED
      BY <1>6, <3>2, <3>3
  <2> QED
    BY <1>4, <2>1, <2>2
<1>8. m.checkpoints = checkpoints
  <2>1. t.checkpoints \subseteq checkpoints
    <3>1. \A i \in 0..k : i \in 0..Len(c)
      BY <1>6
    <3> QED
      BY <1>3, <3>1
  <2>2. ASSUME NEW p \in checkpoints PROVE p \in m.checkpoints
    <3>1. PICK i \in 0..Len(c) : p = BoundaryAt(c, i)
      BY <1>3
    <3>2. CASE i <= k
      <4>1. i \in 0..k
        BY <1>6, <3>2
      <4> QED
        BY <1>3, <1>4, <3>1, <4>1
    <3>3. CASE i > k
      <4>1. i \in 1..Len(c)
        BY <1>6, <3>3
      <4>2. p.seq = EndOf(c, i)
        BY <3>1 DEF BoundaryAt
      <4>3. p.seq >= h + 1
        BY <1>6, <3>3, <4>1, <4>2
      <4> QED
        BY <1>4, <4>3
    <3> QED
      BY <1>6, <3>2, <3>3
  <2> QED
    BY <1>4, <2>1, <2>2
<1>9. m.lastSeq = lastSeq
  <2>1. /\ t.lastSeq \in [Senders -> Nat] /\ lastSeq \in [Senders -> Nat]
        /\ \A x \in Senders \ admitted : lastSeq[x] = 0
        /\ \A x \in Senders : \A n \in 1..Len(journal) :
             journal[n].client = x => journal[n].cseq <= lastSeq[x]
        /\ \A x \in Senders : \A s \in 1..t.lastSeq[x] : \E n \in 1..Len(t.journal) :
             t.journal[n].client = x /\ t.journal[n].cseq = s
    <3>1. InStreams(t) /\ InStreams(Active)
      BY DEF Exact
    <3>2. Active.lastSeq = lastSeq /\ Active.admitted = admitted /\ Active.journal = journal
      BY ActiveIs DEF ActiveFields
    <3> QED
      BY <3>1, <3>2 DEF InStreams
  <2>2. ASSUME NEW x \in Senders, x \notin admitted PROVE t.lastSeq[x] = lastSeq[x]
    <3>1. lastSeq[x] = 0 /\ t.lastSeq[x] \in Nat
      BY <2>1, <2>2
    <3>2. CASE t.lastSeq[x] # 0
      <4>1. PICK s : s = t.lastSeq[x]
        OBVIOUS
      <4>2. s \in 1..s /\ s \in Nat \ {0}
        BY <3>1, <3>2, <4>1
      <4>3. PICK n \in 1..Len(t.journal) : t.journal[n].client = x /\ t.journal[n].cseq = s
        BY <2>1, <4>1, <4>2
      <4>4. s <= 0
        BY <1>3, <2>1, <3>1, <4>3
      <4> QED
        BY <4>2, <4>4
    <3> QED
      BY <3>1, <3>2
  <2>3. DOMAIN t.lastSeq = Senders
    BY <2>1
  <2>4. m.lastSeq = [x \in Senders |-> lastSeq[x]]
    BY <1>4, <2>2, <2>3
  <2> QED
    BY <2>1, <2>4
<1>10. m.namespace = TRUE
  BY <1>4 DEF Exact
<1> QED
  BY <1>2, <1>4, <1>5, <1>7, <1>8, <1>9, <1>10 DEF MergesInto
\* The merged database is exact, shows what the snapshot shows, and lacks the record of
\* a journaled key only where the snapshot does and the active database does not.
LEMMA MergedIsExact ==
  ASSUME NEW t, Exact(t), Exact(Active), t.head \in checkpoints
  PROVE  /\ Exact(Merged(t))
         /\ \A k \in Keys : Shown(Merged(t), k) = Shown(t, k)
         /\ Replayed(Active) =>
              \A k \in Keys : \/ IsCurrent(k, Merged(t).stateRecords, Merged(t).journal)
                              \/ t.stateRecords[k] # NoRecord
                              \/ stateRecords[k] # NoRecord
<1>1. PICK m, j, s : m = Merged(t) /\ j = t.journal /\ s = t.stateRecords
  OBVIOUS
<1>2. /\ DOMAIN m = Fields /\ m.journal = journal /\ m.receipts = receipts
      /\ m.checkpoints = checkpoints /\ m.head = head
      /\ m.admitted = t.admitted \union admitted /\ m.lastSeq = lastSeq
      /\ m.namespace = TRUE /\ m.stateRecords = s
  BY <1>1, MergeIs DEF MergesInto
<1>3. ActiveFields
  BY ActiveIs
<1>4. /\ Chained(Active) /\ Filled(journal, head.chain) /\ InStreams(Active)
      /\ InStreams(t) /\ Points(s, j)
  BY <1>1, <1>3 DEF Exact, ActiveFields
<1>5. Chained(m)
  BY <1>2, <1>3, <1>4 DEF Chained, ActiveFields
<1>6. Filled(m.journal, m.head.chain)
  BY <1>2, <1>4
<1>7. InStreams(m)
  <2>1. m.admitted \subseteq Senders /\ \A c \in Senders \ m.admitted : c \in Senders \ admitted
    BY <1>2, <1>3, <1>4 DEF InStreams, ActiveFields
  <2>2. \A c \in Senders \ m.admitted : m.lastSeq[c] = 0
    BY <1>2, <1>3, <1>4, <2>1 DEF InStreams, ActiveFields
  <2> QED
    BY <1>2, <1>3, <1>4, <2>1, <2>2 DEF InStreams, ActiveFields
<1>8. \A n \in 1..Len(j) : n \in 1..Len(journal) /\ j[n] = journal[n]
  <2>1. PICK k : Past(t, Active, k)
    BY <1>3, SamePast DEF ActiveFields
  <2> QED
    BY <1>1, <1>3, <2>1 DEF Past, ActiveFields
<1>9. \A k \in Keys : s[k] # NoRecord =>
        /\ s[k].seq \in 1..Len(j) /\ s[k].seq \in 1..Len(journal)
        /\ journal[s[k].seq] = j[s[k].seq] /\ j[s[k].seq].key = k /\ j[s[k].seq].kind = s[k].kind
  BY <1>4, <1>8 DEF Points
<1>10. Points(m.stateRecords, m.journal)
  BY <1>2, <1>4, <1>9 DEF Points
<1>11. Exact(m)
  BY <1>2, <1>5, <1>6, <1>7, <1>10 DEF Exact
<1>12. ASSUME NEW k \in Keys PROVE Shown(m, k) = Shown(t, k)
  BY <1>1, <1>2, <1>9 DEF Shown
<1>13. ASSUME Replayed(Active), NEW k \in Keys, s[k] = NoRecord, stateRecords[k] = NoRecord
       PROVE  IsCurrent(k, s, journal)
  <2>1. IsCurrent(k, stateRecords, journal)
    BY <1>3, <1>13 DEF Replayed, ActiveFields
  <2> QED
    BY <1>13, <2>1 DEF IsCurrent
<1> QED
  BY <1>1, <1>2, <1>11, <1>12, <1>13
-----------------------------------------------------------------------------
\* What the restore reads and queues.
LEMMA RankFacts ==
  ASSUME NEW S, S \subseteq Keys
  PROVE  Ranked(S, Rank) /\ \A k \in S : Rank[k] \in Nat \ {0}
<1>1. IsFiniteSet(S)
  BY RankAssumption, FS_Subset
<1> QED
  BY <1>1, RankAssumption DEF Ranked

PageOf(p, records) ==
  /\ p \in Seq(Keys) /\ Len(p) \in Nat
  /\ \A i \in 1..Len(p) : p[i] \in Held(records) /\ agent.cursor < Rank[p[i]]
  /\ p = <<>> => \A k \in Held(records) : ~ agent.cursor < Rank[k]
  /\ p # <<>> =>
       /\ Len(p) \in 1..Len(p)
       /\ \A k \in Held(records) :
            agent.cursor < Rank[k] =>
              Rank[p[Len(p)]] < Rank[k] \/ \E i \in 1..Len(p) : p[i] = k

\* A page of records follows the cursor and skips no key up to its last.
LEMMA PageFacts ==
  ASSUME NEW records, agent.cursor \in Nat
  PROVE  PageOf(Page(records), records)
<1>1. PICK S, rows : S = {k \in Held(records) : Rank[k] > agent.cursor} /\ rows = InOrder(S, Rank)
  OBVIOUS
<1>2. PICK n, m, p : /\ n = Cardinality(S) /\ m = (IF Len(rows) < BatchLimit THEN Len(rows) ELSE BatchLimit)
                     /\ p = SubSeq(rows, 1, m)
  OBVIOUS
<1>3. S \subseteq Keys /\ Ranked(S, Rank) /\ \A k \in S : Rank[k] \in Nat
  <2>1. S \subseteq Keys
    BY <1>1 DEF Held
  <2> QED
    BY <2>1, RankFacts
<1>4. /\ n \in Nat /\ rows \in [1..n -> S]
      /\ \A x \in S : \E i \in 1..n : rows[i] = x
      /\ \A i, j \in 1..n : i < j => Rank[rows[i]] < Rank[rows[j]]
  <2>1. Sorted(InOrder(S, Rank), S, Rank, Cardinality(S))
    BY <1>3, InOrderFacts
  <2> QED
    BY <1>1, <1>2, <2>1 DEF Sorted
<1>5. rows \in Seq(S) /\ Len(rows) = n
  BY <1>4, SeqDef, LenProperties
<1>6. m \in 0..n /\ (m = 0 => n = 0)
  BY <1>2, <1>4, <1>5, BatchLimitAssumption
<1>7. p \in Seq(S) /\ Len(p) = m /\ \A i \in 1..m : p[i] = rows[i]
  BY <1>2, <1>4, <1>6, SubSeqProperties
<1>8. p = Page(records)
  BY <1>1, <1>2 DEF Page
<1>9. p \in Seq(Keys)
  <2>1. p \in [1..m -> S]
    BY <1>7, LenProperties
  <2>2. p \in [1..m -> Keys]
    BY <1>3, <2>1
  <2> QED
    BY <1>6, <2>2, SeqDef
<1>10. \A i \in 1..Len(p) : p[i] \in Held(records) /\ agent.cursor < Rank[p[i]]
  <2>1. \A i \in 1..m : rows[i] \in S
    BY <1>4, <1>6
  <2>2. \A k \in S : k \in Held(records) /\ agent.cursor < Rank[k]
    BY <1>1, <1>3
  <2> QED
    BY <1>7, <2>1, <2>2
<1>11. ASSUME p = <<>>, NEW k \in Held(records) PROVE ~ agent.cursor < Rank[k]
  <2>1. n = 0
    BY <1>6, <1>7, <1>11
  <2>2. k \notin S
    BY <1>4, <2>1
  <2>3. Rank[k] \in Nat
    BY RankFacts DEF Held
  <2> QED
    BY <1>1, <2>2, <2>3
<1>12. ASSUME p # <<>>
       PROVE  /\ Len(p) \in 1..Len(p)
              /\ \A k \in Held(records) : agent.cursor < Rank[k] =>
                   Rank[p[Len(p)]] < Rank[k] \/ \E i \in 1..Len(p) : p[i] = k
  <2>1. m \in 1..m /\ m \in 1..n
    <3>1. m # 0
      BY <1>7, <1>12, EmptySeq
    <3> QED
      BY <1>4, <1>6, <3>1
  <2>2. ASSUME NEW k \in Held(records), agent.cursor < Rank[k]
        PROVE  Rank[p[m]] < Rank[k] \/ \E i \in 1..m : p[i] = k
    <3>1. k \in S
      BY <1>1, <2>2, RankFacts DEF Held
    <3>2. PICK i \in 1..n : rows[i] = k
      BY <1>4, <3>1
    <3>3. CASE i <= m
      <4>1. i \in 1..m
        BY <1>6, <3>3
      <4> QED
        BY <1>7, <3>2, <4>1
    <3>4. CASE m < i
      BY <1>4, <1>7, <2>1, <3>2, <3>4
    <3> QED
      BY <1>4, <1>6, <3>3, <3>4
  <2> QED
    BY <1>7, <2>1, <2>2
<1> QED
  BY <1>6, <1>7, <1>8, <1>9, <1>10, <1>11, <1>12 DEF PageOf

\* Of a page, the keys the staged state does not hold, none more, none less.
LEMMA GoneFacts ==
  ASSUME NEW p \in Seq(Keys)
  PROVE  /\ Gone(p) \in Seq(Keys)
         /\ \A i \in 1..Len(Gone(p)) : stateRecords[Gone(p)[i]] = NoRecord
         /\ \A i \in 1..Len(p) : stateRecords[p[i]] = NoRecord =>
              \E x \in 1..Len(Gone(p)) : Gone(p)[x] = p[i]
<1>1. PICK S, g, n : /\ S = {k \in {p[i] : i \in 1..Len(p)} : stateRecords[k] = NoRecord}
                     /\ g = InOrder(S, Rank) /\ n = Cardinality(S)
  OBVIOUS
<1>2. S \subseteq Keys /\ Ranked(S, Rank)
  <2>1. S \subseteq Keys
    BY <1>1, ElementOfSeq
  <2> QED
    BY <2>1, RankFacts
<1>3. /\ n \in Nat /\ g \in [1..n -> S]
      /\ \A x \in S : \E i \in 1..n : g[i] = x
  <2>1. Sorted(InOrder(S, Rank), S, Rank, Cardinality(S))
    BY <1>2, InOrderFacts
  <2> QED
    BY <1>1, <2>1 DEF Sorted
<1>4. g = Gone(p)
  BY <1>1 DEF Gone
<1>5. g \in [1..n -> Keys]
  BY <1>2, <1>3
<1>6. g \in Seq(Keys) /\ Len(g) = n
  BY <1>3, <1>5, SeqDef, LenProperties
<1>7. \A i \in 1..n : stateRecords[g[i]] = NoRecord
  BY <1>1, <1>3
<1>8. ASSUME NEW i \in 1..Len(p), stateRecords[p[i]] = NoRecord
      PROVE  \E x \in 1..n : g[x] = p[i]
  <2>1. p[i] \in S
    BY <1>1, <1>8
  <2> QED
    BY <1>3, <2>1
<1> QED
  BY <1>4, <1>6, <1>7, <1>8

\* The batch a restore sends next is the first rows of its queue, in its own epoch.
LEMMA DueBatchFacts ==
  ASSUME AgentSound, Due
  PROVE  /\ DueBatch \in RestoreBatches
         /\ DueBatch.client = agent.epoch
         /\ Len(DueBatch.muts) \in 1..Len(agent.queue)
         /\ Len(agent.queue) \in Nat
         /\ \A i \in 1..Len(DueBatch.muts) : DueBatch.muts[i] = agent.queue[i]
<1>1. PICK q, n, m : /\ q = agent.queue /\ n = (IF Len(q) < BatchLimit THEN Len(q) ELSE BatchLimit)
                     /\ m = SubSeq(q, 1, n)
  OBVIOUS
<1>2. /\ q \in Seq(SentMutation) /\ agent.epoch \in Epochs /\ agent.next \in Nat \ {0}
      /\ \A i \in 1..Len(q) : q[i].mid.n = agent.next + i - 1
  BY <1>1 DEF AgentSound
<1>3. Len(q) \in Nat /\ Len(q) >= 1
  <2>1. Len(q) \in Nat
    BY <1>2, LenProperties
  <2>2. Len(q) >= BatchLimit \/ q # <<>>
    BY <1>1 DEF Due
  <2>3. q # <<>> => Len(q) # 0
    BY <1>2, EmptySeq
  <2> QED
    BY <2>1, <2>2, <2>3, BatchLimitAssumption
<1>4. n \in 1..Len(q)
  BY <1>1, <1>3, BatchLimitAssumption
<1>5. m \in Seq(SentMutation) /\ Len(m) = n /\ \A i \in 1..n : m[i] = q[i]
  <2>1. \A i \in 1..n : q[i] \in SentMutation /\ i \in 1..Len(q)
    BY <1>2, <1>3, <1>4, ElementOfSeq
  <2> QED
    BY <1>1, <1>3, <1>4, <2>1, SubSeqProperties
<1>6. DueBatch = [id |-> [epoch |-> agent.epoch, from |-> agent.next], client |-> agent.epoch,
                  from |-> agent.next, muts |-> m]
  BY <1>1 DEF DueBatch
<1>7. ASSUME NEW i \in 1..n, NEW j \in 1..n, m[i].mid = m[j].mid PROVE i = j
  <2>1. i \in 1..Len(q) /\ j \in 1..Len(q) /\ m[i] = q[i] /\ m[j] = q[j]
    BY <1>3, <1>4, <1>5
  <2>2. agent.next + i - 1 = agent.next + j - 1
    <3>1. q[i].mid.n = q[j].mid.n
      BY <1>7, <2>1
    <3> QED
      BY <1>2, <2>1, <3>1
  <2> QED
    BY <1>2, <2>1, <2>2
<1>8. DueBatch \in RestoreBatches
  BY <1>2, <1>3, <1>4, <1>5, <1>6, <1>7 DEF RestoreBatches
<1> QED
  BY <1>1, <1>3, <1>4, <1>5, <1>6, <1>8
\* What more the agent has queued.
QueueGrows(q, r, muts) ==
  /\ \A i \in 1..Len(q) : i \in 1..Len(r) /\ r[i] = q[i]
  /\ \A i \in 1..Len(muts) : \E x \in 1..Len(r) : r[x] = muts[i]
  /\ \A x \in 1..Len(r) : x \in 1..Len(q) \/ \E i \in 1..Len(muts) : r[x] = muts[i]

\* The fields of the agent that reading and committing leave alone.
SameRestore ==
  /\ agent'.epoch = agent.epoch /\ agent'.snap = agent.snap /\ agent'.retained = agent.retained
  /\ DOMAIN agent' = AgentFields

\* A page that is read leaves the restore as it was, with its rows behind the queue.
LEMMA QueuedFacts ==
  ASSUME AgentSound, pc = "append", pc' = pc, NEW muts \in Seq(SentMutation), NEW r \in Nat,
         agent' = [agent EXCEPT !.queue = @ \o muts, !.cursor = r],
         \A i \in 1..Len(muts) : /\ muts[i].mid \in RestoreIds
                                 /\ muts[i].mid.epoch = agent.epoch
                                 /\ muts[i].mid.n = Numbered(i)
  PROVE  /\ AgentSound' /\ SameRestore
         /\ agent'.source = agent.source /\ agent'.cursor = r
         /\ QueueGrows(agent.queue, agent'.queue, muts)
<1>1. PICK q, b : q = agent.queue /\ b = q \o muts
  OBVIOUS
<1>2. /\ SameRestore /\ agent'.source = agent.source /\ agent'.cursor = r
      /\ agent'.queue = b /\ agent'.next = agent.next
  BY <1>1 DEF AgentSound, AgentFields, SameRestore
<1>3. /\ q \in Seq(SentMutation) /\ agent.next \in Nat \ {0}
      /\ \A i \in 1..Len(q) : /\ q[i].mid \in RestoreIds
                              /\ q[i].mid.epoch = agent.epoch
                              /\ q[i].mid.n = agent.next + i - 1
  BY <1>1 DEF AgentSound
<1>4. /\ b \in Seq(SentMutation) /\ Len(b) = Len(q) + Len(muts)
      /\ Len(q) \in Nat /\ Len(muts) \in Nat
      /\ \A i \in 1..(Len(q) + Len(muts)) :
           b[i] = IF i <= Len(q) THEN q[i] ELSE muts[i - Len(q)]
  BY <1>1, <1>3, ConcatProperties, LenProperties
<1>5. ASSUME NEW i \in 1..Len(q) PROVE i \in 1..Len(b) /\ b[i] = q[i]
  BY <1>4
<1>6. ASSUME NEW i \in 1..Len(muts) PROVE Len(q) + i \in 1..Len(b) /\ b[Len(q) + i] = muts[i]
  <2>1. /\ Len(q) + i \in 1..(Len(q) + Len(muts)) /\ ~ Len(q) + i <= Len(q)
        /\ Len(q) + i - Len(q) = i
    BY <1>4
  <2> QED
    BY <1>4, <2>1
<1>7. ASSUME NEW x \in 1..Len(b)
      PROVE  x \in 1..Len(q) \/ \E i \in 1..Len(muts) : x = Len(q) + i /\ b[x] = muts[i]
  <2>1. CASE x <= Len(q)
    BY <1>4, <2>1
  <2>2. CASE ~ x <= Len(q)
    <3>1. PICK i : i = x - Len(q)
      OBVIOUS
    <3>2. i \in 1..Len(muts) /\ x = Len(q) + i
      BY <1>4, <2>2, <3>1
    <3> QED
      BY <1>6, <3>2
  <2> QED
    BY <2>1, <2>2
<1>8. QueueGrows(q, b, muts)
  BY <1>5, <1>6, <1>7 DEF QueueGrows
<1>9. ASSUME NEW x \in 1..Len(b)
      PROVE  /\ b[x].mid \in RestoreIds /\ b[x].mid.epoch = agent.epoch
             /\ b[x].mid.n = agent.next + x - 1
  <2>1. CASE x \in 1..Len(q)
    BY <1>3, <1>5, <2>1
  <2>2. CASE \E i \in 1..Len(muts) : x = Len(q) + i /\ b[x] = muts[i]
    <3>1. PICK i \in 1..Len(muts) : x = Len(q) + i /\ b[x] = muts[i]
      BY <2>2
    <3>2. Numbered(i) = agent.next + x - 1
      BY <1>1, <1>3, <1>4, <3>1 DEF Numbered
    <3> QED
      BY <3>1, <3>2
  <2> QED
    BY <1>7, <2>1, <2>2
<1>10. AgentSound'
  BY <1>2, <1>4, <1>9 DEF AgentSound, SameRestore, Restoring
<1> QED
  BY <1>1, <1>2, <1>8, <1>10
\* A record of the current state is a row of the journal.
LEMMA RecordFacts ==
  ASSUME Proper(Active), NEW k \in Keys, stateRecords[k] # NoRecord
  PROVE  /\ Exact(Active)
         /\ stateRecords[k].seq \in 1..Len(journal)
         /\ journal[stateRecords[k].seq] \in JournalRow
         /\ journal[stateRecords[k].seq].kind = stateRecords[k].kind
         /\ stateRecords[k].kind \in Archive!Kinds
         /\ Content(journal[stateRecords[k].seq].mid) \in MutationIds \union {NoRecord}
<1>1. ActiveFields
  BY ActiveIs
<1>2. Exact(Active)
  BY <1>1 DEF Proper, Unpaired, ActiveFields
<1>3. Points(stateRecords, journal) /\ journal \in Seq(JournalRow)
  BY <1>1, <1>2 DEF Exact, Filled, ActiveFields
<1>4. /\ stateRecords[k].seq \in 1..Len(journal)
      /\ journal[stateRecords[k].seq].kind = stateRecords[k].kind
  BY <1>3 DEF Points
<1>5. PICK row : row = journal[stateRecords[k].seq]
  OBVIOUS
<1>6. row \in JournalRow
  BY <1>3, <1>4, <1>5, ElementOfSeq
<1>7. row.mid \in MutationIds \union RestoreIds /\ row.kind \in Archive!Kinds
  BY <1>6 DEF JournalRow
<1>8. Content(row.mid) \in MutationIds \union {NoRecord}
  BY <1>7 DEF Content, RestoreIds
<1> QED
  BY <1>2, <1>4, <1>5, <1>6, <1>7, <1>8

\* A mutation a restore makes is numbered in its own epoch and writes one key.
LEMMA MutationFacts ==
  ASSUME AgentSound, NEW k \in Keys, NEW n \in Nat \ {0}, NEW kind \in Archive!Kinds,
         NEW of \in MutationIds \union {NoRecord}
  PROVE  LET m == RestoreMutation(n, k, kind, of)
         IN  /\ m \in SentMutation /\ m.mid \in RestoreIds
             /\ m.mid.epoch = agent.epoch /\ m.mid.n = n /\ m.mid.of = of
             /\ m.key = k /\ m.kind = kind
<1>1. agent.epoch \in Epochs
  BY DEF AgentSound
<1> QED
  BY <1>1 DEF RestoreMutation, SentMutation, RestoreIds

\* A copy of a record shows what the record shows.
LEMMA CopyFacts ==
  ASSUME Proper(Active), AgentSound, NEW k \in Held(stateRecords), NEW n \in Nat \ {0}
  PROVE  LET m == CopyOf(k, n)
         IN  /\ m \in SentMutation /\ m.mid \in RestoreIds
             /\ m.mid.epoch = agent.epoch /\ m.mid.n = n
             /\ m.key = k /\ m.kind = stateRecords[k].kind
             /\ m.kind # "tombstone" => m.mid.of = Shown(Active, k)
             /\ m.kind = "tombstone" => Shown(Active, k) = NoRecord
<1>1. k \in Keys /\ stateRecords[k] # NoRecord
  BY DEF Held
<1>2. PICK kind, of : /\ kind = stateRecords[k].kind
                      /\ of = Content(journal[stateRecords[k].seq].mid)
  OBVIOUS
<1>3. kind \in Archive!Kinds /\ of \in MutationIds \union {NoRecord}
  BY <1>1, <1>2, RecordFacts
<1>4. PICK m : m = RestoreMutation(n, k, kind, of)
  OBVIOUS
<1>5. /\ m \in SentMutation /\ m.mid \in RestoreIds
      /\ m.mid.epoch = agent.epoch /\ m.mid.n = n /\ m.mid.of = of
      /\ m.key = k /\ m.kind = kind
  BY <1>1, <1>3, <1>4, MutationFacts
<1>6. m = CopyOf(k, n)
  BY <1>2, <1>4 DEF CopyOf
<1>7. Shown(Active, k) = IF kind = "tombstone" THEN NoRecord ELSE of
  <2>1. ActiveFields
    BY ActiveIs
  <2> QED
    BY <1>1, <1>2, <2>1 DEF Shown, ActiveFields
<1> QED
  BY <1>2, <1>5, <1>6, <1>7

-----------------------------------------------------------------------------
\* The restore reads a page of the rewound state.
LEMMA SnapshotPage ==
  ASSUME IInv, ReadSnapshotPage
  PROVE  IInv'
<1>1. PICK p : p = Page(stateRecords)
  OBVIOUS
<1>2. /\ pc = "append" /\ pc' = pc /\ agent.source = "snapshot"
      /\ UNCHANGED <<activeVars, snapshotVars, touched, interrupted>>
  BY DEF ReadSnapshotPage
<1>3. /\ Active' = Active /\ namespace' = namespace /\ snapshots' = snapshots
      /\ writing' = writing /\ touched' = touched /\ interrupted' = interrupted
      /\ journal' = journal /\ stateRecords' = stateRecords
  BY <1>2 DEF activeVars, archiveVars, snapshotVars, Active
<1>4. AgentSound /\ Proper(Active) /\ Restoring /\ Restoring' /\ pc # "idle"
  BY <1>2 DEF IInv, Restoring
<1>5. PageOf(p, stateRecords)
  BY <1>1, <1>4, PageFacts DEF AgentSound
<1>6. CASE p = <<>>
  <2>1. agent' = [agent EXCEPT !.source = "current", !.cursor = 0]
    BY <1>1, <1>6 DEF ReadSnapshotPage
  <2>2. /\ SameRestore /\ agent'.source = "current" /\ agent'.cursor = 0
        /\ agent'.queue = agent.queue /\ agent'.next = agent.next
    BY <1>4, <2>1 DEF AgentSound, AgentFields, SameRestore
  <2>3. AgentSound'
    BY <1>2, <1>4, <2>2 DEF AgentSound, SameRestore
  <2>4. ASSUME NEW k \in Keys, Pending(k) PROVE Pending(k)'
    <3>1. ~ (stateRecords[k] # NoRecord /\ agent.cursor < Rank[k])
      BY <1>5, <1>6 DEF PageOf, Held
    <3>2. 0 < Rank[k]
      BY RankAssumption
    <3> QED
      BY <1>3, <2>2, <2>4, <3>1, <3>2 DEF Pending, Writes, SameRestore
  <2>5. ~ interrupted' => CatchesUp'
    <3>1. ASSUME ~ interrupted
          PROVE  /\ Replayed(agent'.retained)
                 /\ \A k \in Keys : IsCurrent(k, stateRecords', journal') \/ Pending(k)'
      BY <1>3, <1>4, <2>2, <2>4, <3>1 DEF IInv, CatchesUp, SameRestore
    <3> QED
      BY <1>2, <1>3, <3>1 DEF CatchesUp
  <2>6. Rewinds'
    BY <1>3, <1>4, <2>2 DEF IInv, Rewinds, SameRestore
  <2> QED
    BY <1>2, <1>3, <1>4, <2>3, <2>5, <2>6 DEF IInv
<1>7. CASE p # <<>>
  <2>1. PICK muts, r : /\ muts = [i \in 1..Len(p) |-> CopyOf(p[i], Numbered(i))]
                       /\ r = Rank[p[Len(p)]]
    OBVIOUS
  <2>2. agent' = [agent EXCEPT !.queue = @ \o muts, !.cursor = r]
    BY <1>1, <1>7, <2>1 DEF ReadSnapshotPage, Queued
  <2>3. ASSUME NEW i \in 1..Len(p)
        PROVE  /\ muts[i] \in SentMutation /\ muts[i].mid \in RestoreIds
               /\ muts[i].mid.epoch = agent.epoch /\ muts[i].mid.n = Numbered(i)
               /\ muts[i].key = p[i] /\ p[i] \in Keys
               /\ Shown(Active, p[i]) =
                    IF muts[i].kind = "tombstone" THEN NoRecord ELSE muts[i].mid.of
    <3>1. PICK n : n = Numbered(i)
      OBVIOUS
    <3>2. n \in Nat \ {0}
      <4>1. agent.next \in Nat \ {0} /\ Len(agent.queue) \in Nat /\ i \in 1..Len(p)
        BY <1>4, LenProperties DEF AgentSound
      <4>2. Len(p) \in Nat
        BY <1>5 DEF PageOf
      <4> QED
        BY <3>1, <4>1, <4>2 DEF Numbered
    <3>3. p[i] \in Held(stateRecords)
      BY <1>5 DEF PageOf
    <3>4. PICK k \in Held(stateRecords) : k = p[i]
      BY <3>3
    <3>5. PICK m : m = CopyOf(k, n)
      OBVIOUS
    <3>6. /\ m \in SentMutation /\ m.mid \in RestoreIds
          /\ m.mid.epoch = agent.epoch /\ m.mid.n = n
          /\ m.key = k /\ m.kind = stateRecords[k].kind
          /\ m.kind # "tombstone" => m.mid.of = Shown(Active, k)
          /\ m.kind = "tombstone" => Shown(Active, k) = NoRecord
      BY <1>4, <3>2, <3>5, CopyFacts
    <3>7. muts[i] = m
      BY <2>1, <3>1, <3>4, <3>5
    <3>8. k \in Keys
      BY DEF Held
    <3> QED
      BY <3>1, <3>4, <3>6, <3>7, <3>8
  <2>4. muts \in Seq(SentMutation) /\ Len(muts) = Len(p) /\ r \in Nat
    <3>1. Len(p) \in Nat
      BY <1>5 DEF PageOf
    <3>2. muts \in [1..Len(p) -> SentMutation]
      BY <2>1, <2>3
    <3>3. r \in Nat
      <4>1. Len(p) \in 1..Len(p)
        BY <1>5, <1>7 DEF PageOf
      <4> QED
        BY <2>1, <2>3, <4>1, RankAssumption
    <3> QED
      BY <3>1, <3>2, <3>3, SeqDef, LenProperties
  <2>5. /\ AgentSound' /\ SameRestore
        /\ agent'.source = agent.source /\ agent'.cursor = r
        /\ QueueGrows(agent.queue, agent'.queue, muts)
    BY <1>2, <1>4, <2>2, <2>3, <2>4, QueuedFacts
  <2>6. ASSUME NEW k \in Keys, Pending(k) PROVE Pending(k)'
    <3>1. CASE Writes(k)
      BY <2>5, <3>1 DEF Writes, QueueGrows, Pending
    <3>2. CASE stateRecords[k] # NoRecord /\ agent.cursor < Rank[k]
      <4>1. k \in Held(stateRecords)
        BY <3>2 DEF Held
      <4>2. r < Rank[k] \/ \E i \in 1..Len(p) : p[i] = k
        BY <1>5, <1>7, <2>1, <3>2, <4>1 DEF PageOf
      <4>3. ASSUME NEW i \in 1..Len(p), p[i] = k PROVE Writes(k)'
        <5>1. muts[i].key = k /\ i \in 1..Len(muts)
          BY <2>3, <2>4, <4>3
        <5> QED
          BY <2>5, <5>1 DEF Writes, QueueGrows
      <4> QED
        BY <1>2, <1>3, <2>5, <3>2, <4>2, <4>3 DEF Pending
    <3>3. CASE stateRecords[k] = NoRecord /\ agent.retained.stateRecords[k] # NoRecord
      BY <1>2, <1>3, <2>5, <3>3 DEF Pending, SameRestore
    <3> QED
      BY <2>6, <3>1, <3>2, <3>3 DEF Pending
  <2>7. ~ interrupted' => CatchesUp'
    <3>1. ASSUME ~ interrupted
          PROVE  /\ Replayed(agent'.retained)
                 /\ \A k \in Keys : IsCurrent(k, stateRecords', journal') \/ Pending(k)'
      BY <1>3, <1>4, <2>5, <2>6, <3>1 DEF IInv, CatchesUp, SameRestore
    <3> QED
      BY <1>2, <1>3, <3>1 DEF CatchesUp
  <2>8. Rewinds'
    <3>1. ASSUME NEW k \in Keys \ touched
          PROVE  /\ Shown(Active', k) = Shown(agent'.snap.db, k)
                 /\ \A i \in 1..Len(agent'.queue) :
                      agent'.queue[i].key = k =>
                        Shown(agent'.snap.db, k) =
                          IF agent'.queue[i].kind = "tombstone" THEN NoRecord
                          ELSE agent'.queue[i].mid.of
      <4>1. /\ Shown(Active, k) = Shown(agent.snap.db, k)
            /\ \A i \in 1..Len(agent.queue) :
                 agent.queue[i].key = k =>
                   Shown(agent.snap.db, k) =
                     IF agent.queue[i].kind = "tombstone" THEN NoRecord
                     ELSE agent.queue[i].mid.of
        BY <1>4, <3>1 DEF IInv, Rewinds
      <4>2. ASSUME NEW x \in 1..Len(agent'.queue), agent'.queue[x].key = k
            PROVE  Shown(agent.snap.db, k) =
                     IF agent'.queue[x].kind = "tombstone" THEN NoRecord
                     ELSE agent'.queue[x].mid.of
        <5>1. CASE x \in 1..Len(agent.queue)
          BY <2>5, <4>1, <4>2, <5>1 DEF QueueGrows
        <5>2. CASE \E i \in 1..Len(muts) : agent'.queue[x] = muts[i]
          BY <2>3, <2>4, <4>1, <4>2, <5>2
        <5> QED
          BY <2>5, <5>1, <5>2 DEF QueueGrows
      <4> QED
        BY <1>3, <2>5, <4>1, <4>2 DEF SameRestore
    <3> QED
      BY <1>3, <3>1 DEF Rewinds
  <2> QED
    BY <1>2, <1>3, <1>4, <2>5, <2>7, <2>8 DEF IInv
<1> QED
  BY <1>6, <1>7
\* The restore reads a page of the retained state: what is not in the rewound one.
LEMMA RetainedPage ==
  ASSUME IInv, ReadRetainedPage
  PROVE  IInv'
<1>1. PICK records, p, g : /\ records = agent.retained.stateRecords
                           /\ p = Page(records) /\ g = Gone(p)
  OBVIOUS
<1>2. /\ pc = "append" /\ pc' = pc /\ agent.source = "current"
      /\ UNCHANGED <<activeVars, snapshotVars, touched, interrupted>>
  BY DEF ReadRetainedPage
<1>3. /\ Active' = Active /\ namespace' = namespace /\ snapshots' = snapshots
      /\ writing' = writing /\ touched' = touched /\ interrupted' = interrupted
      /\ journal' = journal /\ stateRecords' = stateRecords
  BY <1>2 DEF activeVars, archiveVars, snapshotVars, Active
<1>4. AgentSound /\ Proper(Active) /\ Restoring /\ Restoring' /\ pc # "idle"
  BY <1>2 DEF IInv, Restoring
<1>5. PageOf(p, records)
  BY <1>1, <1>4, PageFacts DEF AgentSound
<1>6. CASE p = <<>>
  <2>1. agent' = [agent EXCEPT !.source = "done"]
    BY <1>1, <1>6 DEF ReadRetainedPage
  <2>2. /\ SameRestore /\ agent'.source = "done" /\ agent'.cursor = agent.cursor
        /\ agent'.queue = agent.queue /\ agent'.next = agent.next
    BY <1>4, <2>1 DEF AgentSound, AgentFields, SameRestore
  <2>3. AgentSound'
    BY <1>2, <1>4, <2>2 DEF AgentSound, SameRestore
  <2>4. ASSUME NEW k \in Keys, Pending(k) PROVE Pending(k)'
    <3>1. ~ (records[k] # NoRecord /\ agent.cursor < Rank[k])
      BY <1>5, <1>6 DEF PageOf, Held
    <3>2. Writes(k)
      BY <1>1, <1>2, <2>4, <3>1 DEF Pending
    <3> QED
      BY <2>2, <3>2 DEF Pending, Writes
  <2>5. ~ interrupted' => CatchesUp'
    <3>1. ASSUME ~ interrupted
          PROVE  /\ Replayed(agent'.retained)
                 /\ \A k \in Keys : IsCurrent(k, stateRecords', journal') \/ Pending(k)'
      BY <1>3, <1>4, <2>2, <2>4, <3>1 DEF IInv, CatchesUp, SameRestore
    <3> QED
      BY <1>2, <1>3, <3>1 DEF CatchesUp
  <2>6. Rewinds'
    BY <1>3, <1>4, <2>2 DEF IInv, Rewinds, SameRestore
  <2> QED
    BY <1>2, <1>3, <1>4, <2>3, <2>5, <2>6 DEF IInv
<1>7. CASE p # <<>>
  <2>1. PICK muts, r : /\ muts = [i \in 1..Len(g) |->
                                    RestoreMutation(Numbered(i), g[i], "tombstone", NoRecord)]
                       /\ r = Rank[p[Len(p)]]
    OBVIOUS
  <2>2. agent' = [agent EXCEPT !.queue = @ \o muts, !.cursor = r]
    BY <1>1, <1>7, <2>1 DEF ReadRetainedPage, Queued
  <2>3. /\ g \in Seq(Keys) /\ Len(g) \in Nat /\ p \in Seq(Keys) /\ Len(p) \in 1..Len(p)
        /\ \A i \in 1..Len(g) : stateRecords[g[i]] = NoRecord /\ g[i] \in Keys
        /\ \A i \in 1..Len(p) : stateRecords[p[i]] = NoRecord => \E x \in 1..Len(g) : g[x] = p[i]
    <3>1. p \in Seq(Keys) /\ Len(p) \in 1..Len(p)
      BY <1>5, <1>7 DEF PageOf
    <3>2. /\ Gone(p) \in Seq(Keys)
          /\ \A i \in 1..Len(Gone(p)) : stateRecords[Gone(p)[i]] = NoRecord
          /\ \A i \in 1..Len(p) : stateRecords[p[i]] = NoRecord =>
               \E x \in 1..Len(Gone(p)) : Gone(p)[x] = p[i]
      BY <3>1, GoneFacts
    <3>3. g \in Seq(Keys)
      BY <1>1, <3>2
    <3>4. Len(g) \in Nat /\ \A i \in 1..Len(g) : g[i] \in Keys
      BY <3>3, LenProperties, ElementOfSeq
    <3> QED
      BY <1>1, <3>1, <3>2, <3>4
  <2>4. ASSUME NEW i \in 1..Len(g)
        PROVE  /\ muts[i] \in SentMutation /\ muts[i].mid \in RestoreIds
               /\ muts[i].mid.epoch = agent.epoch /\ muts[i].mid.n = Numbered(i)
               /\ muts[i].key = g[i] /\ muts[i].kind = "tombstone"
               /\ Shown(Active, g[i]) = NoRecord
    <3>1. PICK n, m, k : /\ n = Numbered(i) /\ k = g[i]
                         /\ m = RestoreMutation(n, k, "tombstone", NoRecord)
      OBVIOUS
    <3>2. n \in Nat \ {0}
      <4>1. agent.next \in Nat \ {0} /\ Len(agent.queue) \in Nat /\ i \in 1..Len(g)
        BY <1>4, LenProperties DEF AgentSound
      <4> QED
        BY <2>3, <3>1, <4>1 DEF Numbered
    <3>3. k \in Keys /\ "tombstone" \in Archive!Kinds /\ NoRecord \in MutationIds \union {NoRecord}
      BY <2>3, <3>1 DEF Archive!Kinds
    <3>4. /\ m \in SentMutation /\ m.mid \in RestoreIds
          /\ m.mid.epoch = agent.epoch /\ m.mid.n = n
          /\ m.key = k /\ m.kind = "tombstone"
      BY <1>4, <3>1, <3>2, <3>3, MutationFacts
    <3>5. muts[i] = m
      BY <2>1, <3>1
    <3>6. Shown(Active, k) = NoRecord
      <4>1. Active.stateRecords = stateRecords
        BY ActiveIs DEF ActiveFields
      <4> QED
        BY <2>3, <3>1, <4>1 DEF Shown
    <3> QED
      BY <3>1, <3>4, <3>5, <3>6
  <2>5. muts \in Seq(SentMutation) /\ Len(muts) = Len(g) /\ r \in Nat
    <3>1. muts \in [1..Len(g) -> SentMutation]
      BY <2>1, <2>4
    <3>2. r \in Nat
      <4>1. p[Len(p)] \in Keys
        BY <2>3, ElementOfSeq
      <4> QED
        BY <2>1, <4>1, RankAssumption
    <3> QED
      BY <2>3, <3>1, <3>2, SeqDef, LenProperties
  <2>6. /\ AgentSound' /\ SameRestore
        /\ agent'.source = agent.source /\ agent'.cursor = r
        /\ QueueGrows(agent.queue, agent'.queue, muts)
    BY <1>2, <1>4, <2>2, <2>4, <2>5, QueuedFacts
  <2>7. ASSUME NEW k \in Keys, Pending(k) PROVE Pending(k)'
    <3>1. CASE Writes(k)
      BY <2>6, <3>1 DEF Writes, QueueGrows, Pending
    <3>2. CASE stateRecords[k] = NoRecord /\ records[k] # NoRecord /\ agent.cursor < Rank[k]
      <4>1. k \in Held(records)
        BY <3>2 DEF Held
      <4>2. r < Rank[k] \/ \E i \in 1..Len(p) : p[i] = k
        BY <1>5, <1>7, <2>1, <3>2, <4>1 DEF PageOf
      <4>3. ASSUME NEW i \in 1..Len(p), p[i] = k PROVE Writes(k)'
        <5>1. PICK x \in 1..Len(g) : g[x] = k
          BY <2>3, <3>2, <4>3
        <5>2. muts[x].key = k /\ x \in 1..Len(muts)
          BY <2>4, <2>5, <5>1
        <5> QED
          BY <2>6, <5>2 DEF Writes, QueueGrows
      <4> QED
        BY <1>1, <1>2, <1>3, <2>6, <3>2, <4>2, <4>3 DEF Pending, SameRestore
    <3> QED
      BY <1>1, <1>2, <2>7, <3>1, <3>2 DEF Pending
  <2>8. ~ interrupted' => CatchesUp'
    <3>1. ASSUME ~ interrupted
          PROVE  /\ Replayed(agent'.retained)
                 /\ \A k \in Keys : IsCurrent(k, stateRecords', journal') \/ Pending(k)'
      BY <1>3, <1>4, <2>6, <2>7, <3>1 DEF IInv, CatchesUp, SameRestore
    <3> QED
      BY <1>2, <1>3, <3>1 DEF CatchesUp
  <2>9. Rewinds'
    <3>1. ASSUME NEW k \in Keys \ touched
          PROVE  /\ Shown(Active', k) = Shown(agent'.snap.db, k)
                 /\ \A i \in 1..Len(agent'.queue) :
                      agent'.queue[i].key = k =>
                        Shown(agent'.snap.db, k) =
                          IF agent'.queue[i].kind = "tombstone" THEN NoRecord
                          ELSE agent'.queue[i].mid.of
      <4>1. /\ Shown(Active, k) = Shown(agent.snap.db, k)
            /\ \A i \in 1..Len(agent.queue) :
                 agent.queue[i].key = k =>
                   Shown(agent.snap.db, k) =
                     IF agent.queue[i].kind = "tombstone" THEN NoRecord
                     ELSE agent.queue[i].mid.of
        BY <1>4, <3>1 DEF IInv, Rewinds
      <4>2. ASSUME NEW x \in 1..Len(agent'.queue), agent'.queue[x].key = k
            PROVE  Shown(agent.snap.db, k) =
                     IF agent'.queue[x].kind = "tombstone" THEN NoRecord
                     ELSE agent'.queue[x].mid.of
        <5>1. CASE x \in 1..Len(agent.queue)
          BY <2>6, <4>1, <4>2, <5>1 DEF QueueGrows
        <5>2. CASE \E i \in 1..Len(muts) : agent'.queue[x] = muts[i]
          BY <2>4, <2>5, <4>1, <4>2, <5>2
        <5> QED
          BY <2>6, <5>1, <5>2 DEF QueueGrows
      <4> QED
        BY <1>3, <2>6, <4>1, <4>2 DEF SameRestore
    <3> QED
      BY <1>3, <3>1 DEF Rewinds
  <2> QED
    BY <1>2, <1>3, <1>4, <2>6, <2>8, <2>9 DEF IInv
<1> QED
  BY <1>6, <1>7
\* What a commit of b does to a key.
CommitOn(b, k) ==
  IF Archive!Touches(b, k)
  THEN /\ IsCurrent(k, stateRecords', journal')
       /\ stateRecords'[k] # NoRecord
       /\ Shown(Active', k) = LET m == b.muts[Archive!LastOn(b, k)]
                              IN  IF m.kind = "tombstone" THEN NoRecord ELSE Content(m.mid)
  ELSE /\ stateRecords'[k] = stateRecords[k]
       /\ IsCurrent(k, stateRecords, journal) => IsCurrent(k, stateRecords', journal')
       /\ Shown(Active', k) = Shown(Active, k)

\* A commit keeps the active database exact, and changes only the keys it writes.
LEMMA CommitKeeps ==
  ASSUME Proper(Active), NEW b \in SentBatches, NEW cp, Archive!Commit(b, cp),
         UNCHANGED <<namespace, audit>>
  PROVE  /\ Exact(Active) /\ Exact(Active') /\ Grown(Active, Active', b)
         /\ \A k \in Keys : CommitOn(b, k)
<1>1. ActiveFields /\ ActiveFields'
  <2>1. ActiveFields
    BY ActiveIs
  <2>2. ActiveFields'
    BY ActiveIs, PTL
  <2> QED
    BY <2>1, <2>2
<1>2. Exact(Active)
  <2>1. b.client \in admitted
    BY DEF Archive!Commit
  <2> QED
    BY <1>1, <2>1 DEF Proper, Unpaired, ActiveFields
<1>3. Grown(Active, Active', b)
  BY CommitGrows
<1>4. Exact(Active')
  BY <1>2, <1>3, GrownExact
<1>5. PICK s, j, t, g : /\ s = stateRecords /\ j = journal /\ t = stateRecords' /\ g = journal'
                        /\ Active.stateRecords = s /\ Active.journal = j
                        /\ Active'.stateRecords = t /\ Active'.journal = g
  BY <1>1 DEF ActiveFields
<1>6. ASSUME NEW k \in Keys PROVE CommitOn(b, k)
  <2>1. IF Archive!Touches(b, k)
        THEN /\ IsCurrent(k, Active'.stateRecords, Active'.journal)
             /\ Active'.stateRecords[k] # NoRecord
             /\ Active'.stateRecords[k].kind = b.muts[Archive!LastOn(b, k)].kind
             /\ Active'.journal[Active'.stateRecords[k].seq].mid =
                  b.muts[Archive!LastOn(b, k)].mid
        ELSE /\ Active'.stateRecords[k] = Active.stateRecords[k]
             /\ IsCurrent(k, Active.stateRecords, Active.journal) =>
                  IsCurrent(k, Active'.stateRecords, Active'.journal)
             /\ Active.stateRecords[k] # NoRecord =>
                  Active'.journal[Active.stateRecords[k].seq] =
                    Active.journal[Active.stateRecords[k].seq]
    BY <1>2, <1>3, GrownRecords
  <2>2. CASE Archive!Touches(b, k)
    <3>1. /\ IsCurrent(k, t, g) /\ t[k] # NoRecord
          /\ t[k].kind = b.muts[Archive!LastOn(b, k)].kind
          /\ g[t[k].seq].mid = b.muts[Archive!LastOn(b, k)].mid
      BY <1>5, <2>1, <2>2
    <3>2. Shown(Active', k) = IF t[k].kind = "tombstone" THEN NoRecord
                              ELSE Content(g[t[k].seq].mid)
      BY <1>5, <3>1 DEF Shown
    <3> QED
      BY <1>5, <2>2, <3>1, <3>2 DEF CommitOn
  <2>3. CASE ~ Archive!Touches(b, k)
    <3>1. /\ t[k] = s[k]
          /\ IsCurrent(k, s, j) => IsCurrent(k, t, g)
          /\ s[k] # NoRecord => g[s[k].seq] = j[s[k].seq]
      BY <1>5, <2>1, <2>3
    <3>2. Shown(Active', k) = Shown(Active, k)
      BY <1>5, <3>1 DEF Shown
    <3> QED
      BY <1>5, <2>3, <3>1, <3>2 DEF CommitOn
  <2> QED
    BY <2>2, <2>3
<1> QED
  BY <1>2, <1>3, <1>4, <1>6

\* A client's batch, before, while and after a restore appends its own.
LEMMA ClientCommits ==
  ASSUME IInv, NEW b \in Batches, ClientCommit(b)
  PROVE  IInv'
<1>1. b \in SentBatches
  BY DEF SentBatches
<1>2. /\ Archive!Commit(b, Archive!NoCheckpoint)
      /\ touched' = IF Restoring THEN touched \union KeysOf(b) ELSE touched
      /\ pc' = pc /\ agent' = agent /\ namespace' = namespace /\ audit' = audit
      /\ snapshots' = snapshots /\ writing' = writing /\ interrupted' = interrupted
  BY DEF ClientCommit, snapshotVars, restoreVars
<1>3. Proper(Active)
  BY DEF IInv
<1>4. Exact(Active') /\ \A k \in Keys : CommitOn(b, k)
  BY <1>1, <1>2, <1>3, CommitKeeps
<1>5. touched' \subseteq Keys /\ touched \subseteq touched'
  <2>1. \A i \in 1..Len(b.muts) : b.muts[i].key \in Keys
    BY <1>1, BatchFacts DEF SentMutation
  <2> QED
    BY <1>2, <2>1 DEF IInv, KeysOf
<1>6. pc' # "idle" => AgentSound'
  BY <1>2 DEF IInv, AgentSound, Restoring
<1>7. ASSUME ~ interrupted' PROVE CatchesUp'
  <2>1. CatchesUp
    BY <1>2, <1>7 DEF IInv
  <2>2. ASSUME pc = "idle" \/ pc = "staged" PROVE Replayed(Active')
    <3>1. \A k \in Keys : IsCurrent(k, stateRecords, journal)
      BY <2>1, <2>2, ActiveIs DEF CatchesUp, Replayed, ActiveFields
    <3>2. \A k \in Keys : IsCurrent(k, stateRecords', journal')
      BY <1>4, <3>1 DEF CommitOn
    <3> QED
      BY <3>2 DEF Replayed, Active
  <2>3. ASSUME Restoring
        PROVE  /\ Replayed(agent.retained)
               /\ \A k \in Keys : IsCurrent(k, stateRecords', journal') \/ Pending(k)'
    <3>1. /\ Replayed(agent.retained)
          /\ \A k \in Keys : IsCurrent(k, stateRecords, journal) \/ Pending(k)
      BY <2>1, <2>3 DEF CatchesUp
    <3>2. ASSUME NEW k \in Keys PROVE IsCurrent(k, stateRecords', journal') \/ Pending(k)'
      <4>1. CASE Archive!Touches(b, k)
        BY <1>4, <4>1 DEF CommitOn
      <4>2. CASE ~ Archive!Touches(b, k)
        <5>1. /\ stateRecords'[k] = stateRecords[k]
              /\ IsCurrent(k, stateRecords, journal) => IsCurrent(k, stateRecords', journal')
          BY <1>4, <4>2 DEF CommitOn
        <5>2. Pending(k) => Pending(k)'
          BY <1>2, <5>1 DEF Pending, Writes
        <5> QED
          BY <3>1, <5>1, <5>2
      <4> QED
        BY <4>1, <4>2
    <3> QED
      BY <3>1, <3>2
  <2> QED
    BY <1>2, <2>2, <2>3 DEF CatchesUp, Restoring
<1>8. Rewinds'
  <2>1. ASSUME Restoring, NEW k \in Keys \ touched' PROVE Shown(Active', k) = Shown(Active, k)
    <3>1. ~ Archive!Touches(b, k)
      BY <1>2, <2>1 DEF KeysOf, Archive!Touches
    <3> QED
      BY <1>4, <3>1 DEF CommitOn
  <2>2. Rewinds
    BY DEF IInv
  <2> QED
    BY <1>2, <1>5, <2>1, <2>2 DEF Rewinds, Restoring
<1> QED
  BY <1>2, <1>4, <1>5, <1>6, <1>7, <1>8 DEF IInv, Proper

\* A batch of the restore, taken from its queue.
LEMMA RestoreCommits ==
  ASSUME IInv, CommitRestoreBatch
  PROVE  IInv'
<1>1. PICK b, n, q : b = DueBatch /\ n = Len(b.muts) /\ q = agent.queue
  OBVIOUS
<1>2. /\ Due /\ pc = "append" /\ Archive!Commit(b, agent.known)
      /\ agent' = [agent EXCEPT !.queue = SubSeq(@, n + 1, Len(@)), !.next = @ + n, !.known = head']
      /\ pc' = pc /\ namespace' = namespace /\ audit' = audit
      /\ snapshots' = snapshots /\ writing' = writing
      /\ touched' = touched /\ interrupted' = interrupted
  BY <1>1 DEF CommitRestoreBatch, Due, snapshotVars
<1>3. AgentSound /\ Proper(Active) /\ Restoring /\ Restoring' /\ pc # "idle"
  BY <1>2 DEF IInv, Restoring
<1>4. /\ b \in SentBatches /\ n \in 1..Len(q) /\ Len(q) \in Nat
      /\ \A i \in 1..n : b.muts[i] = q[i]
  BY <1>1, <1>2, <1>3, DueBatchFacts DEF SentBatches
<1>5. Exact(Active') /\ \A k \in Keys : CommitOn(b, k)
  BY <1>2, <1>3, <1>4, CommitKeeps
<1>6. /\ q \in Seq(SentMutation) /\ agent.next \in Nat \ {0}
      /\ \A i \in 1..Len(q) : /\ q[i].mid \in RestoreIds
                              /\ q[i].mid.epoch = agent.epoch
                              /\ q[i].mid.n = agent.next + i - 1
  BY <1>1, <1>3 DEF AgentSound
<1>7. PICK r : r = SubSeq(q, n + 1, Len(q))
  OBVIOUS
<1>8. /\ r \in Seq(SentMutation) /\ Len(r) = Len(q) - n
      /\ \A i \in 1..Len(r) : r[i] = q[n + i] /\ n + i \in 1..Len(q)
  <2>1. \A i \in (n + 1)..Len(q) : q[i] \in SentMutation
    <3>1. \A i \in (n + 1)..Len(q) : i \in 1..Len(q)
      BY <1>4
    <3> QED
      BY <1>6, <3>1, ElementOfSeq
  <2>2. /\ r \in Seq(SentMutation)
        /\ Len(r) = IF n + 1 <= Len(q) THEN Len(q) - (n + 1) + 1 ELSE 0
        /\ \A i \in 1..(Len(q) - (n + 1) + 1) : r[i] = q[n + 1 + i - 1]
    <3>1. n + 1 \in Int /\ Len(q) \in Int
      BY <1>4
    <3> QED
      BY <1>7, <2>1, <3>1, SubSeqProperties
  <2>3. Len(r) = Len(q) - n
    BY <1>4, <2>2
  <2>4. ASSUME NEW i \in 1..Len(r) PROVE r[i] = q[n + i] /\ n + i \in 1..Len(q)
    <3>1. i \in 1..(Len(q) - (n + 1) + 1) /\ n + 1 + i - 1 = n + i /\ n + i \in 1..Len(q)
      BY <1>4, <2>3
    <3> QED
      BY <2>2, <3>1
  <2> QED
    BY <2>2, <2>3, <2>4
<1>9. /\ SameRestore /\ agent'.source = agent.source /\ agent'.cursor = agent.cursor
      /\ agent'.queue = r /\ agent'.next = agent.next + n
  BY <1>1, <1>2, <1>3, <1>7 DEF AgentSound, AgentFields, SameRestore
<1>10. AgentSound'
  <2>1. ASSUME NEW i \in 1..Len(r)
        PROVE  /\ r[i].mid \in RestoreIds /\ r[i].mid.epoch = agent.epoch
               /\ r[i].mid.n = agent.next + n + i - 1
    <3>1. r[i] = q[n + i] /\ n + i \in 1..Len(q)
      BY <1>8
    <3>2. agent.next + (n + i) - 1 = agent.next + n + i - 1
      BY <1>4, <1>6
    <3> QED
      BY <1>6, <3>1, <3>2
  <2>2. agent.next + n \in Nat \ {0}
    BY <1>4, <1>6
  <2> QED
    BY <1>2, <1>3, <1>8, <1>9, <2>1, <2>2 DEF AgentSound, SameRestore
<1>11. ASSUME ~ interrupted' PROVE CatchesUp'
  <2>1. /\ Replayed(agent.retained)
        /\ \A k \in Keys : IsCurrent(k, stateRecords, journal) \/ Pending(k)
    BY <1>2, <1>3, <1>11 DEF IInv, CatchesUp
  <2>2. ASSUME NEW k \in Keys PROVE IsCurrent(k, stateRecords', journal') \/ Pending(k)'
    <3>1. CASE Archive!Touches(b, k)
      BY <1>5, <3>1 DEF CommitOn
    <3>2. CASE ~ Archive!Touches(b, k)
      <4>1. /\ stateRecords'[k] = stateRecords[k]
            /\ IsCurrent(k, stateRecords, journal) => IsCurrent(k, stateRecords', journal')
        BY <1>5, <3>2 DEF CommitOn
      <4>2. Writes(k) => Writes(k)'
        <5>1. ASSUME NEW i \in 1..Len(q), q[i].key = k
              PROVE  \E x \in 1..Len(r) : r[x].key = k
          <6>1. i \notin 1..n
            BY <1>1, <1>4, <3>2, <5>1 DEF Archive!Touches
          <6>2. i - n \in 1..Len(r) /\ n + (i - n) = i
            BY <1>4, <1>8, <6>1
          <6> QED
            BY <1>8, <5>1, <6>2
        <5> QED
          BY <1>1, <1>9, <5>1 DEF Writes
      <4>3. Pending(k) => Pending(k)'
        BY <1>9, <4>1, <4>2 DEF Pending, SameRestore
      <4> QED
        BY <2>1, <4>1, <4>3
    <3> QED
      BY <3>1, <3>2
  <2> QED
    BY <1>2, <1>9, <2>1, <2>2 DEF CatchesUp, SameRestore
<1>12. Rewinds'
  <2>1. ASSUME NEW k \in Keys \ touched
        PROVE  /\ Shown(Active', k) = Shown(agent.snap.db, k)
               /\ \A i \in 1..Len(r) :
                    r[i].key = k =>
                      Shown(agent.snap.db, k) =
                        IF r[i].kind = "tombstone" THEN NoRecord ELSE r[i].mid.of
    <3>1. /\ Shown(Active, k) = Shown(agent.snap.db, k)
          /\ \A i \in 1..Len(q) :
               q[i].key = k =>
                 Shown(agent.snap.db, k) =
                   IF q[i].kind = "tombstone" THEN NoRecord ELSE q[i].mid.of
      BY <1>1, <1>3, <2>1 DEF IInv, Rewinds
    <3>2. CASE Archive!Touches(b, k)
      <4>1. PICK l : l = Archive!LastOn(b, k)
        OBVIOUS
      <4>2. l \in 1..n /\ b.muts[l].key = k
        BY <1>1, <1>4, <3>2, <4>1, LastOnFacts
      <4>3. q[l].key = k /\ l \in 1..Len(q) /\ b.muts[l] = q[l]
        BY <1>4, <4>2
      <4>4. Content(q[l].mid) = q[l].mid.of
        <5>1. q[l].mid \in RestoreIds
          BY <1>6, <4>3
        <5>2. q[l].mid \notin MutationIds
          BY <5>1, EpochsAssumption DEF RestoreIds
        <5> QED
          BY <5>2 DEF Content
      <4>5. Shown(Active', k) =
              IF q[l].kind = "tombstone" THEN NoRecord ELSE Content(q[l].mid)
        BY <1>5, <3>2, <4>1, <4>3 DEF CommitOn
      <4> QED
        BY <1>8, <3>1, <4>3, <4>4, <4>5
    <3>3. CASE ~ Archive!Touches(b, k)
      BY <1>5, <1>8, <3>1, <3>3 DEF CommitOn
    <3> QED
      BY <3>2, <3>3
  <2>2. agent'.snap = agent.snap /\ agent'.queue = r /\ touched' = touched
    BY <1>2, <1>9 DEF SameRestore
  <2>3. \A k \in Keys \ touched' :
          /\ Shown(Active', k) = Shown(agent'.snap.db, k)
          /\ \A i \in 1..Len(agent'.queue) :
               agent'.queue[i].key = k =>
                 Shown(agent'.snap.db, k) =
                   IF agent'.queue[i].kind = "tombstone" THEN NoRecord
                   ELSE agent'.queue[i].mid.of
    BY <2>1, <2>2
  <2> QED
    BY <2>3 DEF Rewinds
<1> QED
  BY <1>2, <1>5, <1>10, <1>11, <1>12 DEF IInv, Proper
-----------------------------------------------------------------------------
\* The steps that make the database another one.
LEMMA Becomes ==
  ASSUME NEW d, ActiveBecomes(d)
  PROVE  /\ namespace' = d.namespace /\ stateRecords' = d.stateRecords /\ journal' = d.journal
         /\ Exact(d) => Exact(Active')
         /\ Unpaired(d) => Unpaired(Active')
         /\ Replayed(d) => Replayed(Active')
         /\ \A k \in Keys : Shown(Active', k) = Shown(d, k)
         /\ DOMAIN d = Fields => \A f \in Fields : Active'[f] = d[f]
<1>1. /\ Active'.admitted = d.admitted /\ Active'.lastSeq = d.lastSeq
      /\ Active'.journal = d.journal /\ Active'.stateRecords = d.stateRecords
      /\ Active'.receipts = d.receipts /\ Active'.checkpoints = d.checkpoints
      /\ Active'.head = d.head /\ Active'.retainedFrom = d.retainedFrom
      /\ Active'.namespace = d.namespace /\ Active'.audit = d.audit
      /\ DOMAIN Active' = Fields
  BY DEF ActiveBecomes, Active, Fields
<1>2. Exact(d) => Exact(Active')
  BY <1>1 DEF Exact, Chained, InStreams
<1>3. Unpaired(d) => Unpaired(Active')
  BY <1>1 DEF Unpaired
<1>4. Replayed(d) => Replayed(Active')
  BY <1>1 DEF Replayed
<1>5. \A k \in Keys : Shown(Active', k) = Shown(d, k)
  BY <1>1 DEF Shown
<1>6. \A f \in Fields : Active'[f] = d[f]
  BY <1>1 DEF Fields
<1> QED
  BY <1>2, <1>3, <1>4, <1>5, <1>6 DEF ActiveBecomes

\* The empty archive with its boundary.
LEMMA EmptyExact ==
  ASSUME NEW d, DOMAIN d = Fields,
         Unpaired([d EXCEPT !.namespace = FALSE, !.checkpoints = {}]),
         d.namespace = TRUE, d.checkpoints = {d.head}
  PROVE  Exact(d) /\ Replayed(d)
<1>1. /\ d.admitted = {} /\ d.lastSeq = [c \in Senders |-> 0] /\ d.journal = <<>>
      /\ d.stateRecords = [k \in Keys |-> NoRecord] /\ d.receipts = {}
      /\ d.head = [seq |-> 0, chain |-> <<>>]
  BY DEF Unpaired, Fields
<1>2. PICK c : c = d.head.chain
  OBVIOUS
<1>3. c = <<>> /\ Len(c) = 0 /\ c \in Seq(Link) /\ SubSeq(c, 1, 0) = <<>> /\ c \in Seq(JournalRow)
  <2>1. c = <<>>
    BY <1>1, <1>2
  <2> QED
    BY <2>1, EmptySeq, SubSeqEmpty
<1>4. EndOf(c, 0) = 0 /\ BoundaryAt(c, 0) = d.head
  BY <1>1, <1>3 DEF EndOf, BoundaryAt
<1>5. Linked(c)
  BY <1>3, <1>4 DEF Linked
<1>6. Chained(d)
  <2>1. d.receipts = {ReceiptAt(c, i) : i \in 1..0}
    BY <1>1
  <2>2. d.checkpoints = {BoundaryAt(c, i) : i \in 0..0}
    BY <1>4
  <2> QED
    BY <1>2, <1>3, <1>4, <1>5, <2>1, <2>2 DEF Chained
<1>7. Filled(d.journal, c)
  BY <1>1, <1>3, <1>4 DEF Filled
<1>8. InStreams(d)
  BY <1>1 DEF InStreams
<1>9. Points(d.stateRecords, d.journal)
  BY <1>1 DEF Points
<1>10. Replayed(d)
  BY <1>1 DEF Replayed, IsCurrent
<1> QED
  BY <1>2, <1>6, <1>7, <1>8, <1>9, <1>10 DEF Exact

\* The first client decides the namespace of the archive.
LEMMA NamespaceAdmitted ==
  ASSUME IInv, AdmitNamespace
  PROVE  IInv'
<1>1. PICK d : d = Admitted(Active)
  OBVIOUS
<1>2. /\ ActiveBecomes(d) /\ ~ namespace
      /\ pc' = pc /\ agent' = agent /\ snapshots' = snapshots /\ writing' = writing
      /\ touched' = touched /\ interrupted' = interrupted
  BY <1>1 DEF AdmitNamespace, snapshotVars, restoreVars
<1>3. Unpaired(Active) /\ ActiveFields
  BY <1>2, ActiveIs DEF IInv, Proper, Exact, ActiveFields
<1>4. /\ DOMAIN d = Fields /\ d.namespace = TRUE /\ d.checkpoints = {d.head}
      /\ d.stateRecords = Active.stateRecords /\ d.journal = Active.journal
      /\ Unpaired([d EXCEPT !.namespace = FALSE, !.checkpoints = {}])
  BY <1>1, <1>3 DEF Admitted, Unpaired, Fields, ActiveFields
<1>5. Exact(d) /\ Replayed(d)
  BY <1>4, EmptyExact
<1>6. /\ Exact(Active') /\ Replayed(Active') /\ namespace' = TRUE
      /\ \A k \in Keys : Shown(Active', k) = Shown(d, k)
  BY <1>2, <1>4, <1>5, Becomes
<1>7. \A k \in Keys : Shown(Active', k) = Shown(Active, k)
  BY <1>4, <1>6 DEF Shown
<1>8. \A k \in Keys : IsCurrent(k, stateRecords', journal')
  BY <1>6 DEF Replayed, Active
<1>9. pc' # "idle" => AgentSound'
  BY <1>2 DEF IInv, AgentSound, Restoring
<1>10. ~ interrupted' => CatchesUp'
  BY <1>2, <1>6, <1>8 DEF IInv, CatchesUp, Restoring
<1>11. Rewinds'
  BY <1>2, <1>7 DEF IInv, Rewinds, Restoring
<1> QED
  BY <1>2, <1>6, <1>9, <1>10, <1>11 DEF IInv, Proper

\* A stream is admitted: its sequence is 0, as none of its rows is in the journal.
LEMMA ClientAdmitted ==
  ASSUME Proper(Active), namespace, NEW c \in Senders, Archive!AdmitClient(c),
         UNCHANGED <<namespace, audit>>
  PROVE  /\ Exact(Active) /\ Exact(Active')
         /\ journal' = journal /\ stateRecords' = stateRecords /\ head' = head
<1>1. ActiveFields /\ ActiveFields'
  <2>1. ActiveFields
    BY ActiveIs
  <2>2. ActiveFields'
    BY ActiveIs, PTL
  <2> QED
    BY <2>1, <2>2
<1>2. Exact(Active)
  BY <1>1 DEF Proper, Unpaired, ActiveFields
<1>3. /\ admitted' = admitted \union {c}
      /\ UNCHANGED <<lastSeq, journal, stateRecords, receipts, checkpoints, head>>
  BY DEF Archive!AdmitClient
<1>4. InStreams(Active')
  <2>1. InStreams(Active)
    BY <1>2 DEF Exact
  <2>2. /\ Active'.admitted = Active.admitted \union {c}
        /\ Active'.lastSeq = Active.lastSeq /\ Active'.journal = Active.journal
    BY <1>1, <1>3 DEF ActiveFields
  <2>3. Active'.admitted \subseteq Senders
    BY <2>1, <2>2 DEF InStreams
  <2>4. \A x \in Senders \ Active'.admitted : x \in Senders \ Active.admitted
    BY <2>2
  <2> QED
    BY <2>1, <2>2, <2>3, <2>4 DEF InStreams
<1>5. Chained(Active')
  BY <1>1, <1>2, <1>3 DEF Exact, Chained, ActiveFields
<1> QED
  BY <1>1, <1>2, <1>3, <1>4, <1>5 DEF Exact, ActiveFields

\* A client that is admitted changes no history.
LEMMA ClientJoins ==
  ASSUME IInv, NEW c \in Streams, AdmitClient(c)
  PROVE  IInv'
<1>1. /\ namespace /\ Archive!AdmitClient(c) /\ UNCHANGED <<namespace, audit>>
      /\ pc' = pc /\ agent' = agent /\ snapshots' = snapshots /\ writing' = writing
      /\ touched' = touched /\ interrupted' = interrupted
  BY DEF AdmitClient, snapshotVars, restoreVars
<1>2. c \in Senders /\ Proper(Active)
  BY DEF Senders, IInv
<1>3. /\ Exact(Active) /\ Exact(Active')
      /\ journal' = journal /\ stateRecords' = stateRecords /\ head' = head
  BY <1>1, <1>2, ClientAdmitted
<1>4. \A k \in Keys : Shown(Active', k) = Shown(Active, k)
  BY <1>3 DEF Shown, Active
<1>5. Replayed(Active) => Replayed(Active')
  BY <1>3 DEF Replayed, Active
<1>6. pc' # "idle" => AgentSound'
  BY <1>1 DEF IInv, AgentSound, Restoring
<1>7. ~ interrupted' => CatchesUp'
  BY <1>1, <1>3, <1>5 DEF IInv, CatchesUp, Restoring, Pending, Writes
<1>8. Rewinds'
  BY <1>1, <1>4 DEF IInv, Rewinds, Restoring
<1> QED
  BY <1>1, <1>3, <1>6, <1>7, <1>8 DEF IInv, Proper

\* After the switch, every key is still to be read.
LEMMA AppendBegins ==
  ASSUME IInv, BeginAppend
  PROVE  IInv'
<1>1. /\ pc = "switched" /\ pc' = "append" /\ agent' = [agent EXCEPT !.known = head]
      /\ namespace /\ Archive!AdmitClient(agent.epoch) /\ UNCHANGED <<namespace, audit>>
      /\ snapshots' = snapshots /\ writing' = writing
      /\ touched' = touched /\ interrupted' = interrupted
  BY DEF BeginAppend, snapshotVars
<1>2. AgentSound /\ Proper(Active) /\ Restoring /\ Restoring'
  BY <1>1 DEF IInv, Restoring
<1>3. agent.epoch \in Senders
  BY <1>2 DEF AgentSound, Senders
<1>4. /\ Exact(Active) /\ Exact(Active')
      /\ journal' = journal /\ stateRecords' = stateRecords /\ head' = head
  BY <1>1, <1>2, <1>3, ClientAdmitted
<1>5. \A k \in Keys : Shown(Active', k) = Shown(Active, k)
  BY <1>4 DEF Shown, Active
<1>6. /\ SameRestore /\ agent'.source = agent.source /\ agent'.cursor = agent.cursor
      /\ agent'.queue = agent.queue /\ agent'.next = agent.next
  BY <1>1, <1>2 DEF AgentSound, AgentFields, SameRestore
<1>7. AgentSound'
  BY <1>1, <1>2, <1>6 DEF AgentSound, SameRestore
<1>8. ~ interrupted' => CatchesUp'
  BY <1>1, <1>2, <1>4, <1>6 DEF IInv, CatchesUp, Pending, Writes, SameRestore
<1>9. Rewinds'
  <2>1. agent'.snap = agent.snap
    BY <1>6 DEF SameRestore
  <2> QED
    BY <1>1, <1>2, <1>5, <1>6, <2>1 DEF IInv, Rewinds
<1> QED
  BY <1>1, <1>4, <1>7, <1>8, <1>9 DEF IInv, Proper
-----------------------------------------------------------------------------
\* The switch: the merged database is exact if the snapshot is of the archive's past.
LEMMA Switches ==
  ASSUME IInv, OwnPast, Switch
  PROVE  IInv'
<1>1. PICK t, m : t = agent.snap.db /\ m = Merged(t)
  OBVIOUS
<1>2. /\ pc = "staged" /\ CanSwitch /\ ActiveBecomes(m)
      /\ agent' = [agent EXCEPT !.retained = Active] /\ pc' = "switched" /\ touched' = {}
      /\ snapshots' = snapshots /\ writing' = writing /\ interrupted' = interrupted
  BY <1>1 DEF Switch, snapshotVars
<1>3. AgentSound /\ Proper(Active) /\ namespace
  BY <1>2 DEF IInv, CanSwitch
<1>4. Exact(Active) /\ Exact(t) /\ t.head \in checkpoints
  <2>1. Exact(Active)
    BY <1>3, ActiveIs DEF Proper, Unpaired, ActiveFields
  <2> QED
    BY <1>1, <1>2, <1>3, <2>1 DEF AgentSound, Image, OwnPast
<1>5. /\ Exact(m) /\ \A k \in Keys : Shown(m, k) = Shown(t, k)
      /\ Replayed(Active) =>
           \A k \in Keys : \/ IsCurrent(k, m.stateRecords, m.journal)
                           \/ t.stateRecords[k] # NoRecord
                           \/ stateRecords[k] # NoRecord
  BY <1>1, <1>4, MergedIsExact
<1>6. m.stateRecords = t.stateRecords /\ m.namespace = TRUE
  BY <1>1, <1>4, MergeIs DEF MergesInto
<1>7. /\ Exact(Active') /\ \A k \in Keys : Shown(Active', k) = Shown(m, k)
      /\ namespace' = TRUE /\ stateRecords' = t.stateRecords /\ journal' = m.journal
  BY <1>2, <1>5, <1>6, Becomes
<1>8. /\ agent'.epoch = agent.epoch /\ agent'.snap = agent.snap /\ DOMAIN agent' = AgentFields
      /\ agent'.retained = Active /\ agent'.source = agent.source
      /\ agent'.cursor = agent.cursor /\ agent'.queue = agent.queue /\ agent'.next = agent.next
      /\ agent.source = "snapshot" /\ agent.cursor = 0 /\ agent.queue = <<>>
  BY <1>2, <1>3 DEF AgentSound, AgentFields
<1>9. AgentSound'
  <2>1. Active = [f \in Fields |-> Active[f]]
    BY DEF Active, Fields
  <2>2. agent'.retained = [f \in Fields |-> agent'.retained[f]]
    BY <1>8, <2>1
  <2> QED
    BY <1>2, <1>3, <1>4, <1>8, <2>2 DEF AgentSound, Image
<1>10. ASSUME ~ interrupted' PROVE CatchesUp'
  <2>1. Replayed(Active)
    BY <1>2, <1>10 DEF IInv, CatchesUp
  <2>2. ASSUME NEW k \in Keys PROVE IsCurrent(k, stateRecords', journal') \/ Pending(k)'
    <3>1. 0 < Rank[k]
      BY RankAssumption
    <3>2. CASE t.stateRecords[k] # NoRecord
      BY <1>7, <1>8, <3>1, <3>2 DEF Pending
    <3>3. CASE t.stateRecords[k] = NoRecord /\ stateRecords[k] # NoRecord
      <4>1. agent'.retained.stateRecords = stateRecords
        BY <1>8, ActiveIs DEF ActiveFields
      <4> QED
        BY <1>7, <1>8, <3>3, <4>1 DEF Pending
    <3>4. CASE IsCurrent(k, m.stateRecords, m.journal)
      BY <1>6, <1>7, <3>4
    <3> QED
      BY <1>5, <2>1, <3>2, <3>3, <3>4
  <2> QED
    BY <1>2, <1>8, <2>1, <2>2 DEF CatchesUp
<1>11. Rewinds'
  <2>1. Len(agent'.queue) = 0
    BY <1>8, EmptySeq
  <2> QED
    BY <1>1, <1>5, <1>7, <1>8, <2>1 DEF Rewinds
<1> QED
  BY <1>2, <1>7, <1>9, <1>10, <1>11 DEF IInv, Proper

\* The roll-back.
LEMMA RollsBack ==
  ASSUME IInv, RestoreFails
  PROVE  IInv'
<1>1. /\ Restoring /\ ActiveBecomes(agent.retained) /\ pc' = "idle" /\ touched' = {}
      /\ snapshots' = snapshots /\ writing' = writing /\ interrupted' = interrupted
  BY DEF RestoreFails, snapshotVars
<1>2. Exact(agent.retained)
  BY <1>1 DEF IInv, AgentSound, Restoring
<1>3. Exact(Active') /\ namespace' = TRUE /\ (Replayed(agent.retained) => Replayed(Active'))
  <2>1. agent.retained.namespace = TRUE
    BY <1>2 DEF Exact
  <2> QED
    BY <1>1, <1>2, <2>1, Becomes
<1>4. ~ interrupted' => CatchesUp'
  BY <1>1, <1>3 DEF IInv, CatchesUp, Restoring
<1> QED
  BY <1>1, <1>3, <1>4 DEF IInv, Proper, Rewinds, Restoring

\* An archive without its namespace.
LEMMA BlankIs ==
  ASSUME NEW a, ActiveBecomes(Blank(a))
  PROVE  /\ Unpaired(Active') /\ namespace' = FALSE
         /\ Replayed(Active') /\ \A k \in Keys : IsCurrent(k, stateRecords', journal')
<1>1. PICK d : d = Blank(a)
  OBVIOUS
<1>2. Unpaired(d) /\ d.namespace = FALSE /\ Replayed(d)
  BY <1>1, EmptySeq DEF Blank, Unpaired, Senders, Replayed, IsCurrent
<1>3. Unpaired(Active') /\ namespace' = FALSE /\ Replayed(Active')
  BY <1>1, <1>2, Becomes
<1> QED
  BY <1>3 DEF Replayed, Active

\* A destruction leaves an exact database: none of the batches.
LEMMA Destroys ==
  ASSUME IInv, Destroy
  PROVE  IInv'
<1>1. /\ ActiveBecomes(Blank(audit)) /\ touched' = IF Restoring THEN Keys ELSE touched
      /\ pc' = pc /\ agent' = agent /\ snapshots' = snapshots /\ writing' = writing
      /\ interrupted' = interrupted
  BY DEF Destroy, snapshotVars, restoreVars
<1>2. /\ Unpaired(Active') /\ namespace' = FALSE
      /\ Replayed(Active') /\ \A k \in Keys : IsCurrent(k, stateRecords', journal')
  BY <1>1, BlankIs
<1>3. pc' # "idle" => AgentSound'
  BY <1>1 DEF IInv, AgentSound, Restoring
<1>4. ~ interrupted' => CatchesUp'
  BY <1>1, <1>2 DEF IInv, CatchesUp, Restoring
<1>5. Rewinds'
  BY <1>1 DEF Rewinds, Restoring
<1> QED
  BY <1>1, <1>2, <1>3, <1>4, <1>5 DEF IInv, Proper

\* A crash leaves the file, and no restore in progress.
LEMMA Crashes ==
  ASSUME IInv, Crash
  PROVE  IInv'
<1>1. /\ pc' = "idle" /\ touched' = {} /\ writing' = NoImage /\ snapshots' = snapshots
      /\ interrupted' = (interrupted \/ Restoring) /\ UNCHANGED activeVars
  BY DEF Crash, Dies
<1>2. Active' = Active /\ namespace' = namespace
  BY <1>1 DEF activeVars, archiveVars, Active
<1>3. ASSUME ~ interrupted' PROVE CatchesUp'
  <2>1. ~ interrupted /\ ~ Restoring /\ CatchesUp
    BY <1>1, <1>3 DEF IInv
  <2>2. Replayed(Active)
    BY <2>1 DEF IInv, CatchesUp, Restoring
  <2> QED
    BY <1>1, <1>2, <2>2 DEF CatchesUp, Restoring
<1> QED
  BY <1>1, <1>2, <1>3 DEF IInv, Rewinds, Restoring

\* A crash between the two renames starts with an empty archive of a new identity.
LEMMA CrashesInSwitch ==
  ASSUME IInv, CrashInSwitch
  PROVE  IInv'
<1>1. /\ pc' = "idle" /\ touched' = {} /\ writing' = NoImage /\ snapshots' = snapshots
      /\ ActiveBecomes(Blank({}))
  BY DEF CrashInSwitch, Dies
<1>2. Unpaired(Active') /\ namespace' = FALSE /\ Replayed(Active')
  BY <1>1, BlankIs
<1>3. CatchesUp'
  BY <1>1, <1>2 DEF CatchesUp, Restoring
<1> QED
  BY <1>1, <1>2, <1>3 DEF IInv, Proper, Rewinds, Restoring

\* Staging keeps the active database and opens a copy of the snapshot.
LEMMA Stages ==
  ASSUME IInv, NEW s \in snapshots, NEW e \in Epochs \ begun, StageRestore(s, e)
  PROVE  IInv'
<1>1. /\ pc = "idle" /\ pc' = "staged"
      /\ agent' = [epoch |-> e, snap |-> s, retained |-> NoImage, source |-> "snapshot",
                   cursor |-> 0, queue |-> <<>>, next |-> 1, known |-> head]
      /\ snapshots' = snapshots /\ writing' = writing /\ touched' = touched
      /\ interrupted' = interrupted /\ UNCHANGED activeVars
  BY DEF StageRestore, snapshotVars
<1>2. Active' = Active /\ namespace' = namespace
  BY <1>1 DEF activeVars, archiveVars, Active
<1>3. Image(s)
  BY DEF IInv
<1>4. /\ DOMAIN agent' = AgentFields /\ agent'.epoch = e /\ agent'.snap = s
      /\ agent'.source = "snapshot" /\ agent'.cursor = 0 /\ agent'.queue = <<>>
      /\ agent'.next = 1 /\ Len(agent'.queue) = 0 /\ agent'.queue \in Seq(SentMutation)
  BY <1>1, EmptySeq DEF AgentFields
<1>5. AgentSound'
  BY <1>1, <1>3, <1>4 DEF AgentSound, Restoring
<1>6. ~ interrupted' => CatchesUp'
  BY <1>1, <1>2 DEF IInv, CatchesUp, Restoring
<1> QED
  BY <1>1, <1>2, <1>5, <1>6 DEF IInv, Rewinds, Restoring

\* A restore that is refused before the switch changes nothing.
LEMMA Refuses ==
  ASSUME IInv, RefuseRestore
  PROVE  IInv'
<1>1. /\ pc = "staged" /\ pc' = "idle"
      /\ snapshots' = snapshots /\ writing' = writing /\ touched' = touched
      /\ interrupted' = interrupted /\ UNCHANGED activeVars
  BY DEF RefuseRestore, snapshotVars
<1>2. Active' = Active /\ namespace' = namespace
  BY <1>1 DEF activeVars, archiveVars, Active
<1> QED
  BY <1>1, <1>2 DEF IInv, CatchesUp, Rewinds, Restoring

\* All is written, so every record is the last row of its key.
LEMMA Finishes ==
  ASSUME IInv, FinishRestore
  PROVE  IInv'
<1>1. /\ pc = "append" /\ agent.source = "done" /\ agent.queue = <<>> /\ pc' = "idle"
      /\ touched' = {} /\ snapshots' = snapshots /\ writing' = writing
      /\ interrupted' = interrupted /\ UNCHANGED <<archiveVars, namespace>>
      /\ audit' = audit \union {agent.snap.id}
  BY DEF FinishRestore, snapshotVars
<1>2. /\ UNCHANGED <<admitted, lastSeq, journal, stateRecords, receipts, checkpoints, head>>
      /\ namespace' = namespace
  BY <1>1 DEF archiveVars
<1>3. Exact(Active) => Exact(Active')
  BY <1>2 DEF Active, Exact, Chained, InStreams, Fields
<1>4. Unpaired(Active) => Unpaired(Active')
  BY <1>2 DEF Active, Unpaired
<1>5. ASSUME ~ interrupted' PROVE CatchesUp'
  <2>1. \A k \in Keys : IsCurrent(k, stateRecords, journal) \/ Pending(k)
    BY <1>1, <1>5 DEF IInv, CatchesUp, Restoring
  <2>2. \A k \in Keys : ~ Pending(k)
    BY <1>1, EmptySeq DEF Pending, Writes
  <2>3. Replayed(Active')
    BY <1>2, <2>1, <2>2 DEF Replayed, Active
  <2> QED
    BY <1>1, <2>3 DEF CatchesUp, Restoring
<1> QED
  BY <1>1, <1>2, <1>3, <1>4, <1>5 DEF IInv, Proper, Rewinds, Restoring

\* The steps of the snapshots and of the guard leave the database and the restore alone.
LEMMA LeftAlone ==
  ASSUME IInv, UNCHANGED <<activeVars, restoreVars, touched, interrupted>>,
         \A s \in snapshots' : Image(s), writing' = NoImage \/ Image(writing')
  PROVE  IInv'
<1>1. /\ Active' = Active /\ namespace' = namespace /\ pc' = pc /\ agent' = agent
      /\ journal' = journal /\ stateRecords' = stateRecords
      /\ touched' = touched /\ interrupted' = interrupted
  BY DEF activeVars, archiveVars, restoreVars, Active
<1>2. pc' # "idle" => AgentSound'
  BY <1>1 DEF IInv, AgentSound, Restoring
<1>3. ~ interrupted' => CatchesUp'
  BY <1>1 DEF IInv, CatchesUp, Restoring, Pending, Writes
<1>4. Rewinds'
  BY <1>1 DEF IInv, Rewinds, Restoring
<1> QED
  BY <1>1, <1>2, <1>3, <1>4 DEF IInv
-----------------------------------------------------------------------------
\* The empty archive is exact.
LEMMA Initially == Init => IInv
<1> SUFFICES ASSUME Init PROVE IInv
  OBVIOUS
<1>1. /\ admitted = {} /\ lastSeq = [c \in Senders |-> 0] /\ journal = <<>>
      /\ stateRecords = [k \in Keys |-> NoRecord] /\ receipts = {}
      /\ head = [seq |-> 0, chain |-> <<>>] /\ checkpoints = {head} /\ namespace = TRUE
      /\ snapshots = {} /\ writing = NoImage /\ pc = "idle" /\ touched = {}
  BY DEF Init, Archive!Init, Senders
<1>2. ActiveFields
  BY ActiveIs
<1>3. PICK d : d = Active
  OBVIOUS
<1>4. /\ DOMAIN d = Fields /\ d.namespace = TRUE /\ d.checkpoints = {d.head}
      /\ Unpaired([d EXCEPT !.namespace = FALSE, !.checkpoints = {}])
  BY <1>1, <1>2, <1>3 DEF Unpaired, ActiveFields, Fields
<1>5. Exact(d) /\ Replayed(d)
  BY <1>4, EmptyExact
<1> QED
  BY <1>1, <1>3, <1>5 DEF IInv, Proper, CatchesUp, Rewinds, Restoring

\* Every action keeps the invariant while snapshots of the archive are of its own past.
LEMMA Inductive == IInv /\ OwnPast /\ [Next]_vars => IInv'
<1> SUFFICES ASSUME IInv, OwnPast, [Next]_vars PROVE IInv'
  OBVIOUS
<1>1. CASE AdmitNamespace
  BY <1>1, NamespaceAdmitted
<1>2. CASE \E c \in Streams : AdmitClient(c)
  BY <1>2, ClientJoins
<1>3. CASE \E b \in Batches : ClientCommit(b)
  BY <1>3, ClientCommits
<1>4. CASE BeginSnapshot
  <2>1. /\ namespace /\ writing' = [id |-> created + 1, archive |-> identity, db |-> Active]
        /\ snapshots' = snapshots
        /\ UNCHANGED <<activeVars, restoreVars, touched, interrupted>>
    BY <1>4 DEF BeginSnapshot
  <2>2. Exact(Active)
    BY <2>1, ActiveIs DEF IInv, Proper, Unpaired, ActiveFields
  <2>3. Image(writing')
    BY <2>1, <2>2 DEF Image
  <2> QED
    BY <2>1, <2>3, LeftAlone DEF IInv
<1>5. CASE PublishSnapshot
  <2>1. /\ writing # NoImage /\ snapshots' = snapshots \union {writing} /\ writing' = NoImage
        /\ UNCHANGED <<activeVars, restoreVars, touched, interrupted>>
    BY <1>5 DEF PublishSnapshot
  <2> QED
    BY <2>1, LeftAlone DEF IInv
<1>6. CASE AbandonSnapshot
  BY <1>6, LeftAlone DEF AbandonSnapshot, IInv
<1>7. CASE \E kept \in SUBSET Ids : Rotate(kept)
  <2>1. /\ snapshots' \subseteq snapshots /\ writing' = writing
        /\ UNCHANGED <<activeVars, restoreVars, touched, interrupted>>
    BY <1>7 DEF Rotate
  <2> QED
    BY <2>1, LeftAlone DEF IInv
<1>8. CASE \E s \in snapshots, e \in Epochs \ begun : StageRestore(s, e)
  BY <1>8, Stages
<1>9. CASE RefuseRestore
  BY <1>9, Refuses
<1>10. CASE Switch
  BY <1>10, Switches
<1>11. CASE BeginAppend
  BY <1>11, AppendBegins
<1>12. CASE ReadSnapshotPage
  BY <1>12, SnapshotPage
<1>13. CASE ReadRetainedPage
  BY <1>13, RetainedPage
<1>14. CASE CommitRestoreBatch
  BY <1>14, RestoreCommits
<1>15. CASE FinishRestore
  BY <1>15, Finishes
<1>16. CASE RestoreFails
  BY <1>16, RollsBack
<1>17. CASE Preflight
  BY <1>17, LeftAlone DEF Preflight, snapshotVars, IInv
<1>18. CASE \E ch \in challenges, passes \in BOOLEAN : Confirm(ch, passes)
  BY <1>18, LeftAlone DEF Confirm, snapshotVars, IInv
<1>19. CASE Destroy
  BY <1>19, Destroys
<1>20. CASE Crash
  BY <1>20, Crashes
<1>21. CASE CrashInSwitch
  BY <1>21, CrashesInSwitch
<1>22. CASE UNCHANGED vars
  BY <1>22, LeftAlone DEF vars, snapshotVars, IInv
<1> QED
  BY <1>1, <1>2, <1>3, <1>4, <1>5, <1>6, <1>7, <1>8, <1>9, <1>10, <1>11, <1>12, <1>13, <1>14,
     <1>15, <1>16, <1>17, <1>18, <1>19, <1>20, <1>21, <1>22 DEF Next

-----------------------------------------------------------------------------
\* What an exact database says in the words of the archive.
LEMMA ExactChain ==
  ASSUME Exact(Active)
  PROVE  /\ Linked(head.chain)
         /\ head = BoundaryAt(head.chain, Len(head.chain))
         /\ receipts = {ReceiptAt(head.chain, i) : i \in 1..Len(head.chain)}
         /\ checkpoints = {BoundaryAt(head.chain, i) : i \in 0..Len(head.chain)}
         /\ Filled(journal, head.chain)
  BY ActiveIs DEF Exact, Chained, ActiveFields

\* In an exact database a receipt proves the rows of its batch.
LEMMA ExactReceipts ==
  ASSUME Exact(Active)
  PROVE  Archive!ReceiptsProveJournal
<1>1. PICK c, n : c = head.chain /\ n = Len(c)
  OBVIOUS
<1>2. /\ Linked(c) /\ receipts = {ReceiptAt(c, i) : i \in 1..n} /\ Filled(journal, c)
      /\ head.seq = EndOf(c, n)
  BY <1>1, ExactChain DEF BoundaryAt
<1>3. /\ n \in Nat /\ \A i \in 0..n : EndOf(c, i) \in Nat
      /\ \A i \in 1..n : /\ Len(c[i].batch.muts) \in Nat \ {0}
                         /\ c[i].from \in Nat \ {0} /\ c[i].to \in Nat
  BY <1>1, <1>2, LinkFacts
<1>4. \A i \in 1..n : /\ c[i].from = EndOf(c, i - 1) + 1
                      /\ c[i].to = EndOf(c, i - 1) + Len(c[i].batch.muts)
                      /\ i - 1 \in 0..n /\ i \in 0..n /\ EndOf(c, i) = c[i].to
                      /\ EndOf(c, i - 1) \in Nat
                      /\ c[i].to <= EndOf(c, n)
  <2>1. \A i \in 1..n : i - 1 \in 0..n /\ i \in 0..n /\ n \in 0..n /\ i <= n
    BY <1>3
  <2>2. \A i \in 1..n : EndOf(c, i) = c[i].to
    BY <1>3 DEF EndOf
  <2>3. \A i \in 1..n : EndOf(c, i) <= EndOf(c, n)
    BY <1>1, <1>2, <2>1 DEF Linked
  <2> QED
    BY <1>1, <1>2, <1>3, <2>1, <2>2, <2>3 DEF Linked
<1>5. ASSUME NEW r \in receipts
      PROVE  /\ r.to = r.from + Len(r.batch.muts) - 1
             /\ r.to <= Len(journal)
             /\ \A x \in 1..Len(r.batch.muts) :
                  journal[r.from + x - 1] = Archive!JournalRows(r.batch)[x]
  <2>1. PICK i \in 1..n : r = ReceiptAt(c, i)
    BY <1>2
  <2>2. r.from = c[i].from /\ r.to = c[i].to /\ r.batch = c[i].batch
    BY <2>1 DEF ReceiptAt
  <2>3. PICK e, m : e = EndOf(c, i - 1) /\ m = Len(c[i].batch.muts)
    OBVIOUS
  <2>4. e \in Nat /\ m \in Nat /\ r.from = e + 1 /\ r.to = e + m
    BY <1>3, <1>4, <2>2, <2>3
  <2>5. r.to <= Len(journal)
    BY <1>1, <1>2, <1>4, <2>2 DEF Filled
  <2>6. ASSUME NEW x \in 1..m PROVE journal[r.from + x - 1] = Archive!JournalRows(r.batch)[x]
    <3>1. journal[e + x] = Archive!JournalRows(c[i].batch)[x]
      BY <1>1, <1>2, <2>3 DEF Filled
    <3>2. r.from + x - 1 = e + x
      BY <2>4
    <3> QED
      BY <2>2, <3>1, <3>2
  <2>7. Len(r.batch.muts) = m
    BY <2>2, <2>3
  <2>8. r.to = r.from + m - 1
    BY <2>4
  <2> QED
    BY <2>5, <2>6, <2>7, <2>8
<1>6. ASSUME NEW x \in 1..Len(journal) PROVE \E r \in receipts : r.from <= x /\ x <= r.to
  <2>1. PICK i \in 1..n : c[i].from <= x /\ x <= c[i].to
    BY <1>1, <1>2 DEF Filled
  <2>2. ReceiptAt(c, i) \in receipts
    BY <1>2
  <2>3. ReceiptAt(c, i).from = c[i].from /\ ReceiptAt(c, i).to = c[i].to
    BY DEF ReceiptAt
  <2> QED
    BY <2>1, <2>2, <2>3
<1>7. ASSUME NEW i \in 1..n, NEW x \in 1..n, i < x PROVE c[i].to < c[x].from
  <2>1. i <= x - 1 /\ x - 1 \in 0..n /\ i \in 0..n
    BY <1>3, <1>7
  <2>2. EndOf(c, i) <= EndOf(c, x - 1)
    BY <1>1, <1>2, <2>1 DEF Linked
  <2>3. PICK y : y = EndOf(c, x - 1)
    OBVIOUS
  <2>4. c[i].to <= y /\ c[x].from = y + 1 /\ y \in Nat /\ c[i].to \in Nat
    BY <1>3, <1>4, <2>2, <2>3
  <2> QED
    BY <2>4
<1>8. ASSUME NEW r \in receipts, NEW q \in receipts, r.from <= q.to, q.from <= r.to
      PROVE  r = q
  <2>1. PICK i \in 1..n, x \in 1..n : r = ReceiptAt(c, i) /\ q = ReceiptAt(c, x)
    BY <1>2
  <2>2. r.from = c[i].from /\ r.to = c[i].to /\ q.from = c[x].from /\ q.to = c[x].to
    BY <2>1 DEF ReceiptAt
  <2>3. ASSUME c[i].to < c[x].from PROVE FALSE
    BY <1>3, <1>8, <2>2, <2>3
  <2>4. ASSUME c[x].to < c[i].from PROVE FALSE
    BY <1>3, <1>8, <2>2, <2>4
  <2>5. ~ i < x /\ ~ x < i
    BY <1>7, <2>3, <2>4
  <2> QED
    BY <1>3, <2>1, <2>5
<1> QED
  BY <1>5, <1>6, <1>8 DEF Archive!ReceiptsProveJournal, Archive!Rows

\* verify_archive accepts an exact database.
LEMMA ExactVerified ==
  ASSUME Exact(Active)
  PROVE  Verified(Active)
<1>1. PICK c, n : c = head.chain /\ n = Len(c)
  OBVIOUS
<1>2. /\ Linked(c) /\ receipts = {ReceiptAt(c, i) : i \in 1..n} /\ Filled(journal, c)
      /\ checkpoints = {BoundaryAt(c, i) : i \in 0..n} /\ head = BoundaryAt(c, n)
      /\ head.seq = EndOf(c, n)
  BY <1>1, ExactChain DEF BoundaryAt
<1>3. /\ n \in Nat /\ c \in Seq(Link) /\ \A i \in 0..n : EndOf(c, i) \in Nat
      /\ \A i \in 1..n : /\ c[i] = [batch |-> c[i].batch, from |-> c[i].from, to |-> c[i].to]
                         /\ c[i] \in Link
  BY <1>1, <1>2, LinkFacts
<1>4. Len(journal) = head.seq /\ head \in checkpoints
  <2>1. n \in 0..n
    BY <1>3
  <2> QED
    BY <1>1, <1>2, <2>1 DEF Filled
<1>5. ASSUME NEW p \in checkpoints PROVE p.seq <= head.seq
  <2>1. PICK i \in 0..n : p = BoundaryAt(c, i)
    BY <1>2
  <2>2. p.seq = EndOf(c, i)
    BY <2>1 DEF BoundaryAt
  <2>3. n \in 0..n /\ i <= n
    BY <1>3
  <2>4. EndOf(c, i) <= EndOf(c, n)
    BY <1>1, <1>2, <2>3 DEF Linked
  <2> QED
    BY <1>2, <2>2, <2>4
<1>6. ASSUME NEW i \in 1..n
      PROVE  LET r == ReceiptAt(c, i)
             IN  /\ r.batch = c[i].batch /\ r.from = c[i].from /\ r.to = c[i].to
                 /\ r.prior = SubSeq(c, 1, i - 1) /\ r.chain = SubSeq(c, 1, i)
                 /\ r \in receipts
  BY <1>2 DEF ReceiptAt
<1>7. ASSUME NEW r \in receipts
      PROVE  /\ r.chain = Archive!Chain(r.prior, r.batch, r.from, r.to)
             /\ \/ r.from = 1 /\ r.prior = <<>>
                \/ \E q \in receipts : q.to = r.from - 1 /\ q.chain = r.prior
  <2>1. PICK i \in 1..n : r = ReceiptAt(c, i)
    BY <1>2
  <2>2. /\ r.batch = c[i].batch /\ r.from = c[i].from /\ r.to = c[i].to
        /\ r.prior = SubSeq(c, 1, i - 1) /\ r.chain = SubSeq(c, 1, i)
    BY <1>6, <2>1
  <2>3. SubSeq(c, 1, i) = Append(SubSeq(c, 1, i - 1), c[i])
    <3>1. PICK a, b : a = SubSeq(c, 1, i - 1) /\ b = SubSeq(c, 1, i)
      OBVIOUS
    <3>2. /\ \A x \in 1..i : c[x] \in Link
          /\ \A x \in 1..(i - 1) : c[x] \in Link
          /\ i \in Nat /\ i - 1 \in Nat
      <4>1. /\ \A x \in 1..i : x \in 1..n
            /\ \A x \in 1..(i - 1) : x \in 1..n
            /\ i \in Nat /\ i - 1 \in Nat
        BY <1>3
      <4> QED
        BY <1>3, <4>1
    <3>3. b \in Seq(Link) /\ Len(b) = i /\ \A x \in 1..i : b[x] = c[x]
      BY <3>1, <3>2, SubSeqProperties
    <3>4. a \in Seq(Link) /\ Len(a) = i - 1 /\ \A x \in 1..(i - 1) : a[x] = c[x]
      BY <3>1, <3>2, SubSeqProperties
    <3>5. /\ Append(a, c[i]) \in Seq(Link) /\ Len(Append(a, c[i])) = i
          /\ \A x \in 1..(i - 1) : Append(a, c[i])[x] = a[x]
          /\ Append(a, c[i])[i] = c[i]
      <4>1. c[i] \in Link /\ Len(a) + 1 = i
        BY <1>3, <3>2, <3>4
      <4> QED
        BY <3>4, <4>1, AppendProperties
    <3>6. \A x \in 1..i : b[x] = Append(a, c[i])[x]
      <4>1. \A x \in 1..i : x \in 1..(i - 1) \/ x = i
        BY <3>2
      <4>2. i \in 1..i
        BY <3>2
      <4> QED
        BY <3>3, <3>4, <3>5, <4>1, <4>2
    <3>7. b = Append(a, c[i])
      BY <3>3, <3>5, <3>6, SeqEqual
    <3> QED
      BY <3>1, <3>7
  <2>4. r.chain = Archive!Chain(r.prior, r.batch, r.from, r.to)
    BY <1>3, <2>2, <2>3 DEF Archive!Chain
  <2>5. r.from = EndOf(c, i - 1) + 1
    BY <1>1, <1>2, <2>2 DEF Linked
  <2>6. CASE i = 1
    <3>1. EndOf(c, 0) = 0 /\ SubSeq(c, 1, 0) = <<>>
      BY SubSeqEmpty DEF EndOf
    <3> QED
      BY <2>2, <2>4, <2>5, <2>6, <3>1
  <2>7. CASE i # 1
    <3>1. i - 1 \in 1..n /\ i - 1 # 0
      BY <1>3, <2>7
    <3>2. PICK x \in 1..n : x = i - 1
      BY <3>1
    <3>3. /\ ReceiptAt(c, x).to = c[x].to /\ ReceiptAt(c, x).chain = SubSeq(c, 1, x)
          /\ ReceiptAt(c, x) \in receipts
      BY <1>6
    <3>4. c[x].to = EndOf(c, i - 1) /\ EndOf(c, i - 1) \in Nat
      <4>1. x \in 0..n /\ x # 0
        BY <1>3, <3>1, <3>2
      <4> QED
        BY <1>3, <3>2, <4>1 DEF EndOf
    <3>5. r.from - 1 = EndOf(c, i - 1)
      BY <2>5, <3>4
    <3> QED
      BY <2>2, <2>4, <3>2, <3>3, <3>4, <3>5
  <2> QED
    BY <2>6, <2>7
<1>8. \/ head.seq = 0 /\ receipts = {} /\ head.chain = <<>>
      \/ \E r \in receipts : r.to = head.seq /\ r.chain = head.chain
  <2>1. CASE n = 0
    BY <1>1, <1>2, <1>3, <2>1, EmptySeq DEF EndOf
  <2>2. CASE n # 0
    <3>1. n \in 1..n
      BY <1>3, <2>2
    <3>2. /\ ReceiptAt(c, n).to = c[n].to /\ ReceiptAt(c, n).chain = SubSeq(c, 1, n)
          /\ ReceiptAt(c, n) \in receipts
      BY <1>6, <3>1
    <3>3. SubSeq(c, 1, n) = c
      BY <1>1, <1>3, SubSeqFull
    <3>4. head.seq = c[n].to
      BY <1>2, <2>2 DEF EndOf
    <3> QED
      BY <1>1, <3>2, <3>3, <3>4
  <2> QED
    BY <2>1, <2>2
<1> QED
  BY <1>4, <1>5, <1>7, <1>8, ActiveIs DEF Verified, ActiveFields

\* What the run checks of the history follows from the invariant.
LEMMA ExactHistory ==
  ASSUME IInv
  PROVE  HistoryStaysExact
<1>1. ActiveFields
  BY ActiveIs
<1>2. ASSUME namespace
      PROVE  /\ Archive!MutationsJournaledOnce /\ Archive!ClientSequenceContiguous
             /\ Archive!ReceiptsProveJournal /\ Verified(Active)
  <2>1. Exact(Active)
    BY <1>1, <1>2 DEF IInv, Proper, Unpaired, ActiveFields
  <2>2. Archive!MutationsJournaledOnce
    BY <2>1, ExactChain DEF Filled, Archive!MutationsJournaledOnce, Archive!Rows
  <2>3. InStreams(Active)
    BY <2>1 DEF Exact
  <2>4. Archive!ClientSequenceContiguous
    BY <1>1, <2>3 DEF InStreams, ActiveFields, Senders, Archive!ClientSequenceContiguous,
                      Archive!Rows
  <2> QED
    BY <2>1, <2>2, <2>4, ExactReceipts, ExactVerified
<1>3. ASSUME pc = "idle", ~ interrupted PROVE Archive!StateIsJournalReplayed
  <2>1. Replayed(Active) /\ Proper(Active)
    BY <1>3 DEF IInv, CatchesUp
  <2>2. ASSUME NEW k \in Keys, stateRecords[k] # NoRecord
        PROVE  /\ stateRecords[k].seq \in 1..Len(journal)
               /\ journal[stateRecords[k].seq].key = k
               /\ journal[stateRecords[k].seq].kind = stateRecords[k].kind
    <3>1. Exact(Active)
      BY <2>1, <2>2, RecordFacts
    <3>2. Points(stateRecords, journal)
      BY <1>1, <3>1 DEF Exact, ActiveFields
    <3> QED
      BY <2>2, <3>2 DEF Points
  <2>3. \A k \in Keys : IsCurrent(k, stateRecords, journal)
    BY <1>1, <2>1 DEF Replayed, ActiveFields
  <2> QED
    BY <2>2, <2>3 DEF Archive!StateIsJournalReplayed, Archive!Rows, IsCurrent
<1> QED
  BY <1>2, <1>3 DEF HistoryStaysExact
-----------------------------------------------------------------------------
\* What a step keeps that takes nothing back.
Keeps ==
  /\ identity' = identity
  /\ head.seq <= head'.seq
  /\ receipts \subseteq receipts'
  /\ checkpoints \subseteq checkpoints'
  /\ \A c \in Senders : lastSeq[c] <= lastSeq'[c]

\* The head's sequence and the streams' last sequences are numbers.
LEMMA ProperTypes ==
  ASSUME Proper(Active)
  PROVE  head.seq \in Nat /\ lastSeq \in [Senders -> Nat]
<1>1. ActiveFields
  BY ActiveIs
<1>2. CASE Exact(Active)
  <2>1. InStreams(Active)
    BY <1>2 DEF Exact
  <2>2. Linked(head.chain) /\ head.seq = EndOf(head.chain, Len(head.chain))
    BY <1>2, ExactChain DEF BoundaryAt
  <2>3. Len(head.chain) \in 0..Len(head.chain)
    BY <2>2, LinkFacts
  <2>4. head.seq \in Nat
    BY <2>2, <2>3, LinkFacts
  <2> QED
    BY <1>1, <2>1, <2>4 DEF InStreams, ActiveFields
<1>3. CASE Unpaired(Active)
  BY <1>1, <1>3 DEF Unpaired, ActiveFields
<1> QED
  BY <1>2, <1>3 DEF Proper

\* A step that touches neither head, receipts nor streams keeps what was acknowledged.
LEMMA SameKeeps ==
  ASSUME Proper(Active), UNCHANGED <<lastSeq, receipts, head, identity>>,
         checkpoints \subseteq checkpoints'
  PROVE  Keeps
  BY ProperTypes DEF Keeps

\* A commit keeps what was acknowledged.
LEMMA CommitsKeep ==
  ASSUME Proper(Active), NEW b \in SentBatches, NEW cp, Archive!Commit(b, cp),
         UNCHANGED <<namespace, audit, identity>>
  PROVE  Keeps
<1>1. head.seq \in Nat /\ lastSeq \in [Senders -> Nat]
  BY ProperTypes
<1>2. /\ head' = Archive!HeadAfter(b) /\ b.from = lastSeq[b.client] + 1
      /\ lastSeq' = [lastSeq EXCEPT ![b.client] = Archive!To(b)]
      /\ receipts' = receipts \union {Archive!ReceiptFor(b)}
      /\ checkpoints' = checkpoints \union {Archive!HeadAfter(b)}
  BY DEF Archive!Commit, Archive!NextInSequence
<1>3. b.client \in Senders /\ Len(b.muts) \in Nat
  BY BatchFacts
<1>4. head'.seq = head.seq + Len(b.muts)
  BY <1>2 DEF Archive!HeadAfter, Archive!ArchiveTo
<1>5. ASSUME NEW c \in Senders PROVE lastSeq[c] <= lastSeq'[c]
  <2>1. CASE c = b.client
    <3>1. lastSeq'[c] = lastSeq[c] + 1 + Len(b.muts) - 1
      BY <1>1, <1>2, <2>1 DEF Archive!To
    <3> QED
      BY <1>1, <1>3, <3>1
  <2>2. CASE c # b.client
    BY <1>1, <1>2, <2>2
  <2> QED
    BY <2>1, <2>2
<1> QED
  BY <1>1, <1>2, <1>3, <1>4, <1>5 DEF Keeps

\* So does every step but a destruction, a lost switch and a restore that failed.
LEMMA StepKeeps ==
  ASSUME IInv, OwnPast, [Next]_vars, ~ Destroy, ~ CrashInSwitch, ~ RestoreFails
  PROVE  Keeps
<1>1. Proper(Active) /\ ActiveFields
  BY ActiveIs DEF IInv
<1>2. ASSUME UNCHANGED <<archiveVars, identity>> PROVE Keeps
  BY <1>1, <1>2, SameKeeps DEF archiveVars
<1>3. CASE AdmitNamespace
  <2>1. PICK d : d = Admitted(Active)
    OBVIOUS
  <2>2. ActiveBecomes(d) /\ ~ namespace /\ identity' = identity
    BY <1>3, <2>1 DEF AdmitNamespace
  <2>3. Unpaired(Active)
    BY <1>1, <2>2 DEF Proper, Exact, ActiveFields
  <2>4. d.lastSeq = lastSeq /\ d.receipts = receipts /\ d.head = head
    BY <1>1, <2>1 DEF Admitted, ActiveFields, Fields
  <2>5. checkpoints = {}
    BY <1>1, <2>3 DEF Unpaired, ActiveFields
  <2> QED
    BY <1>1, <2>2, <2>4, <2>5, SameKeeps DEF ActiveBecomes
<1>4. CASE \E c \in Streams : AdmitClient(c)
  BY <1>1, <1>4, SameKeeps DEF AdmitClient, Archive!AdmitClient
<1>5. CASE \E b \in Batches : ClientCommit(b)
  <2>1. PICK b \in Batches : ClientCommit(b)
    BY <1>5
  <2>2. b \in SentBatches
    BY DEF SentBatches
  <2> QED
    BY <1>1, <2>1, <2>2, CommitsKeep DEF ClientCommit
<1>6. CASE BeginAppend
  BY <1>1, <1>6, SameKeeps DEF BeginAppend, Archive!AdmitClient
<1>7. CASE CommitRestoreBatch
  <2>1. Due /\ Archive!Commit(DueBatch, agent.known) /\ UNCHANGED <<namespace, audit, identity>>
    BY <1>7 DEF CommitRestoreBatch
  <2>2. AgentSound
    BY <2>1 DEF Due, IInv
  <2>3. DueBatch \in SentBatches
    BY <2>1, <2>2, DueBatchFacts DEF SentBatches
  <2> QED
    BY <1>1, <2>1, <2>3, CommitsKeep
<1>8. CASE Switch
  <2>1. PICK t : t = agent.snap.db
    OBVIOUS
  <2>2. /\ pc = "staged" /\ CanSwitch /\ namespace /\ ActiveBecomes(Merged(t))
        /\ identity' = identity
    BY <1>8, <2>1 DEF Switch, CanSwitch
  <2>3. Exact(Active)
    BY <1>1, <2>2 DEF Proper, Unpaired, ActiveFields
  <2>4. Exact(t) /\ t.head \in checkpoints
    BY <2>1, <2>2 DEF IInv, AgentSound, Image, OwnPast
  <2>5. MergesInto(t, Merged(t))
    BY <2>3, <2>4, MergeIs
  <2>6. UNCHANGED <<lastSeq, receipts, head, identity, checkpoints>>
    BY <2>2, <2>5 DEF MergesInto, ActiveBecomes
  <2> QED
    BY <1>1, <2>6, SameKeeps
<1>9. CASE BeginSnapshot
  BY <1>2, <1>9 DEF BeginSnapshot, activeVars
<1>10. CASE PublishSnapshot
  BY <1>2, <1>10 DEF PublishSnapshot, activeVars
<1>11. CASE AbandonSnapshot
  BY <1>2, <1>11 DEF AbandonSnapshot, activeVars
<1>12. CASE \E kept \in SUBSET Ids : Rotate(kept)
  BY <1>2, <1>12 DEF Rotate, activeVars
<1>13. CASE \E s \in snapshots, e \in Epochs \ begun : StageRestore(s, e)
  BY <1>2, <1>13 DEF StageRestore, activeVars
<1>14. CASE RefuseRestore
  BY <1>2, <1>14 DEF RefuseRestore, activeVars
<1>15. CASE ReadSnapshotPage
  BY <1>2, <1>15 DEF ReadSnapshotPage, activeVars
<1>16. CASE ReadRetainedPage
  BY <1>2, <1>16 DEF ReadRetainedPage, activeVars
<1>17. CASE FinishRestore
  BY <1>2, <1>17 DEF FinishRestore
<1>18. CASE Preflight
  BY <1>2, <1>18 DEF Preflight, activeVars
<1>19. CASE \E ch \in challenges, passes \in BOOLEAN : Confirm(ch, passes)
  BY <1>2, <1>19 DEF Confirm, activeVars
<1>20. CASE Crash
  BY <1>2, <1>20 DEF Crash, activeVars
<1>21. CASE UNCHANGED vars
  BY <1>2, <1>21 DEF vars, activeVars
<1> QED
  BY <1>3, <1>4, <1>5, <1>6, <1>7, <1>8, <1>9, <1>10, <1>11, <1>12, <1>13, <1>14,
     <1>15, <1>16, <1>17, <1>18, <1>19, <1>20, <1>21 DEF Next

-----------------------------------------------------------------------------
\* Every snapshot that can be restored is of the archive's own past.
Taken == snapshots \union (IF writing = NoImage THEN {} ELSE {writing})
                   \union (IF pc = "idle" THEN {} ELSE {agent.snap})

HeadsKept ==
  /\ identity \in Nat
  /\ \A i \in Taken : /\ i.archive \in Nat /\ i.archive <= identity
                      /\ Restorable(i) => namespace /\ i.db.head \in checkpoints
  /\ pc = "staged" => Restorable(agent.snap)

\* No archive is destroyed, and a restore is rolled back only while nothing was
\* committed since its switch.
NothingForgotten ==
  ~ Destroy /\ (RestoreFails => checkpoints \subseteq checkpoints')

\* Where every snapshot of this identity ends at a checkpoint, so does the one to switch to.
LEMMA HeadsAreOwn == HeadsKept => OwnPast
  BY DEF HeadsKept, OwnPast, Taken, CanSwitch

\* A step that takes no new snapshot and no checkpoint away keeps that so.
LEMMA TakenStays ==
  ASSUME HeadsKept, identity' = identity, Taken' \subseteq Taken,
         namespace => checkpoints \subseteq checkpoints' /\ namespace',
         pc' = "staged" => Restorable(agent.snap) /\ agent'.snap = agent.snap
  PROVE  HeadsKept'
  BY DEF HeadsKept, Restorable

\* So does every step by which nothing is forgotten.
LEMMA HeadsStay ==
  ASSUME IInv, HeadsKept, NothingForgotten, [Next]_vars
  PROVE  HeadsKept'
<1>1. OwnPast /\ Proper(Active) /\ ActiveFields /\ ~ Destroy
  BY HeadsAreOwn, ActiveIs DEF IInv, NothingForgotten
<1>2. CASE CrashInSwitch
  <2>1. /\ identity' = identity + 1 /\ snapshots' = snapshots /\ writing' = NoImage
        /\ pc' = "idle"
    BY <1>2 DEF CrashInSwitch, Dies
  <2>2. Taken' \subseteq Taken
    BY <2>1 DEF Taken
  <2> QED
    BY <2>1, <2>2 DEF HeadsKept, Restorable
<1>3. CASE RestoreFails
  <2>1. /\ Restoring /\ ActiveBecomes(agent.retained) /\ pc' = "idle"
        /\ snapshots' = snapshots /\ writing' = writing /\ identity' = identity
        /\ checkpoints \subseteq checkpoints'
    BY <1>3 DEF RestoreFails, snapshotVars, NothingForgotten
  <2>2. namespace'
    BY <2>1 DEF IInv, AgentSound, Restoring, Exact, ActiveBecomes
  <2>3. Taken' \subseteq Taken
    BY <2>1 DEF Taken
  <2> QED
    BY <2>1, <2>2, <2>3, TakenStays
<1>4. ASSUME ~ CrashInSwitch, ~ RestoreFails PROVE checkpoints \subseteq checkpoints' /\ identity' = identity
  BY <1>1, <1>4, StepKeeps DEF Keeps
<1>5. CASE BeginSnapshot
  <2>1. /\ namespace /\ writing' = [id |-> created + 1, archive |-> identity, db |-> Active]
        /\ snapshots' = snapshots /\ writing = NoImage
        /\ UNCHANGED <<activeVars, restoreVars>>
    BY <1>5 DEF BeginSnapshot
  <2>2. /\ identity' = identity /\ namespace' = namespace /\ checkpoints' = checkpoints
        /\ pc' = pc /\ agent' = agent
    BY <2>1 DEF activeVars, archiveVars, restoreVars
  <2>3. Active.head \in checkpoints
    <3>1. Exact(Active)
      BY <1>1, <2>1 DEF Proper, Unpaired, ActiveFields
    <3>2. Len(head.chain) \in 0..Len(head.chain)
      BY <3>1, ExactChain, LinkFacts
    <3> QED
      BY <1>1, <3>1, <3>2, ExactChain DEF ActiveFields
  <2>4. /\ writing'.archive = identity /\ writing'.db = Active
    BY <2>1
  <2>5. Taken' \subseteq Taken \union {writing'}
    BY <2>1, <2>2 DEF Taken
  <2> QED
    BY <2>1, <2>2, <2>3, <2>4, <2>5 DEF HeadsKept, Restorable
<1>6. CASE \E s \in snapshots, e \in Epochs \ begun : StageRestore(s, e)
  <2>1. PICK s \in snapshots, e \in Epochs \ begun : StageRestore(s, e)
    BY <1>6
  <2>2. /\ Restorable(s) /\ agent'.snap = s /\ pc' = "staged"
        /\ snapshots' = snapshots /\ writing' = writing
        /\ UNCHANGED activeVars
    BY <2>1 DEF StageRestore, snapshotVars
  <2>3. identity' = identity /\ namespace' = namespace /\ checkpoints' = checkpoints
    BY <2>2 DEF activeVars, archiveVars
  <2>4. Taken' \subseteq Taken
    BY <2>2 DEF Taken
  <2> QED
    BY <2>2, <2>3, <2>4 DEF HeadsKept, Restorable
<1>7. ASSUME [Next]_vars, ~ CrashInSwitch, ~ RestoreFails, ~ BeginSnapshot,
             ~ \E s \in snapshots, e \in Epochs \ begun : StageRestore(s, e)
      PROVE  /\ Taken' \subseteq Taken /\ (namespace => namespace')
             /\ pc' = "staged" => pc = "staged" /\ agent'.snap = agent.snap
  <2>1. ASSUME UNCHANGED <<snapshotVars, restoreVars, namespace>>
        PROVE  /\ Taken' \subseteq Taken /\ (namespace => namespace')
               /\ pc' = "staged" => pc = "staged" /\ agent'.snap = agent.snap
    BY <2>1 DEF Taken, snapshotVars, restoreVars
  <2>2. ASSUME UNCHANGED <<snapshotVars, namespace>>, pc # "idle", agent'.snap = agent.snap, pc' # "staged"
        PROVE  /\ Taken' \subseteq Taken /\ (namespace => namespace')
               /\ pc' = "staged" => pc = "staged" /\ agent'.snap = agent.snap
    BY <2>2 DEF Taken, snapshotVars
  <2>3. ASSUME UNCHANGED <<snapshots, namespace>>, writing' = writing \/ writing' = NoImage, pc' = "idle"
        PROVE  /\ Taken' \subseteq Taken /\ (namespace => namespace')
               /\ pc' = "staged" => pc = "staged" /\ agent'.snap = agent.snap
    BY <2>3 DEF Taken
  <2>4. ASSUME UNCHANGED <<restoreVars, namespace>>, snapshots' \subseteq snapshots,
               writing' = writing \/ writing' = NoImage
        PROVE  /\ Taken' \subseteq Taken /\ (namespace => namespace')
               /\ pc' = "staged" => pc = "staged" /\ agent'.snap = agent.snap
    BY <2>4 DEF Taken, restoreVars
  <2>5. pc # "idle" => DOMAIN agent = AgentFields
    BY DEF IInv, AgentSound
  <2>6. CASE AdmitNamespace
    BY <2>6 DEF AdmitNamespace, Taken, snapshotVars, restoreVars
  <2>7. CASE \E c \in Streams : AdmitClient(c)
    BY <2>1, <2>7 DEF AdmitClient
  <2>8. CASE \E b \in Batches : ClientCommit(b)
    BY <2>1, <2>8 DEF ClientCommit
  <2>9. CASE PublishSnapshot
    BY <2>9 DEF PublishSnapshot, activeVars, restoreVars, Taken
  <2>10. CASE AbandonSnapshot
    BY <2>4, <2>10 DEF AbandonSnapshot, activeVars
  <2>11. CASE \E kept \in SUBSET Ids : Rotate(kept)
    BY <2>4, <2>11 DEF Rotate, activeVars
  <2>12. CASE RefuseRestore
    BY <2>3, <2>12 DEF RefuseRestore, activeVars, snapshotVars
  <2>13. CASE Switch
    <3>1. agent' = [agent EXCEPT !.retained = Active] /\ pc = "staged" /\ pc' = "switched"
          /\ UNCHANGED snapshotVars /\ ActiveBecomes(Merged(agent.snap.db)) /\ namespace
      BY <2>13 DEF Switch, CanSwitch
    <3>2. agent'.snap = agent.snap
      BY <2>5, <3>1 DEF AgentFields
    <3>3. namespace'
      <4>1. Exact(Active) /\ Exact(agent.snap.db) /\ agent.snap.db.head \in checkpoints
        BY <1>1, <2>13, <3>1 DEF Proper, Unpaired, ActiveFields, IInv, AgentSound, Image, OwnPast, Switch
      <4>2. Merged(agent.snap.db).namespace = TRUE
        BY <4>1, MergeIs DEF MergesInto
      <4> QED
        BY <3>1, <4>2 DEF ActiveBecomes
    <3> QED
      BY <3>1, <3>2, <3>3 DEF Taken, snapshotVars
  <2>14. CASE BeginAppend
    <3>1. agent' = [agent EXCEPT !.known = head] /\ pc = "switched" /\ pc' = "append"
          /\ UNCHANGED <<snapshotVars, namespace>>
      BY <2>14 DEF BeginAppend
    <3>2. agent'.snap = agent.snap
      BY <2>5, <3>1 DEF AgentFields
    <3> QED
      BY <2>2, <3>1, <3>2
  <2>15. CASE ReadSnapshotPage
    <3>1. /\ pc = "append" /\ pc' = "append" /\ UNCHANGED <<snapshotVars, namespace>>
          /\ \/ agent' = [agent EXCEPT !.source = "current", !.cursor = 0]
             \/ \E p, m : agent' = [agent EXCEPT !.queue = @ \o m, !.cursor = Rank[p[Len(p)]]]
      BY <2>15 DEF ReadSnapshotPage, activeVars, Queued
    <3>2. agent'.snap = agent.snap
      BY <2>5, <3>1 DEF AgentFields
    <3> QED
      BY <2>2, <3>1, <3>2
  <2>16. CASE ReadRetainedPage
    <3>1. /\ pc = "append" /\ pc' = "append" /\ UNCHANGED <<snapshotVars, namespace>>
          /\ \/ agent' = [agent EXCEPT !.source = "done"]
             \/ \E p, m : agent' = [agent EXCEPT !.queue = @ \o m, !.cursor = Rank[p[Len(p)]]]
      BY <2>16 DEF ReadRetainedPage, activeVars, Queued
    <3>2. agent'.snap = agent.snap
      BY <2>5, <3>1 DEF AgentFields
    <3> QED
      BY <2>2, <3>1, <3>2
  <2>17. CASE CommitRestoreBatch
    <3>1. /\ pc = "append" /\ pc' = "append" /\ UNCHANGED <<snapshotVars, namespace>>
          /\ \E n : agent' = [agent EXCEPT !.queue = SubSeq(@, n + 1, Len(@)), !.next = @ + n,
                                           !.known = head']
      BY <2>17 DEF CommitRestoreBatch, Due
    <3>2. agent'.snap = agent.snap
      BY <2>5, <3>1 DEF AgentFields
    <3> QED
      BY <2>2, <3>1, <3>2
  <2>18. CASE FinishRestore
    BY <2>3, <2>18 DEF FinishRestore, snapshotVars
  <2>19. CASE Preflight
    BY <2>1, <2>19 DEF Preflight, activeVars
  <2>20. CASE \E ch \in challenges, passes \in BOOLEAN : Confirm(ch, passes)
    BY <2>1, <2>20 DEF Confirm, activeVars
  <2>21. CASE Crash
    BY <2>3, <2>21 DEF Crash, Dies, activeVars
  <2>22. CASE UNCHANGED vars
    BY <2>1, <2>22 DEF vars, activeVars
  <2> QED
    BY <1>1, <1>7, <2>6, <2>7, <2>8, <2>9, <2>10, <2>11, <2>12, <2>13, <2>14, <2>15, <2>16,
       <2>17, <2>18, <2>19, <2>20, <2>21, <2>22 DEF Next
<1>8. CASE /\ ~ CrashInSwitch /\ ~ RestoreFails /\ ~ BeginSnapshot
           /\ ~ \E s \in snapshots, e \in Epochs \ begun : StageRestore(s, e)
  <2>1. /\ Taken' \subseteq Taken /\ (namespace => namespace')
        /\ pc' = "staged" => pc = "staged" /\ agent'.snap = agent.snap
    BY <1>7, <1>8
  <2>2. checkpoints \subseteq checkpoints' /\ identity' = identity
    BY <1>4, <1>8
  <2> QED
    BY <2>1, <2>2, TakenStays DEF HeadsKept
<1> QED
  BY <1>2, <1>3, <1>5, <1>6, <1>8
-----------------------------------------------------------------------------
\* The inductive invariant, under the one condition the switch does not check.
LEMMA Invariance == Spec /\ []OwnPast => []IInv
<1>1. Init => IInv
  BY Initially
<1>2. IInv /\ OwnPast /\ [Next]_vars => IInv'
  BY Inductive
<1> QED
  BY <1>1, <1>2, PTL DEF Spec

\* Under it the history stays exact through snapshots, merges, roll-backs and
\* crashes, and the state of an archive no restore was interrupted in is its journal
\* replayed (_copy_future_history, _verify_journal).
THEOREM HistoryExact == Spec /\ []OwnPast => []HistoryStaysExact
<1>1. IInv => HistoryStaysExact
  BY ExactHistory
<1> QED
  BY <1>1, Invariance, PTL

\* Under it a restore that reports success shows what the snapshot showed of every key
\* that no client wrote meanwhile (restore, _append_restore_batches).
THEOREM RestoreRewinds == Spec /\ []OwnPast => RestoredShowsSnapshot
<1>1. ASSUME IInv, pc = "append", UNCHANGED <<journal, stateRecords>>
      PROVE  \A k \in Keys \ touched : Shown(Active', k) = Shown(agent.snap.db, k)
  <2>1. \A k \in Keys \ touched : Shown(Active, k) = Shown(agent.snap.db, k)
    BY <1>1 DEF IInv, Rewinds, Restoring
  <2>2. \A k \in Keys : Shown(Active', k) = Shown(Active, k)
    BY <1>1 DEF Shown, Active
  <2> QED
    BY <2>1, <2>2
<1>2. IInv =>
        [/\ pc = "append" /\ pc' = "idle" /\ agent.snap.id \in audit'
         /\ UNCHANGED <<journal, stateRecords, crashes>>
         => \A k \in Keys \ touched : Shown(Active', k) = Shown(agent.snap.db, k)]_vars
  BY <1>1
<1> QED
  BY <1>2, Invariance, PTL DEF RestoredShowsSnapshot

\* Under it no step but a roll-back to the retained file, a destruction and a crash
\* between the renames takes back an acknowledged row, receipt, checkpoint or sequence.
THEOREM AcknowledgedKept == Spec /\ []OwnPast => RestoreKeepsAcknowledged
<1> DEFINE Kept == \/ destroying /\ ~ destroying'
                   \/ identity' # identity
                   \/ Restoring /\ pc' = "idle" /\ Active' = agent.retained
                   \/ /\ head.seq <= head'.seq
                      /\ receipts \subseteq receipts'
                      /\ checkpoints \subseteq checkpoints'
                      /\ \A c \in Streams \union Epochs : lastSeq[c] <= lastSeq'[c]
<1>1. Spec => [](identity \in Nat)
  <2>1. Init => identity \in Nat
    BY DEF Init
  <2>2. identity \in Nat /\ [Next]_vars => (identity \in Nat)'
    <3> SUFFICES ASSUME identity \in Nat, [Next]_vars PROVE identity' \in Nat
      OBVIOUS
    <3>1. identity' = identity \/ identity' = identity + 1
      BY DEF Next, vars, activeVars, AdmitNamespace, AdmitClient, ClientCommit, BeginSnapshot,
             PublishSnapshot, AbandonSnapshot, Rotate, StageRestore, RefuseRestore, Switch,
             BeginAppend, ReadSnapshotPage, ReadRetainedPage, CommitRestoreBatch,
             FinishRestore, RestoreFails, Preflight, Confirm, Destroy, Crash, CrashInSwitch
    <3> QED
      BY <3>1
  <2> QED
    BY <2>1, <2>2, PTL DEF Spec
<1>2. ASSUME IInv, OwnPast, identity \in Nat, [Next]_vars PROVE Kept
  <2>1. CASE Destroy
    BY <2>1 DEF Destroy
  <2>2. CASE CrashInSwitch
    BY <1>2, <2>2 DEF CrashInSwitch
  <2>3. CASE RestoreFails
    <3>1. Restoring /\ pc' = "idle" /\ ActiveBecomes(agent.retained)
      BY <2>3 DEF RestoreFails
    <3>2. agent.retained = [f \in Fields |-> agent.retained[f]]
      BY <1>2, <3>1 DEF IInv, AgentSound, Restoring
    <3>3. \A f \in Fields : Active'[f] = agent.retained[f]
      BY <3>1, <3>2, Becomes
    <3>4. Active' = [f \in Fields |-> Active'[f]]
      BY DEF Active, Fields
    <3>5. Active' = agent.retained
      BY <3>2, <3>3, <3>4
    <3> QED
      BY <3>1, <3>5
  <2>4. CASE ~ Destroy /\ ~ CrashInSwitch /\ ~ RestoreFails
    BY <1>2, <2>4, StepKeeps DEF Keeps, Senders
  <2> QED
    BY <2>1, <2>2, <2>3, <2>4
<1>3. IInv /\ OwnPast /\ identity \in Nat /\ [Next]_vars => [Kept]_vars
  BY <1>2
<1> QED
  BY <1>1, <1>3, Invariance, PTL DEF Spec, RestoreKeepsAcknowledged

\* The condition holds as long as no archive is destroyed and no restore that had
\* committed something is rolled back: every snapshot that verify accepts then ends at
\* a boundary the archive still has.
THEOREM PastIsOwn == Spec /\ [][NothingForgotten]_vars => []OwnPast
<1>1. Init => IInv /\ HeadsKept
  <2>1. Init => HeadsKept
    BY DEF Init, HeadsKept, Taken
  <2> QED
    BY <2>1, Initially
<1>2. IInv /\ HeadsKept /\ [Next]_vars /\ [NothingForgotten]_vars => (IInv /\ HeadsKept)'
  <2> SUFFICES ASSUME IInv, HeadsKept, [Next]_vars, [NothingForgotten]_vars
               PROVE  IInv' /\ HeadsKept'
    OBVIOUS
  <2>1. IInv'
    BY HeadsAreOwn, Inductive
  <2>2. CASE NothingForgotten
    BY <2>1, <2>2, HeadsStay
  <2>3. CASE UNCHANGED vars
    <3>1. /\ UNCHANGED <<identity, checkpoints, namespace, snapshots, writing, pc, agent>>
      BY <2>3 DEF vars, activeVars, archiveVars, snapshotVars, restoreVars
    <3>2. Taken' = Taken
      BY <3>1 DEF Taken
    <3>3. pc' = "staged" => Restorable(agent.snap) /\ agent'.snap = agent.snap
      BY <3>1 DEF HeadsKept
    <3>4. namespace => checkpoints \subseteq checkpoints' /\ namespace'
      BY <3>1
    <3>5. identity' = identity /\ Taken' \subseteq Taken
      BY <3>1, <3>2
    <3>6. HeadsKept'
      BY <3>3, <3>4, <3>5, TakenStays
    <3> QED
      BY <2>1, <3>6
  <2> QED
    BY <2>1, <2>2, <2>3
<1>3. IInv /\ HeadsKept => OwnPast
  BY HeadsAreOwn
<1> QED
  BY <1>1, <1>2, <1>3, PTL DEF Spec
=============================================================================

------------------------ MODULE CanonicalArchiveProofs ------------------------
(***************************************************************************)
(* What the canonical archive guarantees for every set of client streams,  *)
(* keys and batches.  The invariants of CanonicalArchive are inductive     *)
(* together: where a new batch lands follows from head.seq being the       *)
(* length of the journal (ChainVerifies), that its rows are in sequence    *)
(* from the bound of ClientSequenceContiguous, and that its boundary is    *)
(* new from no checkpoint being ahead of the head.                         *)
(***************************************************************************)
EXTENDS CanonicalArchive, SequenceTheorems, WellFoundedInduction, TLAPS

\* A non-empty set of positions has a last one.
LEMMA LastPosition ==
  ASSUME NEW n \in Nat, NEW T, T \subseteq 1..n, T # {}
  PROVE  \E i \in T : \A j \in T : j <= i
<1> DEFINE R == {p \in Nat \X Nat : p[1] < p[2]}
           Below == {n - i : i \in T}
<1>1. IsWellFoundedOn(R, Nat)
  BY NatLessThanWellFounded DEF OpToRel
<1>2. Below \subseteq Nat /\ Below # {}
  <2>1. \A i \in T : i \in 1..n /\ n - i \in Nat
    OBVIOUS
  <2>2. PICK i \in T : TRUE
    OBVIOUS
  <2>3. n - i \in Below
    BY <2>2
  <2> QED
    BY <2>1, <2>3
<1>3. PICK x \in Below : \A y \in Below : ~ (<<y, x>> \in R)
  BY <1>1, <1>2, WFMin
<1>4. PICK i \in T : x = n - i
  OBVIOUS
<1>5. ASSUME NEW j \in T PROVE j <= i
  <2>1. n - j \in Below /\ n - j \in Nat /\ x \in Nat
    BY <1>2
  <2>2. ~ (n - j < x)
    BY <1>3, <2>1
  <2> QED
    BY <1>4, <2>2
<1> QED
  BY <1>5

-----------------------------------------------------------------------------
LEMMA BatchFacts ==
  ASSUME NEW b \in Batches
  PROVE  /\ b.client \in Clients
         /\ b.from \in Nat \ {0}
         /\ b.muts \in Seq(Mutation)
         /\ Len(b.muts) \in Nat \ {0}
         /\ \A i \in 1..Len(b.muts) : b.muts[i] \in Mutation
         /\ \A i, j \in 1..Len(b.muts) : b.muts[i].mid = b.muts[j].mid => i = j
<1>1. WellFormed(b)
  BY BatchesAssumption
<1>2. b.muts \in Seq(Mutation) /\ Len(b.muts) >= 1
  BY <1>1 DEF WellFormed
<1>3. Len(b.muts) \in Nat /\ \A i \in 1..Len(b.muts) : b.muts[i] \in Mutation
  BY <1>2, ElementOfSeq, LenProperties
<1> QED
  BY <1>1, <1>2, <1>3 DEF WellFormed

\* LastOn picks the last mutation of the batch on a key the batch touches.
LEMMA LastOnFacts ==
  ASSUME NEW b \in Batches, NEW k, Touches(b, k)
  PROVE  /\ LastOn(b, k) \in 1..Len(b.muts)
         /\ b.muts[LastOn(b, k)].key = k
         /\ \A j \in 1..Len(b.muts) : b.muts[j].key = k => j <= LastOn(b, k)
<1> DEFINE T == {i \in 1..Len(b.muts) : b.muts[i].key = k}
<1>1. T \subseteq 1..Len(b.muts) /\ T # {} /\ Len(b.muts) \in Nat
  BY BatchFacts DEF Touches
<1>2. \E i \in T : \A j \in T : j <= i
  BY <1>1, LastPosition
<1>3. \E i \in 1..Len(b.muts) :
        /\ b.muts[i].key = k
        /\ \A j \in 1..Len(b.muts) : b.muts[j].key = k => j <= i
  BY <1>2
<1> QED
  BY <1>3 DEF LastOn

\* What the rows of a batch are.
LEMMA JournalRowsFacts ==
  ASSUME NEW b \in Batches
  PROVE  /\ JournalRows(b) \in Seq(Row)
         /\ Len(JournalRows(b)) = Len(b.muts)
         /\ \A i \in 1..Len(b.muts) :
              /\ JournalRows(b)[i].batch = b.id
              /\ JournalRows(b)[i].client = b.client
              /\ JournalRows(b)[i].cseq = b.from + i - 1
              /\ JournalRows(b)[i].mid = b.muts[i].mid
              /\ JournalRows(b)[i].key = b.muts[i].key
              /\ JournalRows(b)[i].kind = b.muts[i].kind
<1> DEFINE n == Len(b.muts)
<1>1. n \in Nat
  BY BatchFacts
<1>2. \A i \in 1..n : JournalRows(b)[i] \in Row
  BY BatchFacts DEF JournalRows, Row, Mutation
<1>3. JournalRows(b) \in [1..n -> Row]
  BY <1>2 DEF JournalRows
<1>4. JournalRows(b) \in Seq(Row)
  BY <1>1, <1>3, SeqDef
<1>5. Len(JournalRows(b)) = n
  BY <1>1, <1>3, <1>4, LenProperties
<1> QED
  BY <1>4, <1>5 DEF JournalRows

\* How the journal reads after a commit: the old rows, then those of the batch.
LEMMA JournalGrows ==
  ASSUME journal \in Seq(Row), NEW b \in Batches, journal' = journal \o JournalRows(b)
  PROVE  /\ journal' \in Seq(Row)
         /\ Len(journal) \in Nat
         /\ Len(journal') = Len(journal) + Len(b.muts)
         /\ \A i \in Rows : journal'[i] = journal[i]
         /\ \A i \in 1..Len(b.muts) : journal'[Len(journal) + i] = JournalRows(b)[i]
         /\ \A i \in Rows' : \/ i \in Rows
                             \/ \E x \in 1..Len(b.muts) : i = Len(journal) + x
         /\ \A i \in Rows : i \in Rows'
         /\ \A x \in 1..Len(b.muts) : Len(journal) + x \in Rows'
<1>1. /\ JournalRows(b) \in Seq(Row)
      /\ Len(JournalRows(b)) = Len(b.muts)
      /\ Len(b.muts) \in Nat
      /\ Len(journal) \in Nat
  BY JournalRowsFacts, BatchFacts, LenProperties
<1>2. /\ journal' \in Seq(Row)
      /\ Len(journal') = Len(journal) + Len(b.muts)
      /\ \A i \in 1..(Len(journal) + Len(b.muts)) :
           journal'[i] = IF i <= Len(journal) THEN journal[i]
                                              ELSE JournalRows(b)[i - Len(journal)]
  <2> DEFINE rows == JournalRows(b)
             both == journal \o rows
  <2> HIDE DEF rows
  <2>1. /\ both \in Seq(Row)
        /\ Len(both) = Len(journal) + Len(rows)
        /\ \A i \in 1..(Len(journal) + Len(rows)) :
             both[i] = IF i <= Len(journal) THEN journal[i] ELSE rows[i - Len(journal)]
    BY <1>1, ConcatProperties DEF rows
  <2>2. Len(rows) = Len(b.muts)
    BY <1>1 DEF rows
  <2>3. journal' = both
    BY DEF rows
  <2> HIDE DEF both
  <2> QED
    BY <2>1, <2>2, <2>3 DEF rows
<1>3. \A i \in Rows : journal'[i] = journal[i]
  BY <1>1, <1>2 DEF Rows
<1>4. ASSUME NEW i \in 1..Len(b.muts)
      PROVE  journal'[Len(journal) + i] = JournalRows(b)[i]
  <2>1. /\ Len(journal) + i \in 1..(Len(journal) + Len(b.muts))
        /\ ~ (Len(journal) + i <= Len(journal))
        /\ (Len(journal) + i) - Len(journal) = i
    BY <1>1
  <2> QED
    BY <1>2, <2>1
<1>5. ASSUME NEW i \in Rows', i \notin Rows
      PROVE  \E x \in 1..Len(b.muts) : i = Len(journal) + x
  <2>1. i - Len(journal) \in 1..Len(b.muts) /\ i = Len(journal) + (i - Len(journal))
    BY <1>1, <1>2, <1>5 DEF Rows
  <2> QED
    BY <2>1
<1>6. /\ \A i \in Rows : i \in Rows'
      /\ \A x \in 1..Len(b.muts) : Len(journal) + x \in Rows'
  BY <1>1, <1>2 DEF Rows
<1> QED
  BY <1>1, <1>2, <1>3, <1>4, <1>5, <1>6

-----------------------------------------------------------------------------
\* The conjunction the proof goes by induction on.
IInv ==
  /\ TypeOK
  /\ MutationsJournaledOnce
  /\ ClientSequenceContiguous
  /\ ReceiptsProveJournal
  /\ ChainVerifies
  /\ StateIsJournalReplayed

LEMMA InitIInv == Init => IInv
<1> SUFFICES ASSUME Init PROVE IInv
  OBVIOUS
<1>1. /\ <<>> \in ChainHash
      /\ journal = <<>> /\ journal \in Seq(Row)
      /\ Len(journal) = 0
      /\ Rows = {}
  BY EmptySeq DEF Init, Rows, ChainHash
<1>2. TypeOK
  BY <1>1 DEF Init, TypeOK, Boundary
<1>3. MutationsJournaledOnce /\ StateIsJournalReplayed
  BY <1>1 DEF Init, MutationsJournaledOnce, StateIsJournalReplayed
<1>4. ClientSequenceContiguous
  BY <1>1 DEF Init, ClientSequenceContiguous
<1>5. ReceiptsProveJournal
  BY <1>1 DEF Init, ReceiptsProveJournal
<1>6. ChainVerifies
  BY <1>1 DEF Init, ChainVerifies
<1> QED
  BY <1>2, <1>3, <1>4, <1>5, <1>6 DEF IInv

\* The receipt and the boundary of a commit.
LEMMA HeadAfterFacts ==
  ASSUME TypeOK, ChainVerifies, NEW b \in Batches
  PROVE  /\ HeadAfter(b) \in Boundary
         /\ HeadAfter(b).seq = Len(journal) + Len(b.muts)
         /\ ReceiptFor(b) \in ReceiptRow
         /\ ReceiptFor(b).batch = b
         /\ ReceiptFor(b).from = Len(journal) + 1
         /\ ReceiptFor(b).to = Len(journal) + Len(b.muts)
         /\ ReceiptFor(b).prior = head.chain
         /\ ReceiptFor(b).chain = HeadAfter(b).chain
         /\ HeadAfter(b).chain = Chain(head.chain, b, ReceiptFor(b).from, ReceiptFor(b).to)
         /\ Len(journal) \in Nat /\ Len(b.muts) \in Nat \ {0}
<1>1. /\ Len(b.muts) \in Nat \ {0}
      /\ head.seq \in Nat
      /\ head.chain \in ChainHash
      /\ head.seq = Len(journal)
  BY BatchFacts DEF TypeOK, Boundary, ChainVerifies
<1> DEFINE entry == [batch |-> b, from |-> ArchiveFrom(b), to |-> ArchiveTo(b)]
<1>2. /\ ArchiveFrom(b) \in Nat \ {0} /\ ArchiveFrom(b) = Len(journal) + 1
      /\ ArchiveTo(b) \in Nat /\ ArchiveTo(b) = Len(journal) + Len(b.muts)
  BY <1>1 DEF ArchiveFrom, ArchiveTo
<1>3. entry \in [batch : Batches, from : Nat, to : Nat]
  BY <1>2
<1>4. Append(head.chain, entry) \in ChainHash
  <2> HIDE DEF entry
  <2> QED
    BY <1>1, <1>3, AppendProperties DEF ChainHash
<1>5. Chain(head.chain, b, ArchiveFrom(b), ArchiveTo(b)) = Append(head.chain, entry)
  BY DEF Chain
<1>6. HeadAfter(b) \in Boundary /\ HeadAfter(b).chain \in ChainHash
  BY <1>2, <1>4, <1>5 DEF HeadAfter, Boundary
<1> HIDE DEF entry
<1> QED
  BY <1>1, <1>2, <1>6 DEF HeadAfter, ReceiptFor, ReceiptRow

LEMMA CommitTypeOK ==
  ASSUME IInv, NEW b \in Batches, NEW cp, Commit(b, cp)
  PROVE  TypeOK'
<1> USE DEF IInv
<1>1. /\ admitted' \subseteq Clients
      /\ retainedFrom' \in Nat \ {0}
  BY DEF Commit, TypeOK
<1>2. lastSeq' \in [Clients -> Nat]
  <2>1. To(b) \in Nat
    BY BatchFacts DEF To
  <2> QED
    BY <2>1 DEF Commit, TypeOK
<1>3. journal' \in Seq(Row)
  BY JournalGrows DEF Commit, TypeOK
<1>4. stateRecords' \in [Keys -> [kind : Kinds, seq : Nat] \union {NoRecord}]
  <2>1. \A k \in Keys : Touches(b, k) =>
          [kind |-> b.muts[LastOn(b, k)].kind, seq |-> head.seq + LastOn(b, k)]
            \in [kind : Kinds, seq : Nat]
    BY LastOnFacts, BatchFacts DEF TypeOK, Boundary, Mutation
  <2> QED
    BY <2>1 DEF Commit, TypeOK
<1>5. /\ receipts' \subseteq ReceiptRow
      /\ checkpoints' \subseteq Boundary
      /\ head' \in Boundary
  BY HeadAfterFacts DEF Commit, TypeOK
<1> QED
  BY <1>1, <1>2, <1>3, <1>4, <1>5 DEF TypeOK

LEMMA CommitMutationsJournaledOnce ==
  ASSUME IInv, NEW b \in Batches, NEW cp, Commit(b, cp)
  PROVE  MutationsJournaledOnce'
<1> SUFFICES ASSUME NEW i \in Rows', NEW j \in Rows', journal'[i].mid = journal'[j].mid
             PROVE  i = j
  BY DEF MutationsJournaledOnce
<1> DEFINE n == Len(journal)
<1>1. /\ journal \in Seq(Row) /\ journal' = journal \o JournalRows(b) /\ Fresh(b)
      /\ MutationsJournaledOnce
  BY DEF IInv, TypeOK, Commit
<1>2. /\ n \in Nat
      /\ \A x \in Rows : journal'[x] = journal[x]
      /\ \A x \in 1..Len(b.muts) : journal'[n + x] = JournalRows(b)[x]
      /\ \A x \in Rows' : x \in Rows \/ (\E y \in 1..Len(b.muts) : x = n + y)
  BY <1>1, JournalGrows
<1>3. \A x \in 1..Len(b.muts) : journal'[n + x].mid = b.muts[x].mid
  BY <1>2, JournalRowsFacts
<1>4. \A x \in Rows, y \in 1..Len(b.muts) : journal[x].mid # b.muts[y].mid
  BY <1>1 DEF Fresh, Rows
<1>5. CASE i \in Rows /\ j \in Rows
  BY <1>1, <1>2, <1>5 DEF MutationsJournaledOnce
<1>6. CASE i \in Rows /\ j \notin Rows
  BY <1>2, <1>3, <1>4, <1>6
<1>7. CASE i \notin Rows /\ j \in Rows
  BY <1>2, <1>3, <1>4, <1>7
<1>8. CASE i \notin Rows /\ j \notin Rows
  <2>1. PICK x \in 1..Len(b.muts) : i = n + x
    BY <1>2, <1>8
  <2>2. PICK y \in 1..Len(b.muts) : j = n + y
    BY <1>2, <1>8
  <2>3. b.muts[x].mid = b.muts[y].mid
    BY <1>3, <2>1, <2>2
  <2> QED
    BY <2>1, <2>2, <2>3, BatchFacts
<1> QED
  BY <1>5, <1>6, <1>7, <1>8

LEMMA CommitClientSequenceContiguous ==
  ASSUME IInv, NEW b \in Batches, NEW cp, Commit(b, cp)
  PROVE  ClientSequenceContiguous'
<1> DEFINE n == Len(journal)
           m == Len(b.muts)
<1>1. /\ journal \in Seq(Row) /\ journal' = journal \o JournalRows(b)
      /\ lastSeq \in [Clients -> Nat]
      /\ lastSeq' = [lastSeq EXCEPT ![b.client] = b.from + m - 1]
      /\ b.from = lastSeq[b.client] + 1
      /\ ClientSequenceContiguous
      /\ b.client \in Clients /\ m \in Nat \ {0} /\ b.from \in Nat
  BY BatchFacts DEF IInv, TypeOK, Commit, NextInSequence, To
<1>2. /\ n \in Nat
      /\ \A x \in Rows : journal'[x] = journal[x] /\ x \in Rows' /\ x <= n
      /\ \A x \in 1..m : journal'[n + x] = JournalRows(b)[x] /\ n + x \in Rows'
      /\ \A x \in Rows' : x \in Rows \/ (\E y \in 1..m : x = n + y)
      /\ \A x \in Rows : journal[x].cseq \in Nat
  <2>1. \A x \in Rows : journal[x] \in Row
    BY <1>1, ElementOfSeq DEF Rows
  <2>2. \A x \in Rows : x <= n
    BY DEF Rows
  <2> QED
    BY <1>1, <2>1, <2>2, JournalGrows DEF Row
<1>3. \A x \in 1..m : /\ journal'[n + x].client = b.client
                      /\ journal'[n + x].cseq = lastSeq[b.client] + x
  <2>1. \A x \in 1..m : b.from + x - 1 = lastSeq[b.client] + x
    BY <1>1
  <2>2. \A x \in 1..m : /\ JournalRows(b)[x].client = b.client
                        /\ JournalRows(b)[x].cseq = b.from + x - 1
    BY JournalRowsFacts
  <2> QED
    BY <1>2, <2>1, <2>2
<1>4. \A c \in Clients : /\ lastSeq[c] \in Nat
                         /\ lastSeq'[c] = IF c = b.client THEN lastSeq[c] + m ELSE lastSeq[c]
  <2>1. b.from + m - 1 = lastSeq[b.client] + m
    BY <1>1
  <2>2. \A c \in Clients : lastSeq'[c] = IF c = b.client THEN b.from + m - 1 ELSE lastSeq[c]
    BY <1>1
  <2> QED
    BY <1>1, <2>1, <2>2
<1> SUFFICES ASSUME NEW c \in Clients
             PROVE  /\ \A i \in Rows' : journal'[i].client = c => journal'[i].cseq <= lastSeq'[c]
                    /\ \A s \in 1..lastSeq'[c] :
                         \E i \in Rows' : journal'[i].client = c /\ journal'[i].cseq = s
                    /\ \A i, j \in Rows' : /\ journal'[i].client = c
                                           /\ journal'[j].client = c
                                           /\ i < j
                                           => journal'[i].cseq < journal'[j].cseq
  BY DEF ClientSequenceContiguous
<1>5. /\ \A i \in Rows : journal[i].client = c => journal[i].cseq <= lastSeq[c]
      /\ \A s \in 1..lastSeq[c] : \E i \in Rows : journal[i].client = c /\ journal[i].cseq = s
      /\ \A i, j \in Rows : /\ journal[i].client = c
                            /\ journal[j].client = c
                            /\ i < j
                            => journal[i].cseq < journal[j].cseq
  BY <1>1 DEF ClientSequenceContiguous
<1>6. ASSUME NEW i \in Rows', journal'[i].client = c
      PROVE  journal'[i].cseq <= lastSeq'[c]
  <2>1. CASE i \in Rows
    <3>1. journal[i].cseq <= lastSeq[c] /\ journal[i].cseq \in Nat
      BY <1>2, <1>5, <1>6, <2>1
    <3>2. lastSeq[c] <= lastSeq'[c] /\ lastSeq[c] \in Nat /\ lastSeq'[c] \in Nat
      BY <1>1, <1>4
    <3> QED
      BY <1>2, <2>1, <3>1, <3>2
  <2>2. CASE i \notin Rows
    <3>1. PICK x \in 1..m : i = n + x
      BY <1>2, <2>2
    <3>2. c = b.client /\ journal'[i].cseq = lastSeq[c] + x
      BY <1>3, <1>6, <3>1
    <3> QED
      BY <1>1, <1>4, <3>2
  <2> QED
    BY <2>1, <2>2
<1>7. ASSUME NEW s \in 1..lastSeq'[c]
      PROVE  \E i \in Rows' : journal'[i].client = c /\ journal'[i].cseq = s
  <2>1. CASE s <= lastSeq[c]
    <3>1. PICK i \in Rows : journal[i].client = c /\ journal[i].cseq = s
      BY <1>4, <1>5, <2>1
    <3> QED
      BY <1>2, <3>1
  <2>2. CASE ~ (s <= lastSeq[c])
    <3>1. c = b.client /\ s - lastSeq[c] \in 1..m
      BY <1>1, <1>4, <2>2
    <3>2. n + (s - lastSeq[c]) \in Rows'
      BY <1>2, <3>1
    <3>3. lastSeq[c] + (s - lastSeq[c]) = s
      BY <1>4, <2>2
    <3> QED
      BY <1>3, <3>1, <3>2, <3>3
  <2> QED
    BY <2>1, <2>2
<1>8. ASSUME NEW i \in Rows', NEW j \in Rows',
             journal'[i].client = c, journal'[j].client = c, i < j
      PROVE  journal'[i].cseq < journal'[j].cseq
  <2>1. CASE j \in Rows
    <3>1. i \in Rows
      BY <1>2, <1>8, <2>1 DEF Rows
    <3> QED
      BY <1>2, <1>5, <1>8, <2>1, <3>1
  <2>2. CASE j \notin Rows
    <3>1. PICK y \in 1..m : j = n + y
      BY <1>2, <2>2
    <3>2. c = b.client /\ journal'[j].cseq = lastSeq[c] + y
      BY <1>3, <1>8, <3>1
    <3>3. CASE i \in Rows
      <4>1. journal'[i].cseq <= lastSeq[c] /\ journal'[i].cseq \in Nat
        BY <1>2, <1>5, <1>8, <3>3
      <4> QED
        BY <1>4, <3>2, <4>1
    <3>4. CASE i \notin Rows
      <4>1. PICK x \in 1..m : i = n + x
        BY <1>2, <3>4
      <4>2. journal'[i].cseq = lastSeq[c] + x /\ x < y
        BY <1>2, <1>3, <1>8, <3>1, <3>2, <4>1
      <4> QED
        BY <1>4, <3>2, <4>2
    <3> QED
      BY <3>3, <3>4
  <2> QED
    BY <2>1, <2>2
<1> QED
  BY <1>6, <1>7, <1>8

LEMMA CommitReceiptsProveJournal ==
  ASSUME IInv, NEW b \in Batches, NEW cp, Commit(b, cp)
  PROVE  ReceiptsProveJournal'
<1> DEFINE n == Len(journal)
           m == Len(b.muts)
           new == ReceiptFor(b)
<1>1. /\ journal \in Seq(Row) /\ journal' = journal \o JournalRows(b)
      /\ receipts' = receipts \union {new}
      /\ receipts \subseteq ReceiptRow
      /\ ReceiptsProveJournal
  BY DEF IInv, TypeOK, Commit
<1>2. /\ new.batch = b /\ new.from = n + 1 /\ new.to = n + m
      /\ n \in Nat /\ m \in Nat \ {0}
  BY HeadAfterFacts DEF IInv
<1>3. /\ Len(journal') = n + m
      /\ \A x \in Rows : journal'[x] = journal[x]
      /\ \A x \in 1..m : journal'[n + x] = JournalRows(b)[x]
      /\ \A x \in Rows' : x \in Rows \/ (\E y \in 1..m : x = n + y)
  BY <1>1, JournalGrows
<1>4. \A r \in receipts : /\ r.from \in Nat \ {0} /\ r.to \in Nat
                          /\ Len(r.batch.muts) \in Nat \ {0}
                          /\ r.to = r.from + Len(r.batch.muts) - 1
                          /\ r.to <= n
  BY <1>1, BatchFacts DEF ReceiptRow, ReceiptsProveJournal
<1> HIDE DEF new
<1>5. ASSUME NEW r \in receipts'
      PROVE  /\ r.to = r.from + Len(r.batch.muts) - 1
             /\ r.to <= Len(journal')
             /\ \A i \in 1..Len(r.batch.muts) :
                  journal'[r.from + i - 1] = JournalRows(r.batch)[i]
  <2>1. CASE r \in receipts
    <3>1. \A i \in 1..Len(r.batch.muts) : r.from + i - 1 \in Rows
      BY <1>2, <1>4, <2>1 DEF Rows
    <3>2. \A i \in 1..Len(r.batch.muts) : journal[r.from + i - 1] = JournalRows(r.batch)[i]
      BY <1>1, <2>1 DEF ReceiptsProveJournal
    <3>3. r.to <= Len(journal')
      BY <1>2, <1>3, <1>4, <2>1
    <3> QED
      BY <1>3, <1>4, <2>1, <3>1, <3>2, <3>3
  <2>2. CASE r = new
    <3>1. \A i \in 1..m : r.from + i - 1 = n + i
      BY <1>2, <2>2
    <3>2. r.to = r.from + m - 1 /\ r.to <= n + m
      BY <1>2, <2>2
    <3> QED
      BY <1>2, <1>3, <2>2, <3>1, <3>2
  <2> QED
    BY <1>1, <2>1, <2>2
<1>6. ASSUME NEW i \in Rows'
      PROVE  \E r \in receipts' : r.from <= i /\ i <= r.to
  <2>1. CASE i \in Rows
    BY <1>1, <2>1 DEF ReceiptsProveJournal
  <2>2. CASE i \notin Rows
    <3>1. new.from <= i /\ i <= new.to
      BY <1>2, <1>3, <2>2
    <3> QED
      BY <1>1, <3>1
  <2> QED
    BY <2>1, <2>2
<1>7. ASSUME NEW r \in receipts', NEW q \in receipts', r.from <= q.to, q.from <= r.to
      PROVE  r = q
  <2>1. CASE r \in receipts /\ q \in receipts
    BY <1>1, <1>7, <2>1 DEF ReceiptsProveJournal
  <2>2. CASE r \in receipts /\ q = new
    BY <1>2, <1>4, <1>7, <2>2
  <2>3. CASE r = new /\ q \in receipts
    BY <1>2, <1>4, <1>7, <2>3
  <2>4. CASE r = new /\ q = new
    BY <2>4
  <2> QED
    BY <1>1, <2>1, <2>2, <2>3, <2>4
<1> QED
  BY <1>5, <1>6, <1>7 DEF ReceiptsProveJournal

LEMMA CommitChainVerifies ==
  ASSUME IInv, NEW b \in Batches, NEW cp, Commit(b, cp)
  PROVE  ChainVerifies'
<1> DEFINE n == Len(journal)
           m == Len(b.muts)
           new == ReceiptFor(b)
           top == HeadAfter(b)
<1>1. /\ journal \in Seq(Row) /\ journal' = journal \o JournalRows(b)
      /\ receipts' = receipts \union {new}
      /\ checkpoints' = checkpoints \union {top}
      /\ head' = top
      /\ checkpoints \subseteq Boundary
      /\ head \in Boundary
      /\ ChainVerifies
  BY DEF IInv, TypeOK, Commit
<1>2. /\ new.batch = b /\ new.from = n + 1 /\ new.to = n + m
      /\ new.prior = head.chain /\ new.chain = top.chain
      /\ top.chain = Chain(head.chain, b, new.from, new.to)
      /\ top.seq = n + m /\ top \in Boundary
      /\ n \in Nat /\ m \in Nat \ {0}
  BY HeadAfterFacts DEF IInv
<1>3. Len(journal') = n + m
  BY <1>1, JournalGrows
<1> HIDE DEF new, top
<1>4. /\ head.seq = n /\ head \in checkpoints
      /\ \A p \in checkpoints : p.seq \in Nat /\ p.seq <= n
      /\ \A p \in Boundary : p = [seq |-> p.seq, chain |-> p.chain]
  BY <1>1 DEF ChainVerifies, Boundary
<1>5. head'.seq = Len(journal') /\ head' \in checkpoints'
  BY <1>1, <1>2, <1>3
<1>6. \A p \in checkpoints' : p.seq <= head'.seq
  BY <1>1, <1>2, <1>4
<1>7. ASSUME NEW r \in receipts'
      PROVE  /\ r.chain = Chain(r.prior, r.batch, r.from, r.to)
             /\ [seq |-> r.to, chain |-> r.chain] \in checkpoints'
             /\ [seq |-> r.from - 1, chain |-> r.prior] \in checkpoints'
  <2>1. CASE r \in receipts
    BY <1>1, <2>1 DEF ChainVerifies
  <2>2. CASE r = new
    <3>1. [seq |-> r.to, chain |-> r.chain] = top
      BY <1>2, <1>4, <2>2
    <3>2. r.from - 1 = n
      BY <1>2, <2>2
    <3>3. [seq |-> r.from - 1, chain |-> r.prior] = head
      BY <1>1, <1>2, <1>4, <2>2, <3>2
    <3> QED
      BY <1>1, <1>2, <1>4, <2>2, <3>1, <3>3
  <2> QED
    BY <1>1, <2>1, <2>2
<1>8. \A p, q \in checkpoints' : p.seq = q.seq => p = q
  <2>1. \A p \in checkpoints : p.seq # top.seq
    BY <1>2, <1>4
  <2> QED
    BY <1>1, <2>1 DEF ChainVerifies
<1> QED
  BY <1>5, <1>6, <1>7, <1>8 DEF ChainVerifies

LEMMA CommitStateIsJournalReplayed ==
  ASSUME IInv, NEW b \in Batches, NEW cp, Commit(b, cp)
  PROVE  StateIsJournalReplayed'
<1> DEFINE n == Len(journal)
           m == Len(b.muts)
           written(k) == [kind |-> b.muts[LastOn(b, k)].kind, seq |-> n + LastOn(b, k)]
<1>1. /\ journal \in Seq(Row) /\ journal' = journal \o JournalRows(b)
      /\ stateRecords' = [k \in Keys |-> IF Touches(b, k) THEN written(k) ELSE stateRecords[k]]
      /\ stateRecords \in [Keys -> [kind : Kinds, seq : Nat] \union {NoRecord}]
      /\ StateIsJournalReplayed
      /\ n \in Nat /\ m \in Nat
  BY HeadAfterFacts DEF IInv, TypeOK, Commit, ChainVerifies
<1>2. /\ \A x \in Rows : journal'[x] = journal[x] /\ x \in Rows' /\ x <= n
      /\ \A x \in 1..m : n + x \in Rows'
      /\ \A x \in Rows' : x \in Rows \/ (\E y \in 1..m : x = n + y)
  <2>1. \A x \in Rows : x <= n
    BY DEF Rows
  <2> QED
    BY <1>1, <2>1, JournalGrows
<1>3. \A x \in 1..m : /\ journal'[n + x].key = b.muts[x].key
                      /\ journal'[n + x].kind = b.muts[x].kind
  BY <1>1, JournalGrows, JournalRowsFacts
<1> SUFFICES ASSUME NEW k \in Keys
             PROVE  /\ stateRecords'[k] = NoRecord => \A i \in Rows' : journal'[i].key # k
                    /\ stateRecords'[k] # NoRecord =>
                         /\ stateRecords'[k].seq \in Rows'
                         /\ journal'[stateRecords'[k].seq].key = k
                         /\ journal'[stateRecords'[k].seq].kind = stateRecords'[k].kind
                         /\ \A i \in Rows' : journal'[i].key = k => i <= stateRecords'[k].seq
  BY DEF StateIsJournalReplayed
<1>4. CASE Touches(b, k)
  <2> DEFINE l == LastOn(b, k)
  <2>1. /\ l \in 1..m /\ b.muts[l].key = k
        /\ \A j \in 1..m : b.muts[j].key = k => j <= l
    BY <1>4, LastOnFacts
  <2>2. stateRecords'[k] = written(k)
    BY <1>1, <1>4
  <2>3. written(k) # NoRecord
    <3>1. b.muts[l].kind \in Kinds
      BY <2>1, BatchFacts DEF Mutation
    <3>2. written(k) \in [kind : Kinds, seq : Nat]
      BY <1>1, <2>1, <3>1
    <3> QED
      BY <3>2, NoRecordAssumption
  <2>4. stateRecords'[k].seq = n + l /\ stateRecords'[k].kind = b.muts[l].kind
    BY <2>2
  <2> HIDE DEF l
  <2>5. ASSUME NEW i \in Rows', journal'[i].key = k PROVE i <= n + l
    <3>1. CASE i \in Rows
      <4>1. i <= n /\ i \in Nat
        BY <1>2, <3>1 DEF Rows
      <4>2. l \in Nat
        BY <2>1
      <4> QED
        BY <1>1, <4>1, <4>2
    <3>2. CASE i \notin Rows
      <4>1. PICK y \in 1..m : i = n + y
        BY <1>2, <3>2
      <4>2. y <= l
        BY <1>3, <2>1, <2>5, <4>1
      <4> QED
        BY <1>1, <2>1, <4>1, <4>2
    <3> QED
      BY <3>1, <3>2
  <2> QED
    BY <1>2, <1>3, <2>1, <2>2, <2>3, <2>4, <2>5
<1>5. CASE ~ Touches(b, k)
  <2>1. stateRecords'[k] = stateRecords[k]
    BY <1>1, <1>5
  <2>2. \A i \in Rows' : journal'[i].key = k => i \in Rows /\ journal[i].key = k
    BY <1>2, <1>3, <1>5 DEF Touches
  <2>3. CASE stateRecords[k] = NoRecord
    BY <1>1, <2>1, <2>2, <2>3 DEF StateIsJournalReplayed
  <2>4. CASE stateRecords[k] # NoRecord
    <3>1. /\ stateRecords[k].seq \in Rows
          /\ journal[stateRecords[k].seq].key = k
          /\ journal[stateRecords[k].seq].kind = stateRecords[k].kind
          /\ \A i \in Rows : journal[i].key = k => i <= stateRecords[k].seq
      BY <1>1, <2>4 DEF StateIsJournalReplayed
    <3> QED
      BY <1>2, <2>1, <2>2, <2>4, <3>1
  <2> QED
    BY <2>3, <2>4
<1> QED
  BY <1>4, <1>5

-----------------------------------------------------------------------------
\* Admitting a client and compacting leave what the invariants are about alone.
LEMMA BookkeepingIInv ==
  ASSUME IInv,
         \/ \E c \in Clients : AdmitClient(c)
         \/ \E before \in 1..(head.seq + 1) : CompactJournal(before)
         \/ UNCHANGED vars
  PROVE  IInv'
<1>1. /\ UNCHANGED <<lastSeq, journal, stateRecords, receipts, checkpoints, head>>
      /\ admitted' \subseteq Clients
      /\ retainedFrom' \in Nat \ {0}
  BY DEF IInv, TypeOK, Boundary, AdmitClient, CompactJournal, vars
<1>2. TypeOK'
  BY <1>1 DEF IInv, TypeOK
<1>3. MutationsJournaledOnce' /\ ClientSequenceContiguous'
  BY <1>1 DEF IInv, MutationsJournaledOnce, ClientSequenceContiguous, Rows
<1>4. ReceiptsProveJournal' /\ ChainVerifies' /\ StateIsJournalReplayed'
  BY <1>1 DEF IInv, ReceiptsProveJournal, ChainVerifies, StateIsJournalReplayed, Rows
<1> QED
  BY <1>2, <1>3, <1>4 DEF IInv

LEMMA NextIInv == IInv /\ [Next]_vars => IInv'
<1> SUFFICES ASSUME IInv, [Next]_vars PROVE IInv'
  OBVIOUS
<1>1. ASSUME NEW b \in Batches, NEW cp, Commit(b, cp) PROVE IInv'
  <2>1. TypeOK' /\ MutationsJournaledOnce' /\ ClientSequenceContiguous'
    BY <1>1, CommitTypeOK, CommitMutationsJournaledOnce, CommitClientSequenceContiguous
  <2>2. ReceiptsProveJournal' /\ ChainVerifies' /\ StateIsJournalReplayed'
    BY <1>1, CommitReceiptsProveJournal, CommitChainVerifies, CommitStateIsJournalReplayed
  <2> QED
    BY <2>1, <2>2 DEF IInv
<1> QED
  BY <1>1, BookkeepingIInv DEF Next

\* Every reachable state of the archive satisfies the inductive invariant.
THEOREM Invariance == Spec => []IInv
<1>1. Init => IInv
  BY InitIInv
<1>2. IInv /\ [Next]_vars => IInv'
  BY NextIInv
<1> QED
  BY <1>1, <1>2, PTL DEF Spec

\* Type correctness of the archive.
THEOREM TypeCorrect == Spec => []TypeOK
<1>1. IInv => TypeOK
  BY DEF IInv
<1> QED
  BY <1>1, Invariance, PTL

\* However often and by whomever a batch is sent, its mutations are in the journal
\* at most once.
THEOREM ExactlyOnce == Spec => []MutationsJournaledOnce
<1>1. IInv => MutationsJournaledOnce
  BY DEF IInv
<1> QED
  BY <1>1, Invariance, PTL

\* The journal holds every client stream's sequence without a gap, a repetition or
\* a reordering.
THEOREM Contiguous == Spec => []ClientSequenceContiguous
<1>1. IInv => ClientSequenceContiguous
  BY DEF IInv
<1> QED
  BY <1>1, Invariance, PTL

\* Every receipt proves exactly the journal rows of its batch, and no row is
\* without a receipt.
THEOREM ReceiptsAreProofs == Spec => []ReceiptsProveJournal
<1>1. IInv => ReceiptsProveJournal
  BY DEF IInv
<1> QED
  BY <1>1, Invariance, PTL

\* What verify_integrity walks back always verifies, for any interleaving of
\* clients, compactions and batches sent again: the receipts are linked from
\* the empty archive to the head, through checkpoints that stay accepted.
THEOREM ChainHolds == Spec => []ChainVerifies
<1>1. IInv => ChainVerifies
  BY DEF IInv
<1> QED
  BY <1>1, Invariance, PTL

\* The current-state table is the journal replayed.
THEOREM StateReplayed == Spec => []StateIsJournalReplayed
<1>1. IInv => StateIsJournalReplayed
  BY DEF IInv
<1> QED
  BY <1>1, Invariance, PTL

\* A tombstone admits only tombstones on its key: the whole batch is refused else.
LEMMA CommitKeepsTombstones ==
  ASSUME IInv, NEW b \in Batches, NEW cp, Commit(b, cp), NEW k \in Keys, Tombstoned(k)
  PROVE  Tombstoned(k)'
<1>1. /\ stateRecords'[k] = IF Touches(b, k)
                            THEN [kind |-> b.muts[LastOn(b, k)].kind,
                                  seq |-> head.seq + LastOn(b, k)]
                            ELSE stateRecords[k]
      /\ ~ TombstoneConflict(b)
      /\ head.seq \in Nat
  BY DEF Commit, IInv, TypeOK, Boundary
<1>2. CASE Touches(b, k)
  <2>1. LastOn(b, k) \in 1..Len(b.muts) /\ b.muts[LastOn(b, k)].key = k
    BY <1>2, LastOnFacts
  <2>2. b.muts[LastOn(b, k)].kind = "tombstone"
    BY <1>1, <2>1 DEF TombstoneConflict, Tombstoned
  <2>3. stateRecords'[k] = [kind |-> "tombstone", seq |-> head.seq + LastOn(b, k)]
    BY <1>1, <1>2, <2>2
  <2>4. LastOn(b, k) \in Nat
    BY <2>1, BatchFacts
  <2>5. stateRecords'[k] \in [kind : Kinds, seq : Nat]
    BY <1>1, <2>3, <2>4 DEF Kinds
  <2> QED
    BY <2>3, <2>5, NoRecordAssumption DEF Tombstoned
<1>3. CASE ~ Touches(b, k)
  BY <1>1, <1>3 DEF Tombstoned
<1> QED
  BY <1>2, <1>3

\* No step turns a key whose record is a tombstone back into an upsert.
THEOREM TombstonesHold == Spec => TombstonesStay
<1>1. IInv /\ [Next]_vars => [\A k \in Keys : Tombstoned(k) => Tombstoned(k)']_vars
  <2> SUFFICES ASSUME IInv, Next PROVE \A k \in Keys : Tombstoned(k) => Tombstoned(k)'
    OBVIOUS
  <2>1. CASE \E b \in Batches, cp \in checkpoints \union {NoCheckpoint} : Commit(b, cp)
    BY <2>1, CommitKeepsTombstones
  <2>2. CASE \E c \in Clients : AdmitClient(c)
    BY <2>2 DEF AdmitClient, Tombstoned
  <2>3. CASE \E before \in 1..(head.seq + 1) : CompactJournal(before)
    BY <2>3 DEF CompactJournal, Tombstoned
  <2> QED
    BY <2>1, <2>2, <2>3 DEF Next
<1> QED
  BY <1>1, Invariance, PTL DEF Spec, TombstonesStay

\* No step takes back a journal row, a receipt, a checkpoint or a client sequence.
THEOREM AcknowledgedHolds == Spec => AcknowledgedStays
<1> DEFINE Grows == /\ Len(journal) <= Len(journal')
                    /\ \A i \in Rows : journal'[i] = journal[i]
                    /\ receipts \subseteq receipts'
                    /\ checkpoints \subseteq checkpoints'
                    /\ \A c \in Clients : lastSeq[c] <= lastSeq'[c]
<1>1. IInv /\ [Next]_vars => [Grows]_vars
  <2> SUFFICES ASSUME IInv, Next PROVE Grows
    OBVIOUS
  <2>1. ASSUME NEW b \in Batches, NEW cp, Commit(b, cp) PROVE Grows
    <3>1. /\ journal \in Seq(Row) /\ journal' = journal \o JournalRows(b)
          /\ lastSeq \in [Clients -> Nat]
          /\ lastSeq' = [lastSeq EXCEPT ![b.client] = b.from + Len(b.muts) - 1]
          /\ b.from = lastSeq[b.client] + 1
          /\ Len(b.muts) \in Nat \ {0} /\ b.client \in Clients
      BY <2>1, BatchFacts DEF IInv, TypeOK, Commit, NextInSequence, To
    <3>2. Len(journal) <= Len(journal') /\ \A i \in Rows : journal'[i] = journal[i]
      <4>1. /\ Len(journal) \in Nat
            /\ Len(journal') = Len(journal) + Len(b.muts)
            /\ \A i \in Rows : journal'[i] = journal[i]
        BY <3>1, JournalGrows
      <4>2. Len(b.muts) \in Nat
        BY BatchFacts
      <4>3. Len(journal) <= Len(journal')
        BY <4>1, <4>2
      <4> QED
        BY <4>1, <4>3
    <3>3. receipts \subseteq receipts' /\ checkpoints \subseteq checkpoints'
      BY <2>1 DEF Commit
    <3>4. lastSeq[b.client] <= b.from + Len(b.muts) - 1
      BY <3>1
    <3>5. \A c \in Clients : lastSeq[c] <= lastSeq'[c]
      BY <3>1, <3>4
    <3> QED
      BY <3>2, <3>3, <3>5
  <2>2. ASSUME UNCHANGED <<lastSeq, journal, receipts, checkpoints>> PROVE Grows
    BY <2>2 DEF IInv, TypeOK
  <2> QED
    BY <2>1, <2>2 DEF Next, AdmitClient, CompactJournal
<1> QED
  BY <1>1, Invariance, PTL DEF Spec, AcknowledgedStays
=============================================================================

------------------------ MODULE GenerationRebuildProofs ------------------------
(***************************************************************************)
(* What a rebuilt cache shows, for any streams, keys and batches, any page *)
(* size, and any number of generations, failures and reloads.              *)
(*                                                                         *)
(* One tab is assumed, OneTab: two that load at once recover each other's  *)
(* journal.  And the theorem speaks of the rows about which there is one   *)
(* state key, SoleRows: where two keys are about one row, as a membership  *)
(* and its tombstone are, pages come in the order of the keys and not of   *)
(* the journal (CapturedWrites shows what that does).                      *)
(*                                                                         *)
(* The invariants of the archive are those of CanonicalArchiveProofs: they *)
(* say that a state record is the last row of its key, hence that pinned   *)
(* pages hold what the journal up to the head holds (PinnedAtHead).  From  *)
(* then on the journal only grows, so the pages stay true of the sequence  *)
(* they were pinned at (ReplayedStays), and after n of them the staged     *)
(* database shows what those n say (Staged).  No step changes the          *)
(* database of the active generation, because what a load stages or        *)
(* deletes is never active (NotActive).                                    *)
(***************************************************************************)
EXTENDS GenerationRebuild, CanonicalArchiveProofs, FiniteSetTheorems

OneTab == \A t, u \in Tabs : t = u

SoleRows == {r \in TableRows : \A k, l \in Keys : RowOf[k] = r /\ RowOf[l] = r => k = l}

Contents == [TableRows -> Nat]

Item == [row : TableRows, kind : Kinds, seq : Nat]

Places == {"closed", "deleting", "check", "reconcile", "paging", "verified", "activated", "loaded"}

RebuildTypeOK ==
  /\ pc \in [Tabs -> Places]
  /\ gen \in [Tabs -> Generations \union {NoJournal}]
  /\ leftover \in [Tabs -> Generations \union {NoJournal}]
  /\ stream \in [Tabs -> [pages : Seq(Seq(Item)), target : Boundary]]
  /\ position \in [Tabs -> Nat]
  /\ genJournal \in Generations \union {NoJournal}
  /\ databases \in [Generations -> Contents \union {NoDatabase}]
  /\ begun \subseteq Generations

Shows(database, seq) ==
  /\ database \in Contents
  /\ seq \in 0..Len(journal)
  /\ \A r \in SoleRows : database[r] = Replayed(seq)[r]

OnPage(page, r) == \E i \in 1..Len(page) : page[i].row = r

Read(pages, n, r) == \E p \in 1..n : OnPage(pages[p], r)

Content(item) == IF item.kind = "upsert" THEN item.seq ELSE Absent

Pinned(pages, seq) ==
  /\ seq \in 0..Len(journal)
  /\ \A p \in 1..Len(pages) : \A i \in 1..Len(pages[p]) :
       pages[p][i].row \in SoleRows => Content(pages[p][i]) = Replayed(seq)[pages[p][i].row]
  /\ \A r \in SoleRows : Replayed(seq)[r] # Absent => Read(pages, Len(pages), r)

Staged(database, pages, n, seq) ==
  /\ database \in Contents
  /\ \A r \in SoleRows :
       database[r] = IF Read(pages, n, r) THEN Replayed(seq)[r] ELSE Absent

NotActive(g) == pointer # NoPointer => pointer.gen # g

ActiveShows ==
  pointer # NoPointer =>
    pointer.gen \in begun /\ Shows(databases[pointer.gen], pointer.target.seq)

TabInv(t) ==
  /\ At(t, "deleting") => leftover[t] \in Generations /\ NotActive(leftover[t])
  /\ pc[t] \in {"reconcile", "paging", "verified"} => gen[t] \in begun /\ NotActive(gen[t])
  /\ At(t, "paging") =>
       /\ position[t] <= Len(stream[t].pages)
       /\ Pinned(stream[t].pages, stream[t].target.seq)
       /\ Staged(databases[gen[t]], stream[t].pages, position[t], stream[t].target.seq)
  /\ At(t, "verified") => Shows(databases[gen[t]], stream[t].target.seq)
  /\ At(t, "activated") => gen[t] \in Generations

RebuildIInv == RebuildTypeOK /\ ActiveShows /\ \A t \in Tabs : TabInv(t)

-----------------------------------------------------------------------------
\* What the journal up to a sequence holds does not change when it grows.
LastOf(T) == CHOOSE i \in T : \A j \in T : j <= i

LEMMA LastAboutFacts ==
  ASSUME NEW r, NEW seq \in Nat,
         NEW about, about = {i \in 1..seq : RowOf[journal[i].key] = r}
  PROVE  /\ LastAbout(r, seq) = IF about = {} THEN Absent ELSE LastOf(about)
         /\ LastAbout(r, seq) # Absent => about # {} /\ LastAbout(r, seq) \in 1..seq
<1>1. LastAbout(r, seq) = IF about = {} THEN Absent ELSE LastOf(about)
  BY DEF LastAbout, LastOf
<1>2. ASSUME about # {} PROVE LastOf(about) \in 1..seq
  <2>1. about \subseteq 1..seq
    OBVIOUS
  <2>2. \E i \in about : \A j \in about : j <= i
    BY <1>2, <2>1, LastPosition
  <2> QED
    BY <2>1, <2>2 DEF LastOf
<1> QED
  BY <1>1, <1>2

LEMMA ReplayedStays ==
  ASSUME Len(journal) \in Nat, Len(journal') \in Nat, Len(journal) <= Len(journal'),
         \A i \in Rows : journal'[i] = journal[i],
         NEW seq \in 0..Len(journal)
  PROVE  seq \in 0..Len(journal') /\ Replayed(seq)' = Replayed(seq)
<1>1. \A i \in 1..seq : journal'[i] = journal[i]
  BY DEF Rows
<1>2. seq \in 0..Len(journal')
  OBVIOUS
<1>3. \A r : {i \in 1..seq : RowOf[journal'[i].key] = r}
               = {i \in 1..seq : RowOf[journal[i].key] = r}
  BY <1>1
<1>4. ASSUME NEW r \in TableRows
      PROVE  LastAbout(r, seq)' = LastAbout(r, seq)
  <2>1. PICK about : about = {i \in 1..seq : RowOf[journal[i].key] = r}
    OBVIOUS
  <2>2. LastAbout(r, seq) = IF about = {} THEN Absent ELSE LastOf(about)
    BY <2>1, LastAboutFacts
  <2>3. about = {i \in 1..seq : RowOf[journal'[i].key] = r}
    BY <1>3, <2>1
  <2>4. LastAbout(r, seq)' = IF about = {} THEN Absent ELSE LastOf(about)
    BY <2>3 DEF LastAbout, LastOf
  <2> QED
    BY <2>2, <2>4
<1>5. ASSUME NEW r \in TableRows, LastAbout(r, seq) # Absent
      PROVE  LastAbout(r, seq) \in 1..seq
  <2>1. PICK about : about = {i \in 1..seq : RowOf[journal[i].key] = r}
    OBVIOUS
  <2> QED
    BY <1>5, <2>1, LastAboutFacts
<1>6. Replayed(seq)' = Replayed(seq)
  BY <1>1, <1>4, <1>5 DEF Replayed
<1> QED
  BY <1>2, <1>6

\* A row of one key shows what the state record of the key says.
LEMMA ReplayedOfKey ==
  ASSUME IInv, NEW k \in Keys, RowOf[k] \in SoleRows
  PROVE  /\ stateRecords[k] = NoRecord => Replayed(head.seq)[RowOf[k]] = Absent
         /\ stateRecords[k] # NoRecord =>
              /\ stateRecords[k] \in [kind : Kinds, seq : Nat]
              /\ Content(stateRecords[k]) = Replayed(head.seq)[RowOf[k]]
<1> DEFINE about == {i \in Rows : journal[i].key = k}
           r == RowOf[k]
<1>1. /\ head.seq = Len(journal) /\ journal \in Seq(Row) /\ Len(journal) \in Nat
      /\ stateRecords \in [Keys -> [kind : Kinds, seq : Nat] \union {NoRecord}]
      /\ stateRecords[k] = NoRecord => \A i \in Rows : journal[i].key # k
      /\ stateRecords[k] # NoRecord =>
           /\ stateRecords[k].seq \in about
           /\ journal[stateRecords[k].seq].kind = stateRecords[k].kind
           /\ \A i \in about : i <= stateRecords[k].seq
  BY LenProperties DEF IInv, TypeOK, ChainVerifies, StateIsJournalReplayed
<1>2. \A i \in Rows : journal[i].key \in Keys
  <2>1. \A i \in Rows : journal[i] \in Row
    BY <1>1, ElementOfSeq DEF Rows
  <2> QED
    BY <2>1 DEF Row
<1>3. r \in TableRows /\ \A l \in Keys : RowOf[l] = r => l = k
  BY DEF SoleRows
<1>4. {i \in 1..head.seq : RowOf[journal[i].key] = r} = about
  BY <1>1, <1>2, <1>3 DEF Rows
<1>5. /\ Replayed(head.seq)[r] =
           IF LastAbout(r, head.seq) = Absent \/ journal[LastAbout(r, head.seq)].kind = "tombstone"
           THEN Absent ELSE LastAbout(r, head.seq)
      /\ LastAbout(r, head.seq) = IF about = {} THEN Absent ELSE LastOf(about)
  <2>1. head.seq \in Nat
    BY <1>1
  <2>2. LastAbout(r, head.seq) = IF about = {} THEN Absent ELSE LastOf(about)
    <3>1. PICK row, last, T : row = r /\ last = head.seq /\ T = about
      OBVIOUS
    <3>2. last \in Nat /\ T = {i \in 1..last : RowOf[journal[i].key] = row}
      BY <1>4, <2>1, <3>1
    <3>3. LastAbout(row, last) = IF T = {} THEN Absent ELSE LastOf(T)
      BY <3>2, LastAboutFacts
    <3> QED
      BY <3>1, <3>3
  <2> QED
    BY <1>3, <2>2 DEF Replayed
<1>6. CASE stateRecords[k] = NoRecord
  BY <1>1, <1>5, <1>6
<1>7. CASE stateRecords[k] # NoRecord
  <2>1. PICK last : last = stateRecords[k].seq
    OBVIOUS
  <2>2. last \in about /\ \A j \in about : j <= last
    BY <1>1, <1>7, <2>1
  <2>3. about \subseteq 1..Len(journal)
    BY DEF Rows
  <2>4. LastOf(about) = last
    <3>1. \A i \in about : (\A j \in about : j <= i) => i = last
      BY <1>1, <2>2, <2>3
    <3> HIDE DEF about
    <3> QED
      BY <2>2, <3>1 DEF LastOf
  <2>5. LastAbout(r, head.seq) = last /\ last # Absent
    BY <1>1, <1>5, <2>2, <2>3, <2>4 DEF Absent
  <2>6. stateRecords[k] \in [kind : Kinds, seq : Nat] /\ journal[last].kind = stateRecords[k].kind
    BY <1>1, <1>7, <2>1
  <2> QED
    BY <1>5, <1>7, <2>1, <2>5, <2>6 DEF Content, Kinds
<1> QED
  BY <1>6, <1>7

\* A row that shows something is about a key that the archive holds.
LEMMA ShownIsHeld ==
  ASSUME IInv, NEW r \in TableRows, Replayed(head.seq)[r] # Absent
  PROVE  \E k \in HeldKeys : RowOf[k] = r
<1> DEFINE about == {i \in 1..head.seq : RowOf[journal[i].key] = r}
<1>1. head.seq = Len(journal) /\ journal \in Seq(Row) /\ StateIsJournalReplayed
  BY DEF IInv, TypeOK, ChainVerifies
<1>2. about # {}
  BY DEF Replayed, LastAbout
<1>3. PICK i \in Rows : RowOf[journal[i].key] = r
  BY <1>1, <1>2 DEF Rows
<1>4. journal[i].key \in Keys
  <2>1. journal[i] \in Row
    BY <1>1, <1>3, ElementOfSeq DEF Rows
  <2> QED
    BY <2>1 DEF Row
<1>5. stateRecords[journal[i].key] # NoRecord
  BY <1>1, <1>3, <1>4 DEF StateIsJournalReplayed
<1> QED
  BY <1>3, <1>4, <1>5 DEF HeldKeys

-----------------------------------------------------------------------------
Increasing(s) == \A i, j \in DOMAIN s : i < j => Rank[s[i]] < Rank[s[j]]

Orders == {s \in [1..Cardinality(HeldKeys) -> HeldKeys] : Increasing(s)}

Below(k) == {l \in HeldKeys : Rank[l] < Rank[k]}

LEMMA HeldFinite ==
  /\ HeldKeys \subseteq Keys /\ IsFiniteSet(HeldKeys) /\ Cardinality(HeldKeys) \in Nat
  /\ \A k \in HeldKeys : Rank[k] \in Nat
<1>1. HeldKeys \subseteq Keys
  BY DEF HeldKeys
<1> QED
  BY <1>1, PagesAssumption, FS_Subset, FS_CardinalityType

\* A higher key has more keys below it.
LEMMA BelowCounts ==
  ASSUME NEW k \in HeldKeys
  PROVE  /\ Cardinality(Below(k)) \in 0..(Cardinality(HeldKeys) - 1)
         /\ \A l \in HeldKeys : Rank[k] < Rank[l] => Cardinality(Below(k)) < Cardinality(Below(l))
<1>1. ASSUME NEW T, T \subseteq HeldKeys, Below(k) \subseteq T, k \in T
      PROVE  /\ Cardinality(Below(k)) \in Nat /\ Cardinality(T) \in Nat
             /\ Cardinality(Below(k)) < Cardinality(T)
  <2>1. PICK B : B = Below(k)
    OBVIOUS
  <2>2. k \notin B /\ IsFiniteSet(B) /\ IsFiniteSet(T)
    BY <1>1, <2>1, HeldFinite, FS_Subset DEF Below
  <2>3. PICK C : C = B \union {k}
    OBVIOUS
  <2>4. Cardinality(C) = Cardinality(B) + 1 /\ C \in SUBSET T
    BY <1>1, <2>1, <2>2, <2>3, FS_AddElement
  <2>5. Cardinality(C) <= Cardinality(T)
    BY <2>2, <2>4, FS_Subset
  <2>6. Cardinality(B) \in Nat /\ Cardinality(T) \in Nat
    BY <2>2, FS_CardinalityType
  <2> QED
    BY <2>1, <2>4, <2>5, <2>6
<1>2. Below(k) \subseteq HeldKeys
  BY DEF Below
<1>3. ASSUME NEW l \in HeldKeys, Rank[k] < Rank[l]
      PROVE  Cardinality(Below(k)) < Cardinality(Below(l))
  <2>1. Below(l) \subseteq HeldKeys /\ k \in Below(l) /\ Below(k) \subseteq Below(l)
    BY <1>3, HeldFinite DEF Below
  <2> QED
    BY <1>1, <2>1
<1> QED
  BY <1>1, <1>2, <1>3, HeldFinite

\* The held keys can be listed in their order.
LEMMA OrderExists == Orders # {}
<1> DEFINE n == Cardinality(HeldKeys)
<1>1. n \in Nat /\ IsFiniteSet(HeldKeys)
  BY HeldFinite
<1>2. PICK count : count = [k \in HeldKeys |-> Cardinality(Below(k))]
  OBVIOUS
<1>3. \A k \in HeldKeys : count[k] \in 0..(n - 1)
  BY <1>2, BelowCounts
<1>4. \A k, l \in HeldKeys : /\ Rank[k] < Rank[l] => count[k] < count[l]
                             /\ count[k] = count[l] => k = l
                             /\ count[k] < count[l] => Rank[k] < Rank[l]
  <2> SUFFICES ASSUME NEW k \in HeldKeys, NEW l \in HeldKeys
               PROVE  /\ Rank[k] < Rank[l] => count[k] < count[l]
                      /\ count[k] = count[l] => k = l
                      /\ count[k] < count[l] => Rank[k] < Rank[l]
    OBVIOUS
  <2>1. /\ Rank[k] < Rank[l] => count[k] < count[l]
        /\ Rank[l] < Rank[k] => count[l] < count[k]
    BY <1>2, BelowCounts
  <2>2. Rank[k] \in Nat /\ Rank[l] \in Nat /\ (Rank[k] = Rank[l] => k = l)
    BY HeldFinite, PagesAssumption
  <2>3. count[k] \in Nat /\ count[l] \in Nat
    BY <1>1, <1>3
  <2> QED
    BY <2>1, <2>2, <2>3
<1>5. count \in Injection(HeldKeys, 0..(n - 1))
  BY <1>2, <1>3, <1>4 DEF Injection, IsInjective
<1>6. IsFiniteSet(0..(n - 1)) /\ Cardinality(0..(n - 1)) = n
  BY <1>1, FS_Interval
<1>7. count \in Surjection(HeldKeys, 0..(n - 1))
  BY <1>1, <1>5, <1>6, FS_Injection
<1>8. \A i \in 1..n : \E k \in HeldKeys : count[k] = i - 1
  <2> SUFFICES ASSUME NEW i \in 1..n PROVE \E k \in HeldKeys : count[k] = i - 1
    OBVIOUS
  <2>1. i - 1 \in 0..(n - 1)
    BY <1>1
  <2> QED
    BY <1>7, <2>1 DEF Surjection
<1>9. PICK s : s = [i \in 1..n |-> CHOOSE k \in HeldKeys : count[k] = i - 1]
  OBVIOUS
<1>10. s \in [1..n -> HeldKeys] /\ \A i \in 1..n : count[s[i]] = i - 1
  BY <1>8, <1>9
<1>11. ASSUME NEW i \in 1..n, NEW j \in 1..n, i < j PROVE Rank[s[i]] < Rank[s[j]]
  <2>1. count[s[i]] < count[s[j]]
    BY <1>1, <1>10, <1>11
  <2> QED
    BY <1>4, <1>10, <2>1
<1>12. s \in Orders
  BY <1>10, <1>11 DEF Orders, Increasing
<1> QED
  BY <1>12

\* Such a list names every held key.
LEMMA OrderIsOnto ==
  ASSUME NEW s \in Orders
  PROVE  \A k \in HeldKeys : \E i \in 1..Cardinality(HeldKeys) : s[i] = k
<1> DEFINE n == Cardinality(HeldKeys)
<1>1. n \in Nat /\ IsFiniteSet(HeldKeys) /\ s \in [1..n -> HeldKeys]
  BY HeldFinite DEF Orders
<1>2. ASSUME NEW i \in 1..n, NEW j \in 1..n, i < j PROVE s[i] # s[j]
  <2>1. Rank[s[i]] < Rank[s[j]] /\ Rank[s[i]] \in Nat
    BY <1>1, <1>2, HeldFinite DEF Orders, Increasing
  <2> QED
    BY <2>1
<1>3. \A i, j \in 1..n : s[i] = s[j] => i = j
  BY <1>1, <1>2
<1>4. s \in Injection(1..n, HeldKeys)
  BY <1>1, <1>3 DEF Injection, IsInjective
<1>5. IsFiniteSet(1..n) /\ Cardinality(1..n) = n
  BY <1>1, FS_Interval
<1>6. s \in Surjection(1..n, HeldKeys)
  BY <1>1, <1>4, <1>5, FS_Injection
<1> QED
  BY <1>6 DEF Surjection

ItemOf(k) == [row |-> RowOf[k], kind |-> stateRecords[k].kind, seq |-> stateRecords[k].seq]

\* The items are the records of the held keys, each once.
LEMMA ItemsFacts ==
  ASSUME IInv
  PROVE  /\ Items \in Seq(Item) /\ Len(Items) \in Nat
         /\ \A i \in 1..Len(Items) : \E k \in HeldKeys : Items[i] = ItemOf(k)
         /\ \A k \in HeldKeys : \E i \in 1..Len(Items) : Items[i] = ItemOf(k)
<1> DEFINE n == Cardinality(HeldKeys)
           order == CHOOSE s \in [1..Cardinality(HeldKeys) -> HeldKeys] :
                      \A i, j \in DOMAIN s : i < j => Rank[s[i]] < Rank[s[j]]
<1>1. order \in Orders
  BY OrderExists DEF Orders, Increasing
<1>2. Items = [i \in DOMAIN order |-> ItemOf(order[i])]
  BY DEF Items, ItemOf
<1> HIDE DEF order
<1>3. n \in Nat /\ order \in [1..n -> HeldKeys] /\ DOMAIN order = 1..n
  BY <1>1, HeldFinite DEF Orders
<1>4. \A k \in HeldKeys : ItemOf(k) \in Item
  BY PagesAssumption DEF HeldKeys, ItemOf, Item, IInv, TypeOK
<1>5. Items \in [1..n -> Item] /\ \A i \in 1..n : Items[i] = ItemOf(order[i])
  BY <1>2, <1>3, <1>4
<1>6. Items \in Seq(Item) /\ Len(Items) = n
  BY <1>3, <1>5, SeqDef, LenProperties
<1>7. \A k \in HeldKeys : \E i \in 1..n : order[i] = k
  BY <1>1, OrderIsOnto
<1> QED
  BY <1>3, <1>5, <1>6, <1>7

-----------------------------------------------------------------------------
\* Arithmetic of pages.
LEMMA Division ==
  ASSUME NEW a \in Nat, NEW d \in Nat \ {0}
  PROVE  /\ a \div d \in Nat
         /\ (a \div d) * d <= a
         /\ a < (a \div d) * d + d
OBVIOUS

LEMMA Multiples ==
  ASSUME NEW p \in Nat, NEW q \in Nat, NEW d \in Nat \ {0}, p * d < q * d
  PROVE  p < q
<1>1. CASE q <= p
  <2>1. PICK e \in Nat : p = q + e
    BY <1>1
  <2>2. p * d = q * d + e * d /\ e * d \in Nat /\ q * d \in Nat
    BY <2>1
  <2> QED
    BY <2>2
<1> QED
  BY <1>1

PagesOf(items) == [i \in 1..PageCount(items) |-> Page(items, i)]

\* What one page holds.
LEMMA PageFacts ==
  ASSUME NEW items \in Seq(Item), NEW p \in Nat \ {0}
  PROVE  /\ Page(items, p) \in Seq(Item)
         /\ \A i \in 1..Len(Page(items, p)) : \E j \in 1..Len(items) : Page(items, p)[i] = items[j]
         /\ \A j \in 1..Len(items) :
              (p - 1) * PageSize < j /\ j <= p * PageSize =>
                \E i \in 1..Len(Page(items, p)) : Page(items, p)[i] = items[j]
<1> DEFINE m == (p - 1) * PageSize + 1
           n == IF p * PageSize < Len(items) THEN p * PageSize ELSE Len(items)
<1>1. /\ (p - 1) * PageSize \in Nat /\ p * PageSize \in Nat /\ Len(items) \in Nat
      /\ m \in Nat \ {0} /\ n \in Nat /\ n <= Len(items)
      /\ \A j \in 1..Len(items) :
           (p - 1) * PageSize < j /\ j <= p * PageSize => m <= j /\ j <= n
  <2>1. PageSize \in Nat /\ p - 1 \in Nat /\ Len(items) \in Nat
    BY PagesAssumption, LenProperties
  <2>2. (p - 1) * PageSize \in Nat /\ p * PageSize \in Nat
    BY <2>1
  <2> QED
    BY <2>1, <2>2
<1>2. Page(items, p) = SubSeq(items, m, n)
  BY DEF Page
<1> HIDE DEF m, n
<1>3. \A i \in m..n : items[i] \in Item
  BY <1>1, ElementOfSeq
<1>4. /\ SubSeq(items, m, n) \in Seq(Item)
      /\ Len(SubSeq(items, m, n)) = IF m <= n THEN n - m + 1 ELSE 0
      /\ \A i \in 1..n - m + 1 : SubSeq(items, m, n)[i] = items[m + i - 1]
  <2>1. m \in Int /\ n \in Int
    BY <1>1
  <2> QED
    BY <1>3, <2>1, SubSeqProperties
<1>5. PICK page : page = Page(items, p)
  OBVIOUS
<1>6. /\ page \in Seq(Item) /\ Len(page) = IF m <= n THEN n - m + 1 ELSE 0
      /\ \A i \in 1..n - m + 1 : page[i] = items[m + i - 1]
  BY <1>2, <1>4, <1>5
<1>7. ASSUME NEW i \in 1..Len(page) PROVE \E j \in 1..Len(items) : page[i] = items[j]
  <2>1. i \in 1..n - m + 1 /\ m + i - 1 \in 1..Len(items)
    BY <1>1, <1>6
  <2> QED
    BY <1>6, <2>1
<1>8. ASSUME NEW j \in 1..Len(items), m <= j, j <= n
      PROVE  \E i \in 1..Len(page) : page[i] = items[j]
  <2>1. PICK i \in Int : i = j - m + 1
    BY <1>1
  <2>2. i \in 1..n - m + 1 /\ i \in 1..Len(page) /\ m + i - 1 = j
    BY <1>1, <1>6, <1>8, <2>1
  <2> QED
    BY <1>6, <2>2
<1> QED
  BY <1>1, <1>5, <1>6, <1>7, <1>8

\* Every item is on a page, and nothing else is.
Covers(pages, items) ==
  /\ pages \in Seq(Seq(Item))
  /\ \A p \in 1..Len(pages) : \A i \in 1..Len(pages[p]) :
       \E j \in 1..Len(items) : pages[p][i] = items[j]
  /\ \A j \in 1..Len(items) :
       \E p \in 1..Len(pages) : \E i \in 1..Len(pages[p]) : pages[p][i] = items[j]

LEMMA PagesFacts ==
  ASSUME NEW items \in Seq(Item)
  PROVE  Covers(PagesOf(items), items)
<1>0. PICK pages : pages = PagesOf(items)
  OBVIOUS
<1>1. PageSize \in Nat \ {0} /\ Len(items) \in Nat
  BY PagesAssumption, LenProperties
<1>2. PICK count : count = PageCount(items)
  OBVIOUS
<1>3. count \in Nat /\ Len(items) <= count * PageSize
  <2>1. CASE items = <<>>
    BY <1>1, <1>2, <2>1, EmptySeq DEF PageCount
  <2>2. CASE items # <<>>
    <3>1. Len(items) + PageSize - 1 \in Nat /\ count = (Len(items) + PageSize - 1) \div PageSize
      BY <1>1, <1>2, <2>2 DEF PageCount
    <3>2. /\ count \in Nat
          /\ Len(items) + PageSize - 1 < count * PageSize + PageSize
      BY <1>1, <3>1, Division
    <3>3. count * PageSize \in Nat
      BY <1>1, <3>2
    <3> QED
      BY <1>1, <3>2, <3>3
  <2> QED
    BY <2>1, <2>2
<1>4. /\ pages \in Seq(Seq(Item)) /\ Len(pages) = count
      /\ \A p \in 1..count : pages[p] = Page(items, p)
  <2>1. pages = [p \in 1..count |-> Page(items, p)]
    BY <1>0, <1>2 DEF PagesOf
  <2>2. ASSUME NEW p \in 1..count PROVE Page(items, p) \in Seq(Item)
    <3>1. p \in Nat \ {0}
      BY <1>3
    <3> QED
      BY <3>1, PageFacts
  <2>3. pages \in [1..count -> Seq(Item)]
    BY <2>1, <2>2
  <2> QED
    BY <1>3, <2>1, <2>3, SeqDef, LenProperties
<1>5. ASSUME NEW p \in 1..Len(pages), NEW i \in 1..Len(pages[p])
      PROVE  \E j \in 1..Len(items) : pages[p][i] = items[j]
  <2>1. p \in Nat \ {0} /\ pages[p] = Page(items, p)
    BY <1>3, <1>4
  <2> QED
    BY <2>1, PageFacts
<1>6. ASSUME NEW j \in 1..Len(items)
      PROVE  \E p \in 1..Len(pages) : \E i \in 1..Len(pages[p]) : pages[p][i] = items[j]
  <2>1. PICK q : q = (j - 1) \div PageSize
    OBVIOUS
  <2>2. /\ q \in Nat /\ q * PageSize \in Nat
        /\ q * PageSize < j /\ j <= (q + 1) * PageSize
    <3>1. j - 1 \in Nat
      BY <1>1
    <3>2. q \in Nat /\ q * PageSize <= j - 1 /\ j - 1 < q * PageSize + PageSize
      BY <1>1, <2>1, <3>1, Division
    <3>3. q * PageSize \in Nat /\ (q + 1) * PageSize = q * PageSize + PageSize
      BY <1>1, <3>2
    <3> QED
      BY <1>1, <3>2, <3>3
  <2>3. q * PageSize < count * PageSize
    <3>1. count * PageSize \in Nat
      BY <1>1, <1>3
    <3> QED
      BY <1>1, <1>3, <2>2, <3>1
  <2>4. q < count
    BY <1>1, <1>3, <2>2, <2>3, Multiples
  <2>5. PICK p : p = q + 1
    OBVIOUS
  <2>6. /\ p \in Nat \ {0} /\ p \in 1..Len(pages) /\ pages[p] = Page(items, p)
        /\ (p - 1) * PageSize < j /\ j <= p * PageSize
    <3>1. p \in Nat \ {0} /\ p \in 1..count /\ p - 1 = q
      BY <1>3, <2>2, <2>4, <2>5
    <3> QED
      BY <1>4, <2>2, <2>5, <3>1
  <2>7. \E i \in 1..Len(pages[p]) : pages[p][i] = items[j]
    BY <2>6, PageFacts
  <2> QED
    BY <2>6, <2>7
<1> QED
  BY <1>0, <1>4, <1>5, <1>6 DEF Covers

\* The stream that reconcile() pins is true of the head.
LEMMA PinnedAtHead ==
  ASSUME IInv, NEW pages, pages = PagesOf(Items)
  PROVE  pages \in Seq(Seq(Item)) /\ Pinned(pages, head.seq)
<1>1. head.seq \in 0..Len(journal)
  BY LenProperties DEF IInv, TypeOK, ChainVerifies, Boundary
<1>2. PICK items : items = Items
  OBVIOUS
<1>3. /\ items \in Seq(Item)
      /\ \A j \in 1..Len(items) : \E k \in HeldKeys : items[j] = ItemOf(k)
      /\ \A k \in HeldKeys : \E j \in 1..Len(items) : items[j] = ItemOf(k)
  BY <1>2, ItemsFacts
<1>4. Covers(pages, items)
  <2>1. items \in Seq(Item) /\ pages = PagesOf(items)
    BY <1>2, <1>3
  <2> QED
    BY <2>1, PagesFacts
<1>5. ASSUME NEW p \in 1..Len(pages), NEW i \in 1..Len(pages[p]), pages[p][i].row \in SoleRows
      PROVE  Content(pages[p][i]) = Replayed(head.seq)[pages[p][i].row]
  <2>0. PICK j \in 1..Len(items) : pages[p][i] = items[j]
    BY <1>4 DEF Covers
  <2>1. PICK k \in HeldKeys : pages[p][i] = ItemOf(k)
    BY <1>3, <2>0
  <2>2. k \in Keys /\ stateRecords[k] # NoRecord /\ pages[p][i].row = RowOf[k]
    BY <2>1 DEF HeldKeys, ItemOf
  <2>3. Content(pages[p][i]) = Content(stateRecords[k])
    BY <2>1 DEF Content, ItemOf
  <2> QED
    BY <1>5, <2>2, <2>3, ReplayedOfKey
<1>6. ASSUME NEW r \in SoleRows, Replayed(head.seq)[r] # Absent
      PROVE  Read(pages, Len(pages), r)
  <2>1. PICK k \in HeldKeys : RowOf[k] = r
    BY <1>6, ShownIsHeld DEF SoleRows
  <2>0. PICK j \in 1..Len(items) : items[j] = ItemOf(k)
    BY <1>3
  <2>1a. PICK p \in 1..Len(pages) : \E i \in 1..Len(pages[p]) : pages[p][i] = items[j]
    BY <1>4 DEF Covers
  <2>2. \E i \in 1..Len(pages[p]) : pages[p][i] = ItemOf(k)
    BY <2>0, <2>1a
  <2>3. \E i \in 1..Len(pages[p]) : pages[p][i].row = r
    BY <2>1, <2>2 DEF ItemOf
  <2> QED
    BY <2>3 DEF Read, OnPage
<1> QED
  BY <1>1, <1>4, <1>5, <1>6 DEF Pinned, Covers

-----------------------------------------------------------------------------
\* What projecting a page does to a row.
LEMMA ProjectFacts ==
  ASSUME NEW database \in Contents, NEW page \in Seq(Item)
  PROVE  /\ Project(database, page) \in Contents
         /\ \A r \in TableRows :
              /\ ~ OnPage(page, r) => Project(database, page)[r] = database[r]
              /\ OnPage(page, r) => \E i \in 1..Len(page) :
                   page[i].row = r /\ Project(database, page)[r] = Content(page[i])
<1> DEFINE about(r) == {i \in 1..Len(page) : page[i].row = r}
<1>1. ASSUME NEW r \in TableRows
      PROVE  Project(database, page)[r] =
               IF about(r) = {} THEN database[r] ELSE Content(page[LastOf(about(r))])
  BY DEF Project, LastOf, Content
<1>2. ASSUME NEW r \in TableRows, about(r) # {}
      PROVE  LastOf(about(r)) \in about(r)
  <2>1. PICK T : T = about(r)
    OBVIOUS
  <2>2. T \subseteq 1..Len(page) /\ T # {} /\ Len(page) \in Nat
    BY <1>2, <2>1, LenProperties
  <2>3. \E i \in T : \A j \in T : j <= i
    BY <2>2, LastPosition
  <2>4. LastOf(T) \in T
    BY <2>3 DEF LastOf
  <2> QED
    BY <2>1, <2>4
<1>3. \A i \in 1..Len(page) : Content(page[i]) \in Nat
  <2>1. \A i \in 1..Len(page) : page[i] \in Item
    BY ElementOfSeq
  <2> QED
    BY <2>1 DEF Item, Content, Absent
<1>4. \A r \in TableRows : /\ OnPage(page, r) <=> about(r) # {}
                           /\ database[r] \in Nat
  BY DEF OnPage, Contents
<1>5. \A r \in TableRows : Project(database, page)[r] \in Nat
  BY <1>1, <1>2, <1>3, <1>4
<1>6. Project(database, page) \in Contents
  BY <1>5 DEF Project, Contents
<1> QED
  BY <1>1, <1>2, <1>4, <1>6

\* The next page is projected.
LEMMA ProjectStaged ==
  ASSUME NEW pages \in Seq(Seq(Item)), NEW n \in Nat, n < Len(pages), NEW seq, NEW database,
         Pinned(pages, seq), Staged(database, pages, n, seq)
  PROVE  Staged(Project(database, pages[n + 1]), pages, n + 1, seq)
<1>1. n + 1 \in 1..Len(pages) /\ Len(pages) \in Nat
  BY LenProperties
<1>2. PICK page : page = pages[n + 1]
  OBVIOUS
<1>3. page \in Seq(Item) /\ database \in Contents
  BY <1>1, <1>2, ElementOfSeq DEF Staged
<1>4. PICK after : after = Project(database, page)
  OBVIOUS
<1>5. ASSUME NEW r \in SoleRows
      PROVE  after[r] = IF Read(pages, n + 1, r) THEN Replayed(seq)[r] ELSE Absent
  <2>1. r \in TableRows
    BY DEF SoleRows
  <2>2. Read(pages, n + 1, r) <=> Read(pages, n, r) \/ OnPage(page, r)
    <3>1. \A p \in 1..(n + 1) : p \in 1..n \/ p = n + 1
      OBVIOUS
    <3>2. \A p \in 1..n : p \in 1..(n + 1)
      OBVIOUS
    <3> QED
      BY <1>1, <1>2, <3>1, <3>2 DEF Read
  <2>3. CASE OnPage(page, r)
    <3>1. PICK i \in 1..Len(page) : page[i].row = r /\ after[r] = Content(page[i])
      BY <1>3, <1>4, <2>1, <2>3, ProjectFacts
    <3>2. Content(page[i]) = Replayed(seq)[r]
      BY <1>1, <1>2, <3>1 DEF Pinned
    <3> QED
      BY <2>2, <2>3, <3>1, <3>2
  <2>4. CASE ~ OnPage(page, r)
    <3>1. after[r] = database[r]
      BY <1>3, <1>4, <2>1, <2>4, ProjectFacts
    <3> QED
      BY <2>2, <2>4, <3>1 DEF Staged
  <2> QED
    BY <2>3, <2>4
<1>6. after \in Contents
  BY <1>3, <1>4, ProjectFacts
<1> QED
  BY <1>2, <1>4, <1>5, <1>6 DEF Staged

LEMMA StagedNone ==
  ASSUME NEW pages, NEW seq
  PROVE  Staged(EmptyDatabase, pages, 0, seq)
<1>1. EmptyDatabase \in Contents
  BY DEF EmptyDatabase, Contents, Absent
<1>2. \A r \in SoleRows : EmptyDatabase[r] = Absent /\ ~ Read(pages, 0, r)
  BY DEF EmptyDatabase, SoleRows, Read
<1> QED
  BY <1>1, <1>2 DEF Staged

LEMMA StagedAll ==
  ASSUME NEW pages, NEW seq, NEW database,
         Pinned(pages, seq), Staged(database, pages, Len(pages), seq)
  PROVE  Shows(database, seq)
BY DEF Pinned, Staged, Shows

-----------------------------------------------------------------------------
\* No commit changes what a pinned stream and a staged database are true of.
LEMMA ArchiveGrows ==
  ASSUME IInv, [Next]_vars
  PROVE  /\ Len(journal) \in Nat /\ Len(journal') \in Nat /\ Len(journal) <= Len(journal')
         /\ \A i \in Rows : journal'[i] = journal[i]
<1>1. Len(journal) \in Nat
  BY LenProperties DEF IInv, TypeOK
<1>2. ASSUME NEW b \in Batches, NEW cp, Commit(b, cp)
      PROVE  /\ Len(journal') \in Nat /\ Len(journal) <= Len(journal')
             /\ \A i \in Rows : journal'[i] = journal[i]
  <2>1. journal \in Seq(Row) /\ journal' = journal \o JournalRows(b) /\ Len(b.muts) \in Nat
    BY <1>2, BatchFacts DEF IInv, TypeOK, Commit
  <2>2. /\ Len(journal') = Len(journal) + Len(b.muts)
        /\ \A i \in Rows : journal'[i] = journal[i]
    BY <2>1, JournalGrows
  <2>3. Len(journal') \in Nat /\ Len(journal) <= Len(journal')
    BY <1>1, <2>1, <2>2
  <2> QED
    BY <2>2, <2>3
<1>3. ASSUME UNCHANGED journal
      PROVE  /\ Len(journal') \in Nat /\ Len(journal) <= Len(journal')
             /\ \A i \in Rows : journal'[i] = journal[i]
  BY <1>1, <1>3
<1> QED
  BY <1>1, <1>2, <1>3 DEF Next, AdmitClient, CompactJournal, vars

LEMMA TruthStays ==
  ASSUME IInv, [Next]_vars, NEW database, NEW pages, NEW n, NEW seq
  PROVE  /\ Shows(database, seq) => Shows(database, seq)'
         /\ Pinned(pages, seq) => Pinned(pages, seq)'
         /\ Pinned(pages, seq) /\ Staged(database, pages, n, seq) => Staged(database, pages, n, seq)'
<1>1. /\ Len(journal) \in Nat /\ Len(journal') \in Nat /\ Len(journal) <= Len(journal')
      /\ \A i \in Rows : journal'[i] = journal[i]
  BY ArchiveGrows
<1>2. ASSUME seq \in 0..Len(journal)
      PROVE  seq \in 0..Len(journal') /\ Replayed(seq)' = Replayed(seq)
  BY <1>1, <1>2, ReplayedStays
<1> QED
  BY <1>2 DEF Shows, Pinned, Staged

LEMMA ActiveStays ==
  ASSUME IInv, [Next]_vars, ActiveShows, pointer' = pointer, begun \subseteq begun',
         pointer # NoPointer => databases'[pointer.gen] = databases[pointer.gen]
  PROVE  ActiveShows'
<1> SUFFICES ASSUME pointer # NoPointer
             PROVE  pointer.gen \in begun' /\ Shows(databases[pointer.gen], pointer.target.seq)'
  BY DEF ActiveShows
<1>1. PICK database, seq : database = databases[pointer.gen] /\ seq = pointer.target.seq
  OBVIOUS
<1>2. pointer.gen \in begun /\ Shows(database, seq)
  BY <1>1 DEF ActiveShows
<1>3. Shows(database, seq)'
  BY <1>2, TruthStays
<1>4. database = databases'[pointer'.gen] /\ seq = pointer'.target.seq
  BY <1>1
<1> QED
  BY <1>2, <1>3, <1>4 DEF Shows

\* What a load has staged stays true of its stream too.
LEMMA LoadStays ==
  ASSUME IInv, [Next]_vars, NEW t \in Tabs, TabInv(t), UNCHANGED <<tabVars, storageVars>>
  PROVE  TabInv(t)'
<1>1. PICK database, pages, n, seq :
        /\ database = databases[gen[t]] /\ pages = stream[t].pages
        /\ n = position[t] /\ seq = stream[t].target.seq
  OBVIOUS
<1>2. /\ database = databases'[gen'[t]] /\ pages = stream'[t].pages
      /\ n = position'[t] /\ seq = stream'[t].target.seq
      /\ pc'[t] = pc[t]
  BY <1>1 DEF tabVars, storageVars
<1>3. /\ At(t, "deleting")' => leftover'[t] \in Generations /\ NotActive(leftover[t])'
      /\ pc'[t] \in {"reconcile", "paging", "verified"} => gen'[t] \in begun' /\ NotActive(gen[t])'
      /\ At(t, "activated")' => gen'[t] \in Generations
  BY DEF TabInv, tabVars, storageVars, At, NotActive
<1>4. ASSUME At(t, "paging")'
      PROVE  n <= Len(pages) /\ Pinned(pages, seq)' /\ Staged(database, pages, n, seq)'
  <2>1. n <= Len(pages) /\ Pinned(pages, seq) /\ Staged(database, pages, n, seq)
    BY <1>1, <1>2, <1>4 DEF TabInv, At
  <2> QED
    BY <2>1, TruthStays
<1>5. ASSUME At(t, "verified")' PROVE Shows(database, seq)'
  <2>1. Shows(database, seq)
    BY <1>1, <1>2, <1>5 DEF TabInv, At
  <2> QED
    BY <2>1, TruthStays
<1>6. At(t, "paging")' =>
        /\ position'[t] <= Len(stream'[t].pages)
        /\ Pinned(stream[t].pages, stream[t].target.seq)'
        /\ Staged(databases[gen[t]], stream[t].pages, position[t], stream[t].target.seq)'
  BY <1>2, <1>4 DEF Pinned, Staged
<1>7. At(t, "verified")' => Shows(databases[gen[t]], stream[t].target.seq)'
  BY <1>2, <1>5 DEF Shows
<1> QED
  BY <1>3, <1>6, <1>7 DEF TabInv

LEMMA ArchiveStep ==
  ASSUME IInv, RebuildIInv, [Next]_vars, UNCHANGED <<tabVars, storageVars>>
  PROVE  RebuildIInv'
<1>1. RebuildTypeOK'
  BY DEF RebuildIInv, RebuildTypeOK, tabVars, storageVars
<1>2. ActiveShows'
  BY ActiveStays DEF RebuildIInv, storageVars
<1>3. \A t \in Tabs : TabInv(t)'
  BY LoadStays DEF RebuildIInv
<1> QED
  BY <1>1, <1>2, <1>3 DEF RebuildIInv

-----------------------------------------------------------------------------
\* The steps of a load, while no other tab loads.
LEMMA RecoverStep ==
  ASSUME IInv, RebuildIInv, OneTab, NEW t \in Tabs, Recover(t)
  PROVE  RebuildIInv'
<1> USE DEF Recover, At, Goto
<1>1. RebuildTypeOK'
  BY DEF RebuildIInv, RebuildTypeOK, Places
<1>2. ActiveShows'
  BY ActiveStays DEF RebuildIInv
<1>3. TabInv(t)'
  BY DEF RebuildIInv, RebuildTypeOK, TabInv, NotActive
<1> QED
  BY <1>1, <1>2, <1>3 DEF RebuildIInv, OneTab

LEMMA DeleteStep ==
  ASSUME IInv, RebuildIInv, OneTab, NEW t \in Tabs, DeleteLeftover(t)
  PROVE  RebuildIInv'
<1> USE DEF DeleteLeftover, At, Goto
<1>1. RebuildTypeOK'
  BY DEF RebuildIInv, RebuildTypeOK, Places
<1>2. ActiveShows'
  <2>1. leftover[t] \in Generations /\ NotActive(leftover[t])
    BY DEF RebuildIInv, TabInv
  <2>2. pointer # NoPointer => databases'[pointer.gen] = databases[pointer.gen]
    BY <2>1 DEF NotActive, ActiveShows, RebuildIInv, RebuildTypeOK
  <2> QED
    BY <2>2, ActiveStays DEF RebuildIInv
<1>3. TabInv(t)'
  BY DEF RebuildIInv, RebuildTypeOK, TabInv
<1> QED
  BY <1>1, <1>2, <1>3 DEF RebuildIInv, OneTab

LEMMA QuietStep ==
  ASSUME IInv, RebuildIInv, OneTab, NEW t \in Tabs,
         DeleteLeftoverFails(t) \/ KeepActive(t) \/ ClearJournal(t)
  PROVE  RebuildIInv'
<1> USE DEF DeleteLeftoverFails, KeepActive, ClearJournal, At, Goto
<1>1. RebuildTypeOK'
  BY DEF RebuildIInv, RebuildTypeOK, Places, storageVars
<1>2. ActiveShows'
  BY ActiveStays DEF RebuildIInv, storageVars
<1>3. TabInv(t)'
  BY DEF RebuildIInv, RebuildTypeOK, TabInv
<1> QED
  BY <1>1, <1>2, <1>3 DEF RebuildIInv, OneTab

\* A new generation is not the active one, which has been begun before.
LEMMA BeginStep ==
  ASSUME IInv, RebuildIInv, OneTab, NEW t \in Tabs, Begin(t)
  PROVE  RebuildIInv'
<1> USE DEF Begin, At, Goto
<1>1. RebuildTypeOK'
  BY DEF RebuildIInv, RebuildTypeOK, Places
<1>2. ActiveShows'
  BY ActiveStays DEF RebuildIInv
<1>3. TabInv(t)'
  BY DEF RebuildIInv, RebuildTypeOK, TabInv, NotActive, ActiveShows
<1> QED
  BY <1>1, <1>2, <1>3 DEF RebuildIInv, OneTab

LEMMA PinStep ==
  ASSUME IInv, RebuildIInv, OneTab, NEW t \in Tabs, PinStream(t)
  PROVE  RebuildIInv'
<1> USE DEF At, Goto
<1>1. PICK pages : pages = PagesOf(Items)
  OBVIOUS
<1>2. /\ pages \in Seq(Seq(Item)) /\ Pinned(pages, head.seq) /\ head \in Boundary
      /\ Len(pages) \in Nat /\ gen[t] \in Generations /\ gen[t] \in begun /\ NotActive(gen[t])
  BY <1>1, PinnedAtHead, LenProperties DEF IInv, TypeOK, RebuildIInv, RebuildTypeOK, TabInv, PinStream
<1>3. /\ stream' = [stream EXCEPT ![t] = [pages |-> pages, target |-> head]]
      /\ position' = [position EXCEPT ![t] = 0]
      /\ databases' = [databases EXCEPT ![gen[t]] = EmptyDatabase]
      /\ pc' = [pc EXCEPT ![t] = "paging"]
      /\ UNCHANGED <<gen, leftover, hashed, pointer, genJournal, begun, vars>>
  BY <1>1 DEF PinStream, PagesOf
<1>4. EmptyDatabase \in Contents /\ Staged(EmptyDatabase, pages, 0, head.seq)
  BY StagedNone DEF Staged
<1>5. RebuildTypeOK'
  BY <1>2, <1>3, <1>4 DEF RebuildIInv, RebuildTypeOK, Places
<1>6. ActiveShows'
  <2>1. pointer # NoPointer => databases'[pointer.gen] = databases[pointer.gen]
    BY <1>2, <1>3 DEF NotActive, ActiveShows, RebuildIInv, RebuildTypeOK
  <2> QED
    BY <1>3, <2>1, ActiveStays DEF RebuildIInv
<1>7. TabInv(t)'
  <2>1. PICK seq, database : seq = head.seq /\ database = EmptyDatabase
    OBVIOUS
  <2>2. Pinned(pages, seq)' /\ Staged(database, pages, 0, seq)'
    BY <1>2, <1>3, <1>4, <2>1, TruthStays
  <2>3. /\ pages = stream'[t].pages /\ seq = stream'[t].target.seq
        /\ database = databases'[gen'[t]] /\ position'[t] = 0
    BY <1>2, <1>3, <2>1 DEF RebuildIInv, RebuildTypeOK
  <2>4. /\ pc'[t] = "paging" /\ gen'[t] \in begun' /\ NotActive(gen[t])'
        /\ position'[t] <= Len(stream'[t].pages)
    BY <1>2, <1>3, <2>3 DEF RebuildIInv, RebuildTypeOK, NotActive
  <2>5. /\ Pinned(stream[t].pages, stream[t].target.seq)'
        /\ Staged(databases[gen[t]], stream[t].pages, position[t], stream[t].target.seq)'
    BY <2>2, <2>3 DEF Pinned, Staged
  <2> QED
    BY <2>4, <2>5 DEF TabInv
<1> QED
  BY <1>5, <1>6, <1>7 DEF RebuildIInv, OneTab

LEMMA ProjectStep ==
  ASSUME IInv, RebuildIInv, OneTab, NEW t \in Tabs, ProjectPage(t)
  PROVE  RebuildIInv'
<1> USE DEF At
<1>1. PICK pages, n, seq, database :
        /\ pages = stream[t].pages /\ n = position[t] /\ seq = stream[t].target.seq
        /\ database = databases[gen[t]]
  OBVIOUS
<1>2. /\ n \in Nat /\ n < Len(pages) /\ pages \in Seq(Seq(Item)) /\ Len(pages) \in Nat
      /\ Pinned(pages, seq) /\ Staged(database, pages, n, seq)
      /\ gen[t] \in Generations /\ gen[t] \in begun /\ NotActive(gen[t])
  BY <1>1, LenProperties DEF RebuildIInv, RebuildTypeOK, TabInv, ProjectPage
<1>3. PICK after : after = Project(database, pages[n + 1])
  OBVIOUS
<1>4. Staged(after, pages, n + 1, seq) /\ after \in Contents
  BY <1>2, <1>3, ProjectStaged DEF Staged
<1>5. /\ databases' = [databases EXCEPT ![gen[t]] = after]
      /\ position' = [position EXCEPT ![t] = n + 1]
      /\ UNCHANGED <<pc, gen, leftover, stream, hashed, pointer, genJournal, begun, vars>>
  BY <1>1, <1>3 DEF ProjectPage, PinnedPage, RebuildIInv, RebuildTypeOK
<1>6. RebuildTypeOK'
  BY <1>2, <1>4, <1>5 DEF RebuildIInv, RebuildTypeOK
<1>7. ActiveShows'
  <2>1. pointer # NoPointer => databases'[pointer.gen] = databases[pointer.gen]
    BY <1>2, <1>5 DEF NotActive, ActiveShows, RebuildIInv, RebuildTypeOK
  <2> QED
    BY <1>5, <2>1, ActiveStays DEF RebuildIInv
<1>8. TabInv(t)'
  <2>1. PICK m \in Nat : m = n + 1 /\ m <= Len(pages)
    BY <1>2
  <2>2. Pinned(pages, seq)' /\ Staged(after, pages, m, seq)'
    BY <1>2, <1>4, <1>5, <2>1, TruthStays
  <2>3. /\ pages = stream'[t].pages /\ seq = stream'[t].target.seq
        /\ after = databases'[gen'[t]] /\ position'[t] = m
    BY <1>1, <1>2, <1>5, <2>1 DEF RebuildIInv, RebuildTypeOK
  <2>4. /\ pc'[t] = "paging" /\ gen'[t] \in begun' /\ NotActive(gen[t])'
        /\ position'[t] <= Len(stream'[t].pages)
    BY <1>2, <1>5, <2>1, <2>3 DEF NotActive, ProjectPage
  <2>5. /\ Pinned(stream[t].pages, stream[t].target.seq)'
        /\ Staged(databases[gen[t]], stream[t].pages, position[t], stream[t].target.seq)'
    BY <2>2, <2>3 DEF Pinned, Staged
  <2> QED
    BY <2>4, <2>5 DEF TabInv
<1> QED
  BY <1>6, <1>7, <1>8 DEF RebuildIInv, OneTab

LEMMA VerifyStep ==
  ASSUME IInv, RebuildIInv, OneTab, NEW t \in Tabs, Verify(t)
  PROVE  RebuildIInv'
<1> USE DEF Verify, At, Goto
<1>1. RebuildTypeOK'
  BY DEF RebuildIInv, RebuildTypeOK, Places, storageVars
<1>2. ActiveShows'
  BY ActiveStays DEF RebuildIInv, storageVars
<1>3. Shows(databases[gen[t]], stream[t].target.seq)
  BY StagedAll DEF RebuildIInv, TabInv
<1>4. /\ pc'[t] = "verified" /\ gen'[t] \in begun' /\ NotActive(gen[t])'
      /\ databases'[gen'[t]] = databases[gen[t]] /\ stream'[t].target.seq = stream[t].target.seq
  BY DEF RebuildIInv, RebuildTypeOK, TabInv, NotActive, storageVars
<1>5. Shows(databases[gen[t]], stream[t].target.seq)'
  <2>1. PICK database, seq : database = databases[gen[t]] /\ seq = stream[t].target.seq
    OBVIOUS
  <2>2. Shows(database, seq)'
    BY <1>3, <2>1, TruthStays
  <2> QED
    BY <1>4, <2>1, <2>2 DEF Shows
<1>6. TabInv(t)'
  BY <1>4, <1>5 DEF TabInv
<1> QED
  BY <1>1, <1>2, <1>6 DEF RebuildIInv, OneTab

LEMMA ActivateStep ==
  ASSUME IInv, RebuildIInv, OneTab, NEW t \in Tabs, Activate(t)
  PROVE  RebuildIInv'
<1> USE DEF Activate, At, Goto
<1>1. RebuildTypeOK'
  BY DEF RebuildIInv, RebuildTypeOK, Places
<1>2. PICK database, seq : database = databases[gen[t]] /\ seq = stream[t].target.seq
  OBVIOUS
<1>3. gen[t] \in begun /\ gen[t] \in Generations /\ Shows(database, seq)
  BY <1>2 DEF RebuildIInv, RebuildTypeOK, TabInv
<1>4. Shows(database, seq)'
  BY <1>3, TruthStays
<1>5. /\ pointer'.gen \in begun' /\ database = databases'[pointer'.gen]
      /\ seq = pointer'.target.seq
  BY <1>2, <1>3
<1>6. ActiveShows'
  BY <1>4, <1>5 DEF ActiveShows, Shows
<1>7. TabInv(t)'
  BY <1>3 DEF RebuildIInv, RebuildTypeOK, TabInv
<1> QED
  BY <1>1, <1>6, <1>7 DEF RebuildIInv, OneTab

LEMMA FailStep ==
  ASSUME IInv, RebuildIInv, OneTab, NEW t \in Tabs, Fail(t)
  PROVE  RebuildIInv'
<1> USE DEF Fail, At, Goto
<1>1. gen[t] \in Generations /\ (pc[t] # "activated" => NotActive(gen[t]))
  BY DEF RebuildIInv, RebuildTypeOK, TabInv
<1>2. \/ databases' = databases
      \/ pc[t] # "activated" /\ databases' = [databases EXCEPT ![gen[t]] = NoDatabase]
  OBVIOUS
<1>3. RebuildTypeOK'
  BY <1>1, <1>2 DEF RebuildIInv, RebuildTypeOK, Places
<1>4. ActiveShows'
  <2>1. pointer # NoPointer => databases'[pointer.gen] = databases[pointer.gen]
    BY <1>1, <1>2 DEF NotActive, ActiveShows, RebuildIInv, RebuildTypeOK
  <2> QED
    BY <2>1, ActiveStays DEF RebuildIInv
<1>5. TabInv(t)'
  BY DEF RebuildIInv, RebuildTypeOK, TabInv
<1> QED
  BY <1>3, <1>4, <1>5 DEF RebuildIInv, OneTab

LEMMA CloseStep ==
  ASSUME IInv, RebuildIInv, OneTab, NEW t \in Tabs, Close(t)
  PROVE  RebuildIInv'
<1> USE DEF Close, At, Goto
<1>1. NoStream \in [pages : Seq(Seq(Item)), target : Boundary]
  BY EmptySeq DEF NoStream, Boundary, ChainHash
<1>2. RebuildTypeOK'
  BY <1>1 DEF RebuildIInv, RebuildTypeOK, Places, storageVars
<1>3. ActiveShows'
  BY ActiveStays DEF RebuildIInv, storageVars
<1>4. TabInv(t)'
  BY DEF RebuildIInv, RebuildTypeOK, TabInv
<1> QED
  BY <1>2, <1>3, <1>4 DEF RebuildIInv, OneTab

-----------------------------------------------------------------------------
LEMMA InitRebuildIInv == RebuildInit => IInv /\ RebuildIInv
<1> SUFFICES ASSUME RebuildInit PROVE IInv /\ RebuildIInv
  OBVIOUS
<1>1. IInv
  BY InitIInv DEF RebuildInit
<1>2. NoStream \in [pages : Seq(Seq(Item)), target : Boundary]
  BY EmptySeq DEF NoStream, Boundary, ChainHash
<1>3. RebuildTypeOK
  BY <1>2 DEF RebuildInit, RebuildTypeOK, Places
<1>4. ActiveShows /\ \A t \in Tabs : TabInv(t)
  BY DEF RebuildInit, ActiveShows, TabInv, At
<1> QED
  BY <1>1, <1>3, <1>4 DEF RebuildIInv

LEMMA NextRebuildIInv ==
  OneTab /\ IInv /\ RebuildIInv /\ [RebuildNext]_rebuildVars => IInv' /\ RebuildIInv'
<1> SUFFICES ASSUME OneTab, IInv, RebuildIInv, [RebuildNext]_rebuildVars
             PROVE  IInv' /\ RebuildIInv'
  OBVIOUS
<1>1. CASE Pair \/ \E b \in Batches : CommitBatch(b)
  <2>1. Next /\ UNCHANGED <<tabVars, storageVars>>
    BY <1>1 DEF Pair, CommitBatch, Next
  <2> QED
    BY <2>1, NextIInv, ArchiveStep
<1>2. CASE UNCHANGED rebuildVars
  <2>1. UNCHANGED vars /\ UNCHANGED <<tabVars, storageVars>>
    BY <1>2 DEF rebuildVars
  <2> QED
    BY <2>1, NextIInv, ArchiveStep
<1>3. ASSUME NEW t \in Tabs, LoadStep(t) \/ Close(t) PROVE IInv' /\ RebuildIInv'
  <2>1. UNCHANGED vars
    BY <1>3 DEF LoadStep, Recover, DeleteLeftover, DeleteLeftoverFails, KeepActive, Begin,
      PinStream, ProjectPage, Verify, Activate, ClearJournal, Fail, Close
  <2>2. IInv'
    BY <2>1, NextIInv
  <2>3. RebuildIInv'
    BY <1>3, RecoverStep, DeleteStep, QuietStep, BeginStep, PinStep, ProjectStep, VerifyStep,
      ActivateStep, FailStep, CloseStep DEF LoadStep
  <2> QED
    BY <2>2, <2>3
<1> QED
  BY <1>1, <1>2, <1>3 DEF RebuildNext

\* With one tab, a rebuilt cache is never active without showing what the archive held
\* when it was pinned, row by row, for every row that is about one state key.
THEOREM ActiveIsExact ==
  ASSUME OneTab
  PROVE  RebuildSpec => []ActiveShows
<1>1. RebuildInit => IInv /\ RebuildIInv
  BY InitRebuildIInv
<1>2. (IInv /\ RebuildIInv) /\ [RebuildNext]_rebuildVars => (IInv /\ RebuildIInv)'
  BY NextRebuildIInv
<1>3. IInv /\ RebuildIInv => ActiveShows
  BY DEF RebuildIInv
<1> QED
  BY <1>1, <1>2, <1>3, PTL DEF RebuildSpec

\* Where every key has a row of its own, the active database is the journal up to the
\* pointer's target, whatever was committed, failed or closed while it was staged.
THEOREM ActiveIsHistory ==
  ASSUME OneTab, SoleRows = TableRows
  PROVE  RebuildSpec => []ActiveShowsHistory
<1>1. ActiveShows => ActiveShowsHistory
  <2> SUFFICES ASSUME ActiveShows, pointer # NoPointer
               PROVE  databases[pointer.gen] = Replayed(pointer.target.seq)
    BY DEF ActiveShowsHistory
  <2> QED
    BY DEF ActiveShows, Shows, Contents, Replayed
<1> QED
  BY <1>1, ActiveIsExact, PTL
=============================================================================

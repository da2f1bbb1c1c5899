--------------------------- MODULE GenerationRebuild ---------------------------
(***************************************************************************)
(* How a page gets its cache from the canonical archive at load            *)
(* (ensureCanonicalArchiveProjection, generation.ts): the companion pins   *)
(* the current state as a stream of pages (store.reconcile), the page      *)
(* projects them into a database of a new generation, and the pointer in   *)
(* the userscript's storage is switched to it.  A generation journal lets  *)
(* the next load clean up after one that was interrupted.  Pointer and     *)
(* journal are shared by the tabs; batches are committed meanwhile.        *)
(*                                                                         *)
(* Writes of the running capture modules to the active database are left   *)
(* out: each comes with a commit, or with a pending row, after which the   *)
(* next load rebuilds.                                                     *)
(***************************************************************************)
EXTENDS CanonicalArchive

CONSTANTS
  Tabs,
  Generations,    \* generation ids, each with the name of its database
  PageSize,       \* page_hint
  Rank,           \* the order of the state keys as strings
  TableRows,      \* rows of the projection: tweets, users, captures, edges
  RowOf,          \* the row that a mutation of each state key is about
  NoPointer, NoJournal, NoDatabase

\* state_key is the primary key of state_records; page_hint is at least 1.
ASSUME PagesAssumption ==
  /\ PageSize \in Nat \ {0}
  /\ IsFiniteSet(Keys)
  /\ Rank \in [Keys -> Nat]
  /\ \A k, l \in Keys : Rank[k] = Rank[l] => k = l
  /\ RowOf \in [Keys -> TableRows]

VARIABLES
  pc,         \* the await each tab's load is at
  gen,        \* the generation it stages
  leftover,   \* the generation it found in the journal
  stream,     \* the pinned stream it reads: pages and target checkpoint
  position,   \* how many pages of it are projected
  hashed,     \* the content of the staged database when it was hashed
  pointer,    \* the active generation with its target checkpoint and content hash
  genJournal, \* the generation named by the generation journal
  databases,  \* the content of every generation's database
  begun       \* generations that have been begun: ids are random and never reused

tabVars == <<pc, gen, leftover, stream, position, hashed>>
storageVars == <<pointer, genJournal, databases, begun>>
rebuildVars == <<tabVars, storageVars, vars>>

-----------------------------------------------------------------------------
\* _bootstrap_items: what state_records holds, in the order of the state keys.
HeldKeys == {k \in Keys : stateRecords[k] # NoRecord}

Items ==
  LET order == CHOOSE s \in [1..Cardinality(HeldKeys) -> HeldKeys] :
                 \A i, j \in DOMAIN s : i < j => Rank[s[i]] < Rank[s[j]]
  IN  [i \in DOMAIN order |->
         [row |-> RowOf[order[i]], kind |-> stateRecords[order[i]].kind,
          seq |-> stateRecords[order[i]].seq]]

\* _page_specs: pages of PageSize items; an empty archive has one empty page.
PageCount(items) ==
  IF items = <<>> THEN 1 ELSE (Len(items) + PageSize - 1) \div PageSize

Page(items, i) ==
  SubSeq(items, (i - 1) * PageSize + 1,
         IF i * PageSize < Len(items) THEN i * PageSize ELSE Len(items))

NoStream == [pages |-> <<>>, target |-> [seq |-> 0, chain |-> <<>>]]

Absent == 0

EmptyDatabase == [r \in TableRows |-> Absent]

\* projectItems and applyGenerationProjection: within a page and from page to page,
\* the last item about a row decides.  A row's content is the archive sequence of the
\* mutation it shows.
Project(database, page) ==
  [r \in TableRows |->
     LET about == {i \in 1..Len(page) : page[i].row = r}
         last == CHOOSE i \in about : \A j \in about : j <= i
     IN  IF about = {} THEN database[r]
         ELSE IF page[last].kind = "upsert" THEN page[last].seq ELSE Absent]

At(t, place) == pc[t] = place

Goto(t, place) == pc' = [pc EXCEPT ![t] = place]

-----------------------------------------------------------------------------
RebuildInit ==
  /\ pc = [t \in Tabs |-> "closed"]
  /\ gen = [t \in Tabs |-> NoJournal]
  /\ leftover = [t \in Tabs |-> NoJournal]
  /\ stream = [t \in Tabs |-> NoStream]
  /\ position = [t \in Tabs |-> 0]
  /\ hashed = [t \in Tabs |-> EmptyDatabase]
  /\ pointer = NoPointer
  /\ genJournal = NoJournal
  /\ databases = [g \in Generations |-> NoDatabase]
  /\ begun = {}
  /\ Init

Pair ==
  /\ \E c \in Clients : AdmitClient(c)
  /\ UNCHANGED <<tabVars, storageVars>>

\* A batch of a browser arrives at the companion, from any tab.
CommitBatch(b) ==
  /\ Commit(b, NoCheckpoint)
  /\ UNCHANGED <<tabVars, storageVars>>

\* recoverInterruptedGeneration(): a journal of the active generation is cleared, one
\* of another generation has its database deleted first.
Recover(t) ==
  /\ At(t, "closed")
  /\ IF genJournal # NoJournal /\ (pointer = NoPointer \/ pointer.gen # genJournal)
     THEN /\ leftover' = [leftover EXCEPT ![t] = genJournal]
          /\ Goto(t, "deleting")
          /\ UNCHANGED genJournal
     ELSE /\ genJournal' = NoJournal
          /\ Goto(t, "check")
          /\ UNCHANGED leftover
  /\ UNCHANGED <<gen, stream, position, hashed, pointer, databases, begun, vars>>

\* The database is gone after an await; then the journal, whatever it names now.
DeleteLeftover(t) ==
  /\ At(t, "deleting")
  /\ databases' = [databases EXCEPT ![leftover[t]] = NoDatabase]
  /\ genJournal' = NoJournal
  /\ leftover' = [leftover EXCEPT ![t] = NoJournal]
  /\ Goto(t, "check")
  /\ UNCHANGED <<gen, stream, position, hashed, pointer, begun, vars>>

\* The deletion fails: the journal keeps the name and the load is deferred.
DeleteLeftoverFails(t) ==
  /\ At(t, "deleting")
  /\ leftover' = [leftover EXCEPT ![t] = NoJournal]
  /\ Goto(t, "loaded")
  /\ UNCHANGED <<gen, stream, position, hashed, storageVars, vars>>

\* The active generation is kept when its database holds what was verified and the
\* archive has not moved on.
Current ==
  /\ pointer # NoPointer
  /\ databases[pointer.gen] = pointer.content
  /\ pointer.target = head

KeepActive(t) ==
  /\ At(t, "check")
  /\ Current
  /\ Goto(t, "loaded")
  /\ UNCHANGED <<gen, leftover, stream, position, hashed, storageVars, vars>>

\* rebuildCanonicalGeneration(): the journal names a new generation.  An unreachable
\* companion or an unreadable database counts as not current.
Begin(t) ==
  /\ At(t, "check")
  /\ \E g \in Generations \ begun :
       /\ gen' = [gen EXCEPT ![t] = g]
       /\ genJournal' = g
       /\ begun' = begun \union {g}
  /\ Goto(t, "reconcile")
  /\ UNCHANGED <<leftover, stream, position, hashed, pointer, databases, vars>>

\* reconcile(): pages and target checkpoint are pinned in one transaction; the new
\* database is opened.
PinStream(t) ==
  /\ At(t, "reconcile")
  /\ stream' = [stream EXCEPT ![t] =
                  [pages |-> [i \in 1..PageCount(Items) |-> Page(Items, i)], target |-> head]]
  /\ position' = [position EXCEPT ![t] = 0]
  /\ databases' = [databases EXCEPT ![gen[t]] = EmptyDatabase]
  /\ Goto(t, "paging")
  /\ UNCHANGED <<gen, leftover, hashed, pointer, genJournal, begun, vars>>

\* A variant that reads a page of the state as it is when the page is asked for.
CurrentPage(t) == Page(Items, position[t] + 1)

\* reconciliation_page(): one of the pages stored with the stream.
PinnedPage(t) == stream[t].pages[position[t] + 1]

ProjectPage(t) ==
  /\ At(t, "paging")
  /\ position[t] < Len(stream[t].pages)
  /\ databases[gen[t]] # NoDatabase
  /\ databases' = [databases EXCEPT ![gen[t]] = Project(@, PinnedPage(t))]
  /\ position' = [position EXCEPT ![t] = @ + 1]
  /\ UNCHANGED <<pc, gen, leftover, stream, hashed, pointer, genJournal, begun, vars>>

\* The stream has been read and verified, and the staged database counted and hashed.
Verify(t) ==
  /\ At(t, "paging")
  /\ position[t] = Len(stream[t].pages)
  /\ databases[gen[t]] # NoDatabase
  /\ hashed' = [hashed EXCEPT ![t] = databases[gen[t]]]
  /\ Goto(t, "verified")
  /\ UNCHANGED <<gen, leftover, stream, position, storageVars, vars>>

\* The pointer is written; the content is what was hashed before.
Activate(t) ==
  /\ At(t, "verified")
  /\ pointer' = [gen |-> gen[t], target |-> stream[t].target, content |-> hashed[t]]
  /\ Goto(t, "activated")
  /\ UNCHANGED <<gen, leftover, stream, position, hashed, genJournal, databases, begun, vars>>

ClearJournal(t) ==
  /\ At(t, "activated")
  /\ genJournal' = NoJournal
  /\ Goto(t, "loaded")
  /\ UNCHANGED <<gen, leftover, stream, position, hashed, pointer, databases, begun, vars>>

\* The companion, a page's proof, the database or the userscript's storage fails: the
\* staged database is deleted if it is not active and can be, and the journal names it
\* for the next load.
Fail(t) ==
  /\ pc[t] \in {"reconcile", "paging", "verified", "activated"}
  /\ databases' \in {databases} \union
       (IF At(t, "activated") THEN {} ELSE {[databases EXCEPT ![gen[t]] = NoDatabase]})
  /\ genJournal' = gen[t]
  /\ Goto(t, "loaded")
  /\ UNCHANGED <<gen, leftover, stream, position, hashed, pointer, begun, vars>>

\* The page is reloaded or closed, at any point.
Close(t) ==
  /\ ~ At(t, "closed")
  /\ Goto(t, "closed")
  /\ gen' = [gen EXCEPT ![t] = NoJournal]
  /\ leftover' = [leftover EXCEPT ![t] = NoJournal]
  /\ stream' = [stream EXCEPT ![t] = NoStream]
  /\ position' = [position EXCEPT ![t] = 0]
  /\ hashed' = [hashed EXCEPT ![t] = EmptyDatabase]
  /\ UNCHANGED <<storageVars, vars>>

LoadStep(t) ==
  \/ Recover(t) \/ DeleteLeftover(t) \/ DeleteLeftoverFails(t) \/ KeepActive(t) \/ Begin(t)
  \/ PinStream(t) \/ ProjectPage(t) \/ Verify(t) \/ Activate(t) \/ ClearJournal(t) \/ Fail(t)

RebuildNext ==
  \/ Pair
  \/ \E b \in Batches : CommitBatch(b)
  \/ \E t \in Tabs : LoadStep(t) \/ Close(t)

RebuildSpec == RebuildInit /\ [][RebuildNext]_rebuildVars

-----------------------------------------------------------------------------
\* The last mutation about a row in the journal up to an archive sequence.
LastAbout(r, seq) ==
  LET about == {i \in 1..seq : RowOf[journal[i].key] = r}
  IN  IF about = {} THEN Absent ELSE CHOOSE i \in about : \A j \in about : j <= i

Replayed(seq) ==
  [r \in TableRows |->
     LET i == LastAbout(r, seq)
     IN  IF i = Absent \/ journal[i].kind = "tombstone" THEN Absent ELSE i]

\* "An isolated, hash-verified staging projection built from a pinned companion
\* reconciliation stream" that replaces the active cache (CONTEXT.md, Rehydration
\* generation): the active database exists and shows exactly the journal up to the
\* pointer's target checkpoint, whatever was committed while it was staged.
ActiveShowsHistory ==
  pointer # NoPointer => databases[pointer.gen] = Replayed(pointer.target.seq)

=============================================================================

# Verification of Scrollmark

Scrollmark is a userscript that captures what a browser sees of X and keeps it
in IndexedDB, with an optional *companion*: a local HTTP process that holds the
canonical archive in SQLite. This directory holds TLA+ models of the two things
that can go wrong unseen: that data is lost or changed on the way from a captured
record in a tab to the companion's journal and back, and that a page captures,
finds, shows or exports something else than it says: the hooks on the page's
requests, the folder a bookmark is filed under, the tables, the search, the
exports and bundles, and the check that notices an emptied browser.

## The system

```
 tab: capture modules -> database proxy -> DurabilityCoordinator.route()
                                              |        |
                              (shared by tabs) |        | HTTP, timeouts
                                    outbox (IndexedDB)  v
                                                   companion server
 tab at load: main.tsx bootstrap()                      |
   - bootstrap migration  ---- commits ---------------> CanonicalArchiveStore
   - generation rebuild   <--- reconciliation pages --- (SQLite, one lock)
        |
   pointer + journals + sentinel (userscript storage, shared by tabs)

 page of X: fetch, XMLHttpRequest -- hooks --> message bridge --> interceptors
                                      |             (modules, bookmark context)
                       watchdog, safe mode, probe
 table: mutation signals -> result source -> windows of rows
        search text -> documents -> worker (corpora) -> ranked rows
```

| Part | State | Operations | Hard behaviour | What makes it correct |
|---|---|---|---|---|
| Canonical archive (`scrollmark_companion/store.py`) | clients, journal, state_records, batches with receipts, checkpoints, archive_state | admit_namespace, admit_client, commit, reconcile, pages, compact_journal | batches sent twice, in the wrong order, with reused identities; tombstones; crash around COMMIT | each mutation journaled once, client and archive sequences contiguous, receipts and chain prove the journal, state is the journal replayed |
| Delivery coordinator (`coordinator.ts`) | next sequence, checkpoint, status per tab | route, initialize, replay, commitExact, acknowledge, quarantine | awaits between reads and writes of shared state, lost answers, late requests, failing storage | an operation that resolved is never lost; sequences are assigned once; FIFO |
| Pending outbox (`outbox.ts`) | rows, metadata, quarantine | admit, usage, listAllPending, acknowledge, quarantinePending, stop | several tabs, check before transaction | rows leave only when committed; the bound holds |
| Companion client (`companion-client.ts`) | none | one exchange with timeout | unknown outcome | no refusal without a reason |
| Companion server (`server.py`) | sessions | dispatch to store, snapshots, destroy guard | threads over one store lock | each request is one transaction |
| Bootstrap migration (`migration.ts`, `main.tsx`) | migration journal | bootstrap, recoverInterruptedMigration | page closed between batches, several tabs loading at once | never presents a partial archive; a verified migration is whole |
| Generation rebuild (`generation.ts`, `generation-state.ts`) | pointer, generation journal, staged databases | ensureCanonicalArchiveProjection, rebuild, recover | commits between pages, two tabs, page closed anywhere | the active database shows one point of the journal |
| Snapshots, destroy guard (`snapshots.py`, `destructive.py`), `recovery.ts` | snapshot directories, challenges | create, verify, restore, rotate, preflight, confirm | restore under concurrent commits, crash in the switch | no acknowledged commit is lost silently |
| Browser safety and recovery gate (`browser-safety.ts`, `inventory.ts`, `browser-recovery-gate.tsx`, `recovery.ts`) | sentinel, inventory of databases, published name | check, acknowledge, clear, retry, restore, destroy | site data dropped at any moment, several tabs, a check closed half-way | a loss the baseline knows of is never presented as an archive |
| Hooks (`extensions/manager.ts`, `runtime-control-plane.ts`) | the page's functions, stored originals, modes, timers | install, uninstall, repair, probe, safe mode | the page's own wrappers, failing installs, foreign realms, options changed in flight | the fetch a hook calls is never a hook; a lost hook comes back |
| Bookmark context (`extensions/manager.ts`, `bookmarks/api.ts`) | active, locked and sticky context, contexts in flight | navigate, click, send, answer, expiry | answers after the user has moved on | an answer is filed where its request belongs |
| Database manager, result sources, tables (`manager.ts`, `result-sources.ts`, `hooks.ts`) | captures, index pages with revisions, counts, a table's window | writes in steps, index build, window loads, scrolling | writes of several tabs against builds and loads in flight | a table at rest shows rows of the database |
| Search (`use-result-set-controller.ts`, `useSearchDocuments`, `search-client.ts`, `search-worker.ts`) | query, documents, corpora, requests in flight | type, load, warm, stream, query, cancel | late, cancelled and failed answers of older queries and corpora | "ready" means the current query over the current documents |
| Identity (`identity.ts`) | pairing, evidence | observe, assess | another account signs in | nothing is admitted for the wrong account |
| Raw-capture spool and monitors (`raw-capture/api.ts`) | spool rows, leader lease, a tab's role | enqueue, flush, prune, refresh, heartbeat, stop | tabs that prune, flush, lead and leave together | no row is lost that was not taken, vouched for or pruned; the tabs agree on one leader |
| Folder source (`result-sources.ts`) | cached rows, checkpoints, index pages | windows, builds, streams | writes between the windows of an export | a stream gives every row once |
| Media source (`result-sources.ts`, `manager.ts`) | cached windows, marks of the search documents | windows, counts, repairs, streams | documents of earlier versions, repairs between windows | a stream gives the rows of one index, each once |
| Interaction mirror (`interaction-events/api.ts`, `dom-tweet-snapshot.ts`) | calls that wait, rows, captures, documents | recognise, add, remove, snapshot | a late or refused call of an older interaction, responses in between | the tables follow the last word about a tweet or user |
| Query language (`search-query.ts`, `advanced-table-search.ts`) | none that outlives a call | parse, group, expand, prune | operators left out, unclosed, negated | a query means what its operators mean |
| Exports (`table/base.tsx`, `export-data.tsx`, `export-media.tsx`, `download.ts`) | selection, one reference per sort of export, download slots | select, export, cancel, retry | cancel and progress that cross | a file that is saved holds the rows that were asked for |
| Bundles (`core/bundles`, `bundle-viewer-panel.tsx`, `companion-bridge.ts`) | library, worker job, viewer's pages | build, import, delete, show | import and deletion while pages load | a page shows rows of the bundle it names |
| Parsers of responses, rendering, scripts | none that outlives a call | pure transformations | | |

## Modules

Delivery and archive:

- `CanonicalArchive`: one namespace of the store. One action per store
  operation that changes state; every store method holds the store's lock and
  writes in one BEGIN IMMEDIATE transaction, so a method is one step. A crash
  before COMMIT rolls back to the same state; one after COMMIT loses the answer
  only, which the modules with a network model. `Reasons` are the refusals in
  the order of the code, `Answer` the first that applies. A batch hash is the
  batch, a chain hash the sequence of batches committed before it: hashes are
  injective by construction.
- `DeliveryPipeline`: `route()` in each tab over the shared outbox, the wire
  and `CanonicalArchive`. The program counter's values are the awaits after
  which something else can have happened: `hello` (capabilities, health,
  checkpoint), `stored`, `pending`, `list`, `replay`, `replaying`, `add`,
  `setnext`, `choose`, `sent`, `project`, `stopping`. Reads of the same table
  with no decision in between are one step.
  `Failures` names the IndexedDB operations that may fail in a run. `History` is what
  other browsers and a restore have committed before this one is paired: a
  tombstone among it is the one reason the companion has to refuse a row.
- `DurableLog`: the abstract promise. Operations are accepted once, become
  durable in the order of acceptance, each in the end. `DeliveryPipeline`
  implements it with one tab (`AcceptedIsDurableInOrder`): the accepted
  operations are the archive's chain followed by the uncommitted rows in
  sequence order, the durable ones are the chain.
- `CapturedWrites`: what a write of a capture module leaves in the tables, which
  mutations `buildMutations` makes of it, and what a rebuild and a companion
  bundle make of the records again; the admission by three classes of signals.
  The queue in between is `DeliveryPipeline`'s.
- `BrowserBootstrap`: extends the pipeline by the page load that commits an
  existing browser archive, the migration journal, and the calls that follow, in
  tabs that share storage and outbox, over an archive other browsers may have filled.
  `page` is the await a load is at, `memory` what it holds there; journal (`phase`,
  `target`) and `pointer` are shared and written over. A generation is the checkpoint it
  was pinned at, so that it shows what part of the rows it holds. All tabs may
  load at once; `apart` remembers whether no two of them have. Two tabs give a batch different ids, but
  the same mutations: the companion refuses the second of them either way, so that the
  model names both alike. A browser without rows projects at once and is left out. What
  a rebuild does in its staged database is `GenerationRebuild`'s.
- `GenerationRebuild`: the load of a page that rebuilds its cache from pinned
  pages, with pointer, journal and staged databases, over `CanonicalArchive`, whose
  clients commit between the pages. Pages list the records in the order of their keys
  (`Rank`), and a row of a table is about one or several of them (`RowOf`).
- `ArchiveRestore`: snapshots, restore, rotation and the destroy guard beside
  clients that commit. A database file is a record of its tables (`Active` is the
  file in use; a snapshot and the retained file hold another). `Switch` is what a
  restore does under the store's lock; `ReadSnapshotPage`, `ReadRetainedPage` and
  `CommitRestoreBatch` are what it does after, without it. A page in memory with
  the batch that is being filled from it is one queue. `Crash` may come anywhere,
  `CrashInSwitch` between the two renames. One restore runs at a time; an exception
  between the renames, where the process lives on with a closed connection, is left out.
- `BrowserSafety`: page loads with and without a companion, the check in its three
  awaits (sentinel, inventory, write), what follows from its phase, captures,
  clearing and the gate, while `Wipe` drops the site's data. A projection is one
  step; `GenerationRebuild` gives its steps.
- `RawSpool`: the spool's rows, one transaction per step, in tabs that prune, flush,
  fail and put back. Of `next_retry_at` there remains whether a row waits. An OK answer
  with no, or empty, `accepted_ids`, or that is no JSON, stands for the whole batch as in
  `sendBatchToDaemon` (`AcceptUnnamed`): its rows are deleted whatever the daemon took, and
  `settled` counts them. A partial answer whose second transaction fails puts the whole
  batch back (`RestoreBatch`).
- `MonitorLease`: the lease in localStorage, the role each tab remembers, storage
  events on their way, heartbeats, and tabs hidden, closed, dead or switched off.

The page:

- `HookRuntime`: the hooks of one page. The page is one record (modes, the two
  functions as sequences of wrappers, what is stored under the original keys,
  timers), and everything the code does in one turn of the event loop is an
  operator from record to record, so that nested calls (an install that fails,
  enables safe mode, which uninstalls) keep their order. `Realms` are how the page's
  functions can be reached; `PageWraps` is the page's own scripts.
- `BookmarkContext`: where a bookmark request's folder comes from, in the order
  of the code: request, page, lock, active, sticky context; then the answer, the
  bridge and `getBookmarkFolderContext`. A request names its folder in the variables, the
  query or a form (`Ways`), and the hook, the interceptor's explicit check and its stamp
  each look in their own places; the page shows one with or without its address
  (`Hints`); and the strict setting is read with each answer, in the page or from
  localStorage (`Stricts`). A page loaded in safe mode has HTTP hooks, bridge and interceptor
  but no context tracking, until safe mode is left (`tracking`, `InstallTracking`): its
  requests and answers set the lock, and nothing but its three minutes ends it. Time is an age of three values, one for each limit that is
  compared.
- `InteractionMirror`: what X's answers to bookmarks, likes, follows and retweets change
  in the tables. `Patterns` are the patterns in the order they are tried; `calls` are the
  calls of the database that wait for their turn, one of which is performed or refused at
  a time; a row keeps its flags and the folder with the folder its name is of. X's
  requests name at most one tweet, user and folder (`MirrorAssumption`). `last` is a
  history: what was said last of each module and target.
- `ResultWindows`: writes of several tabs as the steps after each await (commit,
  invalidate, signal, count), the background build of index pages with its two
  checks of the revision, and one table with its queued window, its mutation
  version and its sources. Rows and index pages are ordered by the time of capture.
- `FolderSource`: the windows of a table of bookmark folders, from cache, index
  pages, a remembered checkpoint or by offset, and the stream of an export. A
  window is read at once (`ResultWindows` has the awaits), counts are the database's.
- `MediaSource`: the windows of the gallery by the index of `media_flag` or the older one
  of `media_count`, the count that has what both miss repaired, and the stream of an
  export. A document is what it tells of its media (`Marks`: one for each version).
- `SearchSession`: one table's search: effects run in the order of the code after
  each render, requests are messages to and from a worker that handles one at a
  time, documents load in pages, and corpora are streamed, warmed or small.
- `TableSearch`: the parsing of a query, its groups, their expansion and pruning,
  beside a reference meaning of the same tokens. The query is typed token by token
  (`parsed` is what the parser has made of it).
- `ResultExport`: the selection by exception or one by one, and the exports with the
  reference each keeps for Cancel.
- `BundleJob`: the handshake of page and worker while a bundle is built.
- `BundleLibrary`: import, marking and deletion of bundles, and the viewer's pages. The
  panel awaits the refresh of its list before it selects what it imported
  (`bundle-viewer-panel.tsx:321`); the model selects at once, and `Select` may come later.
- `MediaDownload`: the scan for media, workers with slots of three kinds, retries.

`*Proofs` modules hold the theorems about the modules they extend: those about
`BrowserBootstrap` are in `DeliveryPipelineProofs`, those about `RawSpool` in
`BrowserSafetyProofs`, `BookmarkContext` and `MediaSource` in `MonitorLeaseProofs`, `ResultExport`,
`BundleLibrary` and `InteractionMirror` in `HookRuntimeProofs`, `ResultWindows` in
`CapturedWritesProofs`.
`MC*` modules and `.cfg` files give the constants their values. Parts that share no state
are checked in one run: `part` names the one a behaviour follows, the others rest in
their first state, so that a run explores the sum of the parts and not their product
(`MCCanonicalArchive` extends `GenerationRebuild`, over `CanonicalArchive`, and
`CapturedWrites`, and so on); properties and fairness are those of the part's own module.

Definitions whose comment begins with "A variant" (or "Variants") are not part of a
specification: each is a plausible error in the code, and shows that a property
notices it.

## Runs

| Run | Parts and bounds | Shows |
|---|---|---|
| `archive` | 2 streams, 3 keys, 9 batches; a rebuild of 3 records from pages of 1 item while those batches come, any number of failures and reloads; captures of 4 modules on 2 ids, 2 items, 3 writes, 1 reload by either of 2 accounts | every refusal has a batch that meets it; no mixed page becomes active; what was captured is restored |
| `browser` | 1 tab, 3 operations (1, 2, 1 mutations), outbox bound 3, 1 crash, failing storage, sequences to 5, an empty archive or one in which a restore took a key back; 2 raw events, a spool of 1 row, 2 tabs; 2 tabs, 1 record, 1 projection, 2 losses of the site's data | no loss, no reuse of a sequence, no refusal but of what was taken back; no raw event disappears that was not taken, in a batch an OK answer vouched for, pruned or cleared; a known loss is gated |
| `delivery_live` | 2 operations, 1 crash; 2 raw events of which the daemon refuses one; fair | refinement of `DurableLog`, delivery of pending rows and of a row behind a refused one |
| `delivery_two_tabs` | 2 tabs, 1 operation each | expected violation: one sequence assigned twice |
| `bootstrap` | 2 tabs loading apart or at the same time, a bootstrap of 2 batches, an archive that is empty or another browser's, 1 call, 1 page close, failing journal and companion | no partial bootstrap becomes active as long as loads were apart; a verified migration is whole in any case |
| `bootstrap_partial` | as `bootstrap` | expected violation: a partial bootstrap becomes active |
| `restore` | 1 stream, 3 batches on 3 keys, 2 snapshots, 1 restore in batches of 2, 1 challenge, 1 crash, failures anywhere | history exact, success means rewound, nothing acknowledged taken back but by a roll-back |
| `page` | 1 wrapper, 3 realms, 1 fetch in flight, failure limit 2; a table of 2 rows, 1 export at once; bundles of 0, 1, 2 and 5 rows in batches of 2; 4 media on 2 hosts, 2 workers, 1 retry, 2 scans; 2 bundles of 3 files, pages of 1 row, 2 writes; a tweet, a user, 2 folders, 2 interactions of 11, 1 response, any call refused | a hooked fetch reaches the native one, hooks come back; files whole; jobs end; a viewer shows its bundle; the tables follow the last word |
| `tables` | 2 captures, 2 tabs, 1 write, 1 scroll; 3 documents in 2 folders, windows of 2 rows, index pages of 1; a gallery of 3 documents of any version, windows of 2, a write, an export; queries of up to 4 of 13 tokens over 2 corpora, with and without a folder; 2 texts, documents of 1 and 2 pages, limit 1, 2 queries typed, 1 write, 1 warming, failing queries | index pages exact, a table at rest current, a stream whole; the parser's expression is the standard one and pruning keeps its rows; ready results are current, none is left pending |
| `folder_empty` | the same with a row that cannot be hydrated | expected violation: the stream gives rows twice |
| `monitor` | 2 tabs, 2 pending events; 2 folders, 1 request in flight that names one in 4 ways, 3 hints of the page, 4 strict settings | one leader, and there is one; the request decides, with the tracking and without; a page that tracks lets go of a lock |
| `removed_membership` | as `archive` | expected violation: a removed membership is back |

The bounds are enough for the cases that matter: a batch of two mutations makes
ranges and single sequences differ, three operations let one wait, one be in
flight and one be refused by the bound; one crash between any two awaits
already separates every pair of writes; pages of one item put a commit between
any two of them. `MaxSequence` only bounds what a tab may start a batch with and
lies above what the operations can use with one tab.
In the hooks one wrapper lies around a hook and under the next one that a repair installs;
FailureLimit 2 (5 in the code) leaves a failed repair, a backed-off one and the last.
One bookmark request is enough, since requests meet only through the contexts,
and the context may be anything an earlier request could have left; its four ways are no
folder and one in each place, the hints none, with and without an address. In the mirror two
interactions and a response let one wait behind another of the same tweet while a third is
refused; three interactions were checked too. In `tables` a
window and a page of the build are one row, so that two captures already separate
windows and pages; a second scroll, and a signal that arrives twice, were checked
too. In the search a corpus larger than `Limit` is streamed and a smaller one sent whole,
and both occur. A bootstrap with loads apart was checked with two page closes and a
failing `setMetadata` too. One record is what a baseline can know, since `Dropped` compares with
half and at least one; two generations with one loss, and two records with one
generation, were checked as well. Two tabs are every pair, in the lease and in the spool.

`restore`, `browser`, `page`, `tables` and `folder_empty` do not check for deadlock: writes,
snapshots, scrolls and typing are bounded, and where nothing happens any more the page is at rest.
`archive`, `delivery_live`, `bootstrap` and `monitor` do, for the pipeline too.

In `restore` there is one client stream, so that an archive filled again after a
destruction has the history it had before; where it has another, and where a
snapshot was taken during a restore that failed, the fork described below applies.

### What the code does differently from what it says

Four runs expect a violation of what a document says:

- `delivery_two_tabs`: two tabs share outbox and client epoch, and both may assign
  one sequence. One row is refused with a gap, is quarantined, and the stream stops
  in all tabs. No operation whose promise resolved is lost: that is proved for any
  tabs (`ResolvedKept`).
- `bootstrap_partial`: a load recovers the journal, looks for a pointer and asks for the
  archive's checkpoint, one after another (`main.tsx:160`, `migration.ts:618-626`). If another
  tab begins its bootstrap in between and has committed its first batch, the load takes the
  archive for a filled one and makes a generation of part of the browser's rows the active
  one. As long as loads were apart it does not happen, which is proved
  (`NoPartialBootstrapApart`).
- `folder_empty`: the stream of a folder goes on from the number of rows it gave, so
  that a row that cannot be hydrated makes it give later ones twice.
- `removed_membership`: memberships and their tombstones have different state keys,
  sent in key order (`store.py:1255`); a removed capture can reappear.

More was seen while modelling, and is no run:

- Restore: a snapshot outlives a durable destruction, and the archive keeps its
  identity. Once the archive, paired again, has at least as many mutations as the
  snapshot, a restore takes the snapshot for its past and joins the two histories
  (`snapshots.py:666`); the chain no longer verifies, and nothing checks it then. With
  two client streams `HistoryStaysExact` is violated so.
  A restore that fails after the switch drops what clients committed since, and
  brings back an archive that was destroyed meanwhile. A restore batch overwrites what a
  client wrote after its page was read.
- Bootstrap: it does not tell the outbox which sequences it used; the first capture
  after it is refused (`migration.ts:255`).
- Rebuild: a second tab's recovery deletes the database another tab is staging
  (`generation.ts:688`), and the pointer then names a missing or refilled one.
- Delivery: a batch that deletes a key and writes it again is admitted, since the
  tombstone check looks at the state before the batch. A call is rejected, not queued,
  when the companion cannot be asked for its checkpoint, although "new rows may be
  queued during an outage" (`coordinator.ts:257`). What a restore has taken back and is
  captured again is refused, and stops the stream for good.
- Browser safety: the check after a projection writes the new database's name with the
  count of the old one (`browser-safety.ts:427`, `:538`). If that was 0 the baseline is
  disarmed and a second loss is presented as healthy; if it was larger than what a restore
  brought back, the next load reports a loss that was none. A tab loading
  between the publication and that write reports a changed database; the older of two
  tabs' inventories can be written last; a slow loss moves the baseline along.
- Hooks: safe mode "Disables hook-based capture when enabled" (`settings.tsx:470`), but
  setting it removes the hooks and installs them again, and so does a page loaded
  in it. A repair whose XHR install fails enables safe mode and then installs the fetch
  hook. Going from both hooks to XHR leaves the fetch hook. An XHR hook under a wrapper
  of the page outlives its removal.
- Bookmarks: a page loaded in safe mode keeps hooks that set the lock and installs nothing
  that clears it (`runtime-control-plane.ts:142`). A folderless request at the root inherits a folder from a context; a strict
  folder stamps the answer of another folder's request; a rename during a backfill is
  lost (`manager.ts:2821`).
- Tables: `extClearCaptures` signals before it invalidates (`manager.ts:2724`), and a
  queued window is loaded by the closure of an older render (`hooks.ts:236`): a table at
  rest may show cleared rows or an older count. A tab that is closed between a commit and
  its revision leaves index pages of before.
- Search: a query that was completed and is typed again while another is in flight
  returns early, and the table keeps the abandoned state. A table whose documents fail to
  load searches an empty corpus and says ready; one whose documents are emptied stays
  preparing; a refused corpus leaves the older one of its scope to answer.
  `ReadyIsCurrent` is about tables that have documents. Of the query language:
  the dedupe of matches by author and text (`advanced-table-search.ts:2078`) comes after
  what `PruningKeepsRows` is about; anchors under an explicit OR drop rows; `is:` with an unknown value, `1 OR -2`, and more than 128 expansions drop rows
  without a warning that says so.
- Gallery: documents with a `media_count` and no flag are left out of windows and exports as
  soon as one document has the flag, although the playbook calls the older index a fallback
  for them (`docs/db-backed-table-scalability-playbook.md:680`): the count finds them in the
  older index and repairs nothing. Windows read before a repair stay, and a repair puts the
  documents as its scan read them. `MediaIsWhole` says what an export then gives.
- Mirror: the pattern of a like is found in "UnfavoriteTweet" too (`interaction-events/api.ts:90`),
  and that of a follow in "UnfollowUser" (`:97`), so that these removals are mirrored as
  additions. A tweet that is not on the page keeps its former folder in its document, which
  is built before the row is changed (`manager.ts:2463`); a snapshot of the page overwrites a
  full row; a folder whose name is not cached leaves the former folder's name.
- Exports: the change to mode "all" keeps `rowSelection`, whose rows are then the ones
  excluded (`use-result-set-controller.ts:1377`); Cancel stops the export that started
  last and not the others, in the companion bundle's reference too (`export-data.tsx:485`);
  a bundle of a pinned source is built from the current rows (`export-data.tsx:566`); with
  writes between its pages a stream skips rows or gives them twice (`result-sources.ts:914`).
- Media: the first file that fails ends the export while other workers go on, a scan that
  fails leaves a partial list to export, and files of one name replace each other.
- Bundles: memberships that were removed stay in a companion bundle as captures
  (`companion-bridge.ts:231`), a rebuild may lose re-added ones, and custom captures of one
  `data_key` become one. `upsertSocialEdges` takes the first edge's extension for all
  (`coordinator.ts:723`; nothing calls it). The writes of an import swallow their errors, so
  that a failed import is reported as imported and `bundleMarkFailed` is never reached; an
  import of fewer records leaves the older rows; a crash between the rows and the mark leaves
  "importing". A `loadMore()` in flight when the bundle is left appends its rows to the next
  one's: `ViewerShowsBundle` leaves that case out.
- Worker: a `saveFile` that throws in `worker.onmessage` leaves the job's promise pending.

## Fairness

`delivery_live`: weak fairness of `Step`, since promises settle and
every request has a timeout; of `Route(t, NoOp)`, since the userscript calls the
database proxy as long as its tab lives and nothing else replays the outbox (the
code has no timer); strong fairness of `Hello`, `Serve` and
`ReplayAcknowledged`: a companion that comes back again and again is reached
in the end. A companion that stays away for ever delivers nothing, and no
property says otherwise. For the spool: its timers fire and its transactions end,
requests end (the code gives them no timeout), the database opens again and again, and
a row's turn comes, since the retry delay of a row refused twice exceeds the flush
interval (`Turn`).

`page`: weak fairness of `Watchdog`, a timer the code sets again after every pass; of
the export worker and the page that feeds it (messages arrive, source rows are read); of
the downloads, which end, and the saving of the archive.
`monitor`: the interval's `Refresh`, the page's own `Stop` and `Left`, storage events, and
that a lease nobody renews goes stale; strong fairness of `Heartbeat`, which a hidden
page may miss. `RefreshContext` is an interval too, of the pages that
track the context: a page in safe mode has none, and `LockIsReleased` does not speak of it.
Nothing is assumed of the page, the user or the network. The other runs check safety.

## Proofs

What follows is proved for every value of the constants that the named assumptions
allow; the runs check the same properties on their small instances, and TLC evaluates
the assumptions there. Every inductive invariant was checked by TLC before it was proved.

**Archive** (`CanonicalArchiveProofs`). For every set of clients, keys, mutation
identities and well-formed batches, `Spec => []IInv` with

    IInv == TypeOK /\ MutationsJournaledOnce /\ ClientSequenceContiguous
              /\ ReceiptsProveJournal /\ ChainVerifies /\ StateIsJournalReplayed

None of the parts but the type invariant is inductive alone: exactly-once needs
`Fresh` over the typed journal, the receipts need `head.seq = Len(journal)` from
`ChainVerifies`, and the checkpoints' uniqueness needs that no boundary lies
beyond the head. The step is proved action by action: `Commit` with one lemma
per conjunct, the bookkeeping actions together. From it follow one theorem per
property, and the two action properties `TombstonesStay` and
`AcknowledgedStays`. The assumptions are `BatchesAssumption` (what
`_validate_request` admits) and `NoRecordAssumption` (the missing row is no row).

**Delivery** (`DeliveryPipelineProofs`), for any operations, history, outbox bound,
failures, crashes and lost, late or repeated requests, in four layers:

1. `ArchiveSound`: what the archive holds, for the batches that this stream and the
   history can send (the invariant above, in the terms of the pipeline's constants).
2. `Sound`, with any number of tabs: one batch per operation and one row per batch; an
   operation that was resolved is claimed, that is, in the outbox or committed; what each
   await of a tab knows of the batch in its hands; and a receipt in flight only for what
   is committed. `Soundness` is `Spec => []Sound`, and `ResolvedKept` follows.
3. `InOrderSound`, with one tab: the sequences of the claimed batches are disjoint
   (`Ordered`), the stored next sequence is beyond all of them (`Stored`), and what the
   tab holds between two awaits fits in (`TabOrdered`). `SequencesOnce`,
   `OutboxInOrder` and `ConflictsOnly` follow: the companion never sees a gap, so that
   the only refusal left is a row that writes what a restore has taken back.
4. `LogSound`, with one tab and `OwnStream`: the archive's chain are receipted batches, a
   key is tombstoned only by a deletion, and what is claimed and not committed is finite.
   With the sequences of the third layer a new operation is accepted last, and what the
   companion commits is the first accepted one that is not durable.
   `DeliveryIsDurableLog` is `Spec => Log!Safety`: initial states map to initial states,
   and every step accepts one operation, makes the first accepted one durable, or stutters.

The third and fourth layer have `OneTab` as a hypothesis: with two tabs they are false, as
the run `delivery_two_tabs` shows. `OwnStream` says that no other browser has written to
the archive, and that what one operation deletes none writes: `_state_key` gives a
deletion a key of its own (`store.py:717`), so that no row is ever refused and
quarantined. The fairness half of `AcceptedIsDurableInOrder` stays with the run. The
assumptions are `OperationsAssumption` and `HistoryAssumption` (mutation ids are UUIDs: two operations, or an operation and
another browser's batch, share none; operations have mutations) and `RecordAssumption`.

**Captures** (`CapturedWritesProofs`), for any modules, accounts, ids, items and edges:
`Restorability` is `Spec => []Restorable` with

    Restorable == Agree(tables, state) /\ BridgeAgrees /\ SignalsAgree   (and state's shape)

`RebuildRestores` alone says what a rebuild of all records shows and is not inductive:
`Agree` says key by key why: each row and entity has its record, each record its row,
unless the membership was ever removed. Every write changes both alike (one lemma each),
a page that writes shows the paired account (`OwnerWrites`: of two classes of signals
that agree one is not `history.state`), and what a bundle has read is what was pinned.
No assumption on the constants is needed: state keys of different kinds of records,
of a tweet and a user of one id, and of two modules never meet.

**Tables** (in the same module), for any captures, tabs, copies of signals, windows and
interleavings of writes and builds. `IndexIsExact` is `IndexPagesExact` by `IndexInv`: what
a build holds while it walks, and what lies in the index, is right for its revision unless
a write that has not invalidated yet is under way, and the captures are ordered by a
time no two of them share (`WindowAssumption`). `TableIsCurrent` is `RowsAreCurrent` by

    TableInv == IndexInv /\ every commit and invalidation of a write has its signal
                  after it /\ TableSound(hook, Steady)

where `TableSound` says what the cached windows, the cursors and the loads in flight of the
newest source are once no signal is on its way and none is to come (`Exact`), and that a
load, or what is queued behind one, will bring what the table asked for (`Arrives`). It is
a predicate of the table's record, so that the requests a turn makes are followed one after
the other. `SignalsLast` is a hypothesis: a clear signals before it invalidates
(`manager.ts:2724`), and the run leaves it out too.

**Restore** (`ArchiveRestoreProofs`), for any streams, keys, batches, page sizes, and any
number of restores, snapshots, destructions and crashes: `Spec /\ []OwnPast => []IInv` with

    IInv == Proper(Active) /\ AgentSound /\ CatchesUp /\ Rewinds   (in outline)

A file is `Exact` when its head, receipts and checkpoints are those of one chain of
batches, its journal holds the rows of that chain, its streams are contiguous, and the
record of a key is a row of that key; a proper one is exact or the empty file nobody is
paired with. `Merged` does not keep this by itself: the two files must have a common past,
and then the merge rebuilds the active one but for its current state, which is the
snapshot's (`SamePast`, `RowsFromPast`). `CatchesUp` says that, unless a restore was
interrupted, a key whose record is not its last row will be written by the restore, from
its queue or from pages it has not read; `Rewinds` that a key no client wrote since the
switch shows what the snapshot shows, and so does what is queued for it. `HistoryExact`, `RestoreRewinds` and `AcknowledgedKept`
follow, the three properties of the run `restore`.

`OwnPast` is a hypothesis: the head of the snapshot a restore switches to is a boundary of
the active archive. The code compares the archive's identity and the two sequences only
(`snapshots.py:646-665`), and both survive a destruction and a roll-back, so that it can
fail (the fork described above). The theorems thus say which comparison the code lacks and
that it would be enough, and `PastIsOwn` when nothing is lacking: as long as no archive is
destroyed and no roll-back takes back a committed batch (`NothingForgotten`), every
snapshot of this identity ends at a checkpoint of the archive (`HeadsKept`), and `OwnPast`
holds. `ClientsAssumption` says what clients send, `EpochsAssumption` that a restore's stream and mutation ids are its own, and
`RankAssumption` that state keys are finitely many and ordered.

**Browser safety** (`BrowserSafetyProofs`), for any tabs, records, generations and losses:

    IInv == Typed /\ ClosedIsQuiet /\ GateIsClosed

`LossIsGated` alone is not inductive: a page about to write a baseline, a page that
captures, or a database with records would make a page live again. `GateIsClosed`
says that while the loss is missing there is none: the sentinel still knows of
records, every database is empty, and no page is writing, capturing or
acknowledging. `EmptyIsNoticed` is the fact about `AssessContinuity` it rests on:
whichever row the check takes for the current one, an empty browser asks for
recovery. The assumption is `SafetyAssumption`, finite records.

**Rebuild** (`GenerationRebuildProofs`), for any streams, batches, keys, page sizes, failures
and reloads: `RebuildIInv == RebuildTypeOK /\ ActiveShows /\ \A t \in Tabs : TabInv(t)`.
`TabInv` says of each place of a load what the staged database holds: the records of the
pages read so far, as they were when the stream was pinned, although commits go on; and
that what a load deletes or fills is never the active database. `ActiveIsExact` says row by
row that the active cache is the journal up to the pointer's target, for every row that is
about one key (`SoleRows`), `ActiveIsHistory` is `ActiveShowsHistory` where all rows are.
`OneTab` is a hypothesis: two tabs delete each other's databases (`generation.ts:688`).

**Bootstrap** (in `DeliveryPipelineProofs`), with any number of tabs and any batches:

    BootstrapSound == CapturesFlow /\ ... /\ \A t \in Tabs : LoadKnows(t) /\ JournalKnows
    ApartSound == LoadsApart /\ (phase = "none" => Untouched) /\ \A t \in Tabs : LoadTells(t) /\ ...

`CapturesFlow` says that nothing the capture modules send is one of the bootstrap's batches.
`LoadKnows` says of each await that the batches with a receipt are in the archive, and that a
load which rebuilds after the last of them has pinned all; it speaks of the load's own
memory, so that other tabs cannot disturb it, and `VerifiedWhole` follows for loads in any
interleaving. `NoPartialBootstrap` needs more: before there is a journal nothing of the
bootstrap is in the archive or under way (`Untouched`), and a load that has passed the
recovery finds all of it or nothing (`LoadTells`). That is what a second load's first batch
breaks: `ApartSound` is an invariant only while `apart` holds.

**Raw spool** (in `BrowserSafetyProofs`), for any tabs, events and limits:
`SpoolIInv == SpoolTyped /\ DeletesSettled /\ NothingLost`: a flush deletes only what the
daemon has taken, or an OK answer without names was given for, whatever other tabs' flushes
put back, prune or delete meanwhile.

**Monitor lease** (`MonitorLeaseProofs`), for any tabs: `OneLeader` by
`IInv == Typed /\ RefreshListens /\ LeaderListens /\ LeaderIsTold`: a tab that takes
itself for the leader and has lost the lease has a storage event to handle, or is about
to publish what it is.

**Bookmark contexts** (in the same module), for any folders and requests in flight:
`ContextInv` is the type, `RequestDecides`, and `CarriesDue`: a request carries the folder
it is due to, or a context that was taken where it was sent. It holds whichever place the
request names its folder in, whatever the page shows, and for any strict settings
(`PlacesAssumption`).

**Gallery** (in the same module), for finitely many documents and windows of at least one
row: `MediaInv` says that what a source keeps of its windows is what it would read now,
unless a repair came after them, and that what an export has so far is the first rows of
one index, which the next window continues. `GalleryIsWhole` is the gallery's half of
`StreamIsWhole`.

**Hooks** (`HookRuntimeProofs`), for any number of requests in flight, wrappers and
reloads: `Sound(page)` is one predicate of the page's record, and each operator a turn is
made of takes a sound page to a sound page; `FetchReachesNative` and the type invariant
follow. A stored fetch has no hook in it, and while it is unset none was
installed, so that what an install takes for the original is none either.

**Exports and bundles** (in the same module). `ExportInv`: the rows a run has and those it
has yet to read and will not skip are, of its own rows, those whose boxes were on at the
click, whatever is selected and captured since; so a file that is saved is whole, for any
rows and number of exports at once. `LibraryInv`: once what was written is signalled, the
viewer shows a prefix of the selected bundle's newest rows or a load of them is on its way,
and a page that arrives continues it (`PagesJoin`); `ViewerIsCurrent` is for any bundles,
files, writers and page sizes.

**Mirror** (in the same module), for any tweets, users, folders, requests and responses:
`MirrorInv` is the types, `MirrorFollows`, `Queued`, and that a tweet without a row is in no
folder. `Queued` says of the calls that wait that what was said last of a module and target
is behind all else about them, or that nothing about them waits (`Awaits`), so that a call
that has its turn is the last word or there is a later one; and that responses wait in the
order of their numbers, under which their tweets are indexed (`Numbered`).
`TablesFollowPage` follows. `MirrorAssumption` is what X's requests name.

Only model-checked:

- all liveness under fairness, and so the second half of `AcceptedIsDurableInOrder`, and
  the worker's jobs and the downloads (`JobEndsWhole`, `DownloadEndsWhole`), whose safety
  is about where they end; liveness and ENABLED are out of the prover's reach;
- `ExpressionIsStandard` and `PruningKeepsRows`: parser and evaluator are recursive on the
  tree they build, and what a recursive definition computes for every input needs an
  induction over data, which is out of reach too (`TableSearch` is the one module with
  RECURSIVE operators);
- the folders' half of `StreamIsWhole`: its walks and what a window hydrates are selections
  from sequences (`SelectSeq`), which are recursive too;
- `ReadyIsCurrent` and `NoneLeftPending`, which need to know of every message between page
  and worker which request awaits it, and what a warm corpus does to all the searches that
  wait for it (`Warmed`, a fold over them); no proof was attempted.

## Not modelled, and limits

Not modelled are validation of shapes and canonical JSON, HTTP details, the reading of
the pairing and the age of identity signals, the outbox's age and byte bounds (the
mutation bound stands for them), the delta half of reconciliation, the dispatcher's
isolation of interceptors that throw, runtime logs, settings, backfills, the upgrade of
old schemas, ranking, fuzzy matching, tags and highlights of the search, and parsers,
file formats and rendering, which are pure functions. Limits of what is modelled: a fetch
of the spool that never settles is taken not to occur, a tab whose monitors were switched
off goes on renewing the lease and is left out of `SomeoneLeads`, the cache of a folder
source evicts no page, a row's content is its revision (`CapturedWrites`), bundles' pages
are one record, at most `history.state` is another account's, and one click of the media
export is one behaviour. Of the mirror, the backfill of documents that races with a removal
and the pending names of folders that a page takes with it are left out.

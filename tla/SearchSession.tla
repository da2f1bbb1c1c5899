--------------------------- MODULE SearchSession ---------------------------
(* A search in one open table: the controller's effects and requests         *)
(* (components/table/use-result-set-controller.ts), the search documents     *)
(* that useSearchDocuments keeps (core/database/hooks.ts), the worker client *)
(* and the worker (core/search/search-client.ts, search-worker.ts).          *)
(*                                                                           *)
(* A version of the document table has a number of pages; a corpus is the    *)
(* sequence of the versions its pages were read from, and <<0>> is the one   *)
(* made of the visible records.  The selected folders belong to the query.   *)
(* A corpus identity names scope and kind only: two versions of one size     *)
(* have the same, as they do in the code when the first and the last         *)
(* document are the same.  A render runs at once and its effects later, but  *)
(* before the next render of the table.                                      *)
EXTENDS Naturals, Sequences, SequencesExt

CONSTANTS
    Queries,      \* the search texts typed
    Totals,       \* the number of pages of each version of the documents
    Limit,        \* SEARCH_DOCUMENT_FULL_LOAD_LIMIT, in pages
    Failing,      \* of "set", "commit", "query": what the worker may fail at
    MaxTyped, MaxWrites,   \* bounds on changes of the query and on writes
    MaxWarms               \* bound on warming requests

VARIABLES
    query,        \* debouncedSearchQuery
    typed,        \* how often it was changed
    table,        \* the version of the document table
    written,      \* how often it was written
    prov,         \* useSearchDocuments: documents, loading, loaded, totalCount
    load,         \* the version its load has read
    tab,          \* the controller: refs, state, requests
    worker        \* the worker, with the messages to and from it

vars == <<query, typed, table, written, prov, load, tab, worker>>

-----------------------------------------------------------------------------
(* What the controller is rendered with, and what it derives from that.      *)
None == <<>>
View == [query |-> query, docs |-> prov.docs, loaded |-> prov.loaded,
         loading |-> prov.loading, total |-> prov.total]

Rows(version) == [page \in 1..Totals[version] |-> version]
VisibleRecords == <<0>>

Scope(view) == view.total
Searches(view) == view.query # ""
UsesDocuments(view) == Searches(view) /\ (view.loaded \/ view.docs # 0)

CorpusIdentity(view) ==
    <<Scope(view), IF view.docs # 0 THEN "docs"
                   ELSE IF UsesDocuments(view) /\ view.total > 0 THEN "stream"
                   ELSE "records">>

SearchKey(view) == <<CorpusIdentity(view), view.query>>

CorpusRows(view) ==
    CASE ~Searches(view) -> <<>>
      [] UsesDocuments(view) -> IF view.docs # 0 THEN Rows(view.docs) ELSE <<>>
      [] OTHER -> VisibleRecords

Post(t, message) == [t EXCEPT !.posted = Append(@, message)]
Message(type, by, scope, content) ==
    [type |-> type, by |-> by, scope |-> scope, content |-> content]

-----------------------------------------------------------------------------
(* One search: run().  `at` is what it awaits.  A request of the client is   *)
(* pending while its search awaits it.                                       *)
NoRun == [key |-> None, at |-> "done", cancelled |-> FALSE, ended |-> FALSE,
          warm |-> 0, count |-> 0, page |-> 0]
AsRun(r) == <<"run", r>>
Key(t, r) == t.runs[r].key
At(t, r, where) == [t EXCEPT !.runs[r].at = where]

Finished(t, r) == [t EXCEPT !.runs[r] = NoRun]

Leave(t, r) ==
    [Finished(t, r) EXCEPT !.inFlight = IF @ = Key(t, r) THEN None ELSE @]

Query(t, r) ==
    Post(At(t, r, "query"), Message("query", AsRun(r), Key(t, r)[1][1], <<>>))

SetCorpus(t, r) ==
    Post(At(t, r, "set"), Message("set", AsRun(r), Key(t, r)[1][1], CorpusRows(t.done)))

(* After the corpus: the key of a corpus that is ready is remembered.        *)
Prepared(t, r, ready) ==
    CASE t.latest # r -> Leave(t, r)
      [] ready -> Query([t EXCEPT !.ready = Key(t, r)[1],
                                  !.shown = IF @ # None /\ @.key = Key(t, r)
                                            THEN [@ EXCEPT !.pending = TRUE, !.phase = "querying"]
                                            ELSE @], r)
      [] OTHER -> Query(t, r)

Stream(t, r) ==
    Post(At(t, r, "count"), Message("begin", AsRun(r), Key(t, r)[1][1], <<>>))

Prepare(t, r) == IF Key(t, r)[1][2] = "stream" THEN Stream(t, r) ELSE SetCorpus(t, r)

Start(t, r) ==
    LET identity == Key(t, r)[1] IN
    CASE t.ready = identity -> Query(t, r)
      [] t.ready # identity /\ t.warmKey = identity /\ t.warming # 0 ->
            [At(t, r, "warm") EXCEPT !.runs[r].warm = t.warming]
      [] OTHER -> Prepare(t, r)

Shown(key, pending, phase, rows) ==
    [key |-> key, pending |-> pending, phase |-> phase, rows |-> rows]

(* A variant that leaves the state of a search that failed as it is.         *)
CaughtSilently(t, r, phase) == IF t.latest # r THEN Finished(t, r) ELSE Leave(t, r)

Caught(t, r, phase) ==
    IF t.latest # r THEN Finished(t, r)
    ELSE [Leave(t, r) EXCEPT !.shown = Shown(Key(t, r), FALSE, phase, <<>>)]

-----------------------------------------------------------------------------
(* The effects, in the order of the hooks; all cleanups come first.  To      *)
(* cancel a search that has ended leaves its id with the worker and no more. *)
Cancel(t, r) ==
    LET off == [t EXCEPT !.runs[r].cancelled = TRUE] IN
    IF t.runs[r].at \in {"done", "hydrate"} THEN off
    ELSE Post(off, Message("cancel", AsRun(r), 0, <<>>))

CleanupSearch(t) ==
    LET r == t.cleanup IN
    IF r = 0 THEN t
    ELSE [Cancel(t, r) EXCEPT
            !.inFlight = IF @ = Key(t, r) THEN None ELSE @,
            !.shown = IF @ # None /\ @.key = Key(t, r) /\ @.pending
                      THEN [@ EXCEPT !.pending = FALSE, !.phase = "cancelled"]
                      ELSE @]

CleanupWarm(t) ==
    [t EXCEPT !.timer = None,
              !.warms = [w \in DOMAIN @ |-> [@[w] EXCEPT !.cancelled = TRUE]]]

(* The two effects of the scope key.                                         *)
ResetScope(t) ==
    [t EXCEPT !.warming = 0, !.inFlight = None, !.completed = None,
              !.ready = None, !.warmKey = None]

Warm(t, view) ==
    IF /\ Searches(view) /\ t.available /\ CorpusRows(view) # <<>>
       /\ CorpusIdentity(view) \notin {t.ready, t.warmKey}
    THEN [t EXCEPT !.timer = CorpusIdentity(view)]
    ELSE t

(* The search effect, after its early returns, begins the request; without   *)
(* a worker the search is run at once over the visible records (never more   *)
(* than 1500 in a table with windows).                                       *)
Begin(t, view) ==
    LET r   == t.latest + 1
        key == SearchKey(view)
        run == [NoRun EXCEPT !.key = key]
        new == [t EXCEPT !.latest = r, !.runs = Append(@, run), !.inFlight = key]
        old == IF t.shown # None /\ t.shown.key = key THEN t.shown.rows ELSE <<>>
        phase == IF t.ready = key[1] THEN "querying" ELSE "preparing-corpus"
    IN  IF ~t.available
        THEN [new EXCEPT !.completed = key, !.inFlight = None, !.cleanup = 0,
                         !.shown = Shown(key, FALSE, "unavailable", VisibleRecords)]
        ELSE Start([new EXCEPT !.cleanup = r,
                               !.shown = Shown(key, TRUE, phase, old)], r)

Search(t, view) ==
    LET idle == [t EXCEPT !.cleanup = 0] IN
    CASE ~Searches(view) ->
            [idle EXCEPT !.inFlight = None, !.completed = None, !.shown = None]
      [] Searches(view) /\ ~view.loaded /\ view.docs = 0 ->
            [idle EXCEPT !.shown = Shown(SearchKey(view), TRUE, "preparing-corpus", <<>>)]
      [] Searches(view) /\ UsesDocuments(view) /\ SearchKey(view) \in {t.completed, t.inFlight} ->
            idle
      [] OTHER -> Begin(idle, view)

(* A request that is cancelled while it is pending is rejected: its search   *)
(* ends before anything else happens.                                        *)
Rejected(t, r) ==
    IF r # 0 /\ t.runs[r].at \in {"commit", "query"} THEN Caught(t, r, "cancelled") ELSE t

WarmDepends(view) == <<CorpusIdentity(view), Searches(view), Scope(view)>>

RunEffects(t, view) ==
    LET warmChanged == WarmDepends(view) # WarmDepends(t.done)
        cleaned == IF warmChanged THEN CleanupWarm(CleanupSearch(t)) ELSE CleanupSearch(t)
        scoped  == IF Scope(view) # Scope(t.done) THEN ResetScope(cleaned) ELSE cleaned
        now     == [scoped EXCEPT !.done = view]
        warmed  == IF warmChanged THEN Warm(now, view) ELSE now
    IN  Rejected(Search(warmed, view), t.cleanup)

-----------------------------------------------------------------------------
NoLoad == [active |-> FALSE, version |-> 0]
NoDocuments == [docs |-> 0, loading |-> FALSE, loaded |-> FALSE, total |-> 0,
                noticed |-> 0]

Init ==
    /\ query = "" /\ typed = 0 /\ written = 0
    /\ table \in 1..(Len(Totals) - MaxWrites)
    /\ prov = [NoDocuments EXCEPT !.noticed = table]
    /\ load = NoLoad
    /\ \E available \in BOOLEAN :
          tab = [latest |-> 0, inFlight |-> None, completed |-> None, ready |-> None,
                 warmKey |-> None, warming |-> 0, timer |-> None, warms |-> <<>>,
                 runs |-> <<>>, cleanup |-> 0, shown |-> None, result |-> <<>>, posted |-> <<>>,
                 available |-> available,
                 done |-> [query |-> "", docs |-> 0, loaded |-> FALSE,
                           loading |-> FALSE, total |-> 0]]
    /\ worker = [corpora |-> [s \in {} |-> <<>>], building |-> [s \in {} |-> <<>>],
                 cancelled |-> {}, replies |-> <<>>]

Flushed == View = tab.done

(* The debounced query changes.                                              *)
Type ==
    /\ Flushed /\ typed < MaxTyped
    /\ \E q \in Queries \cup {""} : q # query /\ query' = q
    /\ typed' = typed + 1
    /\ UNCHANGED <<table, written, prov, load, tab, worker>>

(* Another capture changes the documents, and the mutation's event arrives.  *)
Write ==
    /\ written < MaxWrites
    /\ table' = table + 1 /\ written' = written + 1
    /\ UNCHANGED <<query, typed, prov, load, tab, worker>>

(* A variant whose load goes on when the documents have changed.             *)
NoticeKeepsLoad ==
    /\ Flushed /\ prov.noticed # table
    /\ prov' = [NoDocuments EXCEPT !.noticed = table]
    /\ UNCHANGED <<query, typed, table, written, load, tab, worker>>

Notice ==
    /\ Flushed /\ prov.noticed # table
    /\ prov' = [NoDocuments EXCEPT !.noticed = table]
    /\ load' = NoLoad
    /\ UNCHANGED <<query, typed, table, written, tab, worker>>

(* The effects of a render; the first calls load() when there is a query.    *)
LoadWanted == query # "" /\ ~prov.loaded /\ ~prov.loading /\ prov.docs = 0

Effects ==
    /\ ~Flushed
    /\ tab' = RunEffects(tab, View)
    /\ IF LoadWanted /\ ~load.active
       THEN prov' = [prov EXCEPT !.loading = TRUE] /\ load' = [NoLoad EXCEPT !.active = TRUE]
       ELSE UNCHANGED <<prov, load>>
    /\ UNCHANGED <<query, typed, table, written, worker>>

(* load(): the count and, below the limit, the documents; both are read in   *)
(* one step, and kept until they arrive.                                     *)
LoadReads ==
    /\ load.active /\ load.version = 0
    /\ load' = [load EXCEPT !.version = table]
    /\ UNCHANGED <<query, typed, table, written, prov, tab, worker>>

LoadArrives ==
    /\ Flushed /\ load.version # 0
    /\ prov' = [prov EXCEPT !.loading = FALSE, !.loaded = TRUE,
                            !.total = Totals[load.version],
                            !.docs = IF Totals[load.version] \in 1..Limit
                                     THEN load.version ELSE 0]
    /\ load' = NoLoad
    /\ UNCHANGED <<query, typed, table, written, tab, worker>>

LoadFails ==
    /\ Flushed /\ load.active
    /\ prov' = [prov EXCEPT !.loading = FALSE, !.loaded = TRUE, !.total = 0, !.docs = 0]
    /\ load' = NoLoad
    /\ UNCHANGED <<query, typed, table, written, tab, worker>>

-----------------------------------------------------------------------------
(* loadChunks(): the count, then page after page, until the search is        *)
(* cancelled or the pages are read; then useSearchDocuments is told.         *)
Abandoned(r) == tab.runs[r].cancelled \/ tab.latest # r

NextPage(t, r) ==
    CASE Abandoned(r) -> At([t EXCEPT !.runs[r].ended = TRUE], r, "end")
      [] ~Abandoned(r) /\ t.runs[r].page < t.runs[r].count -> At(t, r, "page")
      [] OTHER -> At(t, r, "end")

Count(r) ==
    /\ tab.runs[r].at = "count"
    /\ tab' = NextPage([tab EXCEPT !.runs[r].count = Totals[table]], r)
    /\ UNCHANGED <<query, typed, table, written, prov, load, worker>>

Page(r) ==
    LET n    == tab.runs[r].page + 1
        rest == Totals[table]
    IN  /\ tab.runs[r].at = "page"
        /\ tab' =
              IF Abandoned(r) THEN NextPage(tab, r)
              ELSE IF n > rest THEN At(tab, r, "end")
              ELSE LET sent == Post([tab EXCEPT !.runs[r].page = n],
                                    Message("append", AsRun(r), Key(tab, r)[1][1], <<table>>))
                   IN  IF n < rest THEN NextPage(sent, r) ELSE At(sent, r, "end")
        /\ UNCHANGED <<query, typed, table, written, prov, load, worker>>

EndStream(r) ==
    LET run == tab.runs[r] IN
    /\ Flushed /\ run.at = "end"
    /\ prov' = [prov EXCEPT !.docs = IF run.count > Limit THEN 0 ELSE @,
                            !.loading = FALSE, !.loaded = @ \/ ~run.ended,
                            !.total = run.count]
    /\ tab' = IF run.ended \/ Abandoned(r) THEN Leave(tab, r)
              ELSE Post(At(tab, r, "commit"),
                        Message("commit", AsRun(r), run.key[1][1], <<>>))
    /\ UNCHANGED <<query, typed, table, written, load, worker>>

(* The timer of the warm effect fires.                                       *)
WarmFires ==
    LET w == Len(tab.warms) + 1 IN
    /\ tab.timer # None /\ w <= MaxWarms
    /\ LET off == [tab EXCEPT !.timer = None] IN
       tab' = IF tab.ready = tab.timer THEN off
              ELSE Post([off EXCEPT !.warmKey = tab.timer, !.warming = w,
                                    !.warms = Append(@, [identity |-> tab.timer, cancelled |-> FALSE])],
                        Message("set", <<"warm", w>>, tab.timer[1], CorpusRows(tab.done)))
    /\ UNCHANGED <<query, typed, table, written, prov, load, worker>>

-----------------------------------------------------------------------------
(* The worker takes the messages in their order.                             *)
With(corpora, scope, rows) ==
    [s \in DOMAIN corpora \cup {scope} |-> IF s = scope THEN rows ELSE corpora[s]]

Appended(corpora, scope, rows) ==
    With(corpora, scope, (IF scope \in DOMAIN corpora THEN corpora[scope] ELSE <<>>) \o rows)

Without(corpora, scope) == [s \in DOMAIN corpora \ {scope} |-> corpora[s]]

Answer(w, message, ok, rows) ==
    [w EXCEPT !.replies = Append(@, [to |-> message.by, ok |-> ok, rows |-> rows])]

Build(w, message) ==
    [w EXCEPT !.corpora = Without(@, message.scope),
              !.building = With(@, message.scope, <<>>)]

Stopped(w, message) ==
    [w EXCEPT !.building = IF message.type = "query" THEN @ ELSE Without(@, message.scope),
              !.cancelled = @ \ {message.by}]

Handle(w, message) ==
    LET scope == message.scope IN
    CASE message.type = "cancel" -> [w EXCEPT !.cancelled = @ \cup {message.by}]
      [] message.type = "set" ->
            Answer([w EXCEPT !.corpora = With(@, scope, message.content)], message, TRUE, <<>>)
      [] message.type = "query" /\ scope \notin DOMAIN w.corpora ->
            Answer(w, message, FALSE, <<>>)
      [] message.type \in {"begin", "append", "commit", "query"} /\ message.by \in w.cancelled
           /\ (message.type = "query" => scope \in DOMAIN w.corpora) -> Stopped(w, message)
      [] message.type = "begin" /\ message.by \notin w.cancelled -> Build(w, message)
      [] message.type = "append" /\ message.by \notin w.cancelled ->
            [w EXCEPT !.building = Appended(@, scope, message.content)]
      [] message.type = "commit" /\ message.by \notin w.cancelled ->
            IF scope \notin DOMAIN w.building THEN Answer(w, message, FALSE, <<>>)
            ELSE Answer([w EXCEPT !.building = Without(@, scope),
                                  !.corpora = With(@, scope, w.building[scope])],
                        message, TRUE, <<>>)
      [] OTHER -> Answer(w, message, TRUE, w.corpora[scope])

Work ==
    /\ tab.posted # <<>>
    /\ \/ worker' = Handle(worker, Head(tab.posted))
       \/ /\ Head(tab.posted).type \in Failing
          /\ worker' = Answer(worker, Head(tab.posted), FALSE, <<>>)
    /\ tab' = [tab EXCEPT !.posted = Tail(@)]
    /\ UNCHANGED <<query, typed, table, written, prov, load>>

(* An answer, and what its request's promise goes on with.                   *)
Result(t, r, rows) ==
    IF t.latest # r THEN Leave(t, r)
    ELSE [t EXCEPT !.shown = Shown(Key(t, r), FALSE, "ready", rows), !.result = rows,
                   !.completed = Key(t, r), !.runs[r].at = "hydrate",
                   !.inFlight = IF @ = Key(t, r) THEN None ELSE @]

Answered(t, r, reply) ==
    CASE t.runs[r].at = "commit" /\ ~reply.ok -> SetCorpus(t, r)
      [] t.runs[r].at = "commit" /\ reply.ok -> Prepared(t, r, TRUE)
      [] t.runs[r].at = "set" -> Prepared(t, r, reply.ok)
      [] t.runs[r].at = "query" /\ reply.ok -> Result(t, r, reply.rows)
      [] t.runs[r].at = "query" /\ ~reply.ok -> Caught(t, r, "failed")
      [] OTHER -> t

(* The warm promise settles, for the effect and for the search awaiting it.  *)
Warmed(t, w, ok) ==
    LET warm   == t.warms[w]
        known  == IF ok /\ ~warm.cancelled THEN [t EXCEPT !.ready = warm.identity] ELSE t
        off    == [known EXCEPT !.warmKey = IF @ = warm.identity THEN None ELSE @,
                                !.warming = IF @ = w THEN 0 ELSE @]
        waits  == {r \in DOMAIN t.runs : t.runs[r].at = "warm" /\ t.runs[r].warm = w}
        Go(s, r) == IF ok THEN Prepared(s, r, TRUE) ELSE Prepare(s, r)
    IN  FoldLeft(LAMBDA s, r : IF r \in waits THEN Go(s, r) ELSE s,
                 off, [r \in DOMAIN t.runs |-> r])

Receive ==
    /\ worker.replies # <<>>
    /\ LET reply == Head(worker.replies) IN
       tab' = IF reply.to[1] = "warm" THEN Warmed(tab, reply.to[2], reply.ok)
              ELSE Answered(tab, reply.to[2], reply)
    /\ worker' = [worker EXCEPT !.replies = Tail(@)]
    /\ UNCHANGED <<query, typed, table, written, prov, load>>

(* The records the result lacks arrive, for the last search, or do not; the  *)
(* result is shown once more.                                                *)
Hydrate(r) ==
    /\ tab.runs[r].at = "hydrate"
    /\ \/ tab' = [Finished(tab, r) EXCEPT !.shown =
                    IF tab.latest # r THEN @
                    ELSE Shown(Key(tab, r), FALSE, "ready", tab.result)]
       \/ tab' = Finished(tab, r)
    /\ UNCHANGED <<query, typed, table, written, prov, load, worker>>

Run(r) == Count(r) \/ Page(r) \/ EndStream(r) \/ Hydrate(r)

Next ==
    \/ Type \/ Write \/ Notice \/ Effects
    \/ LoadReads \/ LoadArrives \/ LoadFails
    \/ WarmFires \/ Work \/ Receive
    \/ \E r \in DOMAIN tab.runs : Run(r)

Spec == Init /\ [][Next]_vars

-----------------------------------------------------------------------------
Phases == {"preparing-corpus", "querying", "ready", "cancelled", "failed", "unavailable"}
SentRows == Seq(Nat)

(* The state of the table has its shape.                                     *)
TypeOK ==
    /\ query \in Queries \cup {""} /\ table \in DOMAIN Totals
    /\ prov.docs \in {0} \cup DOMAIN Totals /\ prov.total \in Nat
    /\ tab.latest = Len(tab.runs) /\ tab.cleanup \in 0..tab.latest
    /\ tab.shown # None => tab.shown.phase \in Phases /\ tab.shown.rows \in SentRows

(* Nothing is under way any more.                                            *)
Quiet ==
    /\ Flushed /\ prov.noticed = table /\ ~load.active
    /\ tab.posted = <<>> /\ worker.replies = <<>>
    /\ \A r \in DOMAIN tab.runs : tab.runs[r].at \notin {"count", "page", "end", "hydrate"}

(* A result shown as ready for the current search was computed over the      *)
(* whole of the documents as they are now, never over a corpus of a stream   *)
(* that was cut off, of an older version, or of another scope (the requests, *)
(* their cancellation and the remembered keys of the controller and worker); *)
(* and when the controller takes the corpus of the current search for ready  *)
(* (readyCorpusKeyRef), the worker has the whole of it under its scope.      *)
(* Where no document was loaded the search is over whatever the worker has.  *)
ReadyIsCurrent ==
    Quiet /\ prov.total > 0 =>
        /\ tab.shown # None /\ tab.shown.phase = "ready" /\ tab.shown.key = SearchKey(View)
               => tab.shown.rows = Rows(table)
        /\ Searches(View) /\ tab.ready = CorpusIdentity(View)
               => /\ Scope(View) \in DOMAIN worker.corpora
                  /\ worker.corpora[Scope(View)] = Rows(table)

Pending == tab.shown # None /\ tab.shown.key = SearchKey(View) /\ tab.shown.pending

(* No search is left pending: once nothing is under way the state that is    *)
(* shown has a result, an error or a cancellation, whatever was typed or     *)
(* captured in between.  Excepted is a table without documents: after a      *)
(* mutation its search has been completed under the same key already, and    *)
(* the state that is pending stays.                                          *)
NoneLeftPending == Quiet /\ prov.total > 0 => ~Pending

=============================================================================

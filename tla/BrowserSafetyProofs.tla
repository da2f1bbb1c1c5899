------------------------ MODULE BrowserSafetyProofs ------------------------
(* A loss the baseline knows of is gated, for any tabs, records, generations *)
(* and losses.  LossIsGated is not inductive: a page about to write a        *)
(* baseline, or a database that has records again, would end in a live page. *)
(* GateIsClosed says why neither exists while the loss is missing.           *)
(* The spool of raw events, which the tabs share beside the archive, has an  *)
(* invariant of its own: what a flush deletes is settled.                    *)
EXTENDS BrowserSafety, RawSpool, FiniteSetTheorems, TLAPS

Sentinels == [name : Names \cup {NoName}, total : Nat]
Page == [at : {"closed", "sentinel", "inventory", "write", "gate", "live"},
         own : Names \cup {NoName}, manager : Names \cup {NoName},
         then : {"boot", "retry", "reload", "stay"}, acknowledged : BOOLEAN,
         seen : Sentinels \cup {NoSentinel}, next : Sentinels \cup {NoSentinel},
         running : BOOLEAN]

Typed ==
    /\ databases \in [Names -> {Absent} \cup SUBSET Records]
    /\ published \in Names \cup {NoName}
    /\ sentinel \in Sentinels \cup {NoSentinel}
    /\ pointer # NoPointer => pointer.name \in Names /\ pointer.content \subseteq Records
    /\ generations \in Names
    /\ canonical \subseteq Records /\ pending \subseteq Records
    /\ pages \in [SafetyTabs -> Page]
    /\ missing \in BOOLEAN

GateIsClosed ==
    missing =>
        /\ sentinel # NoSentinel /\ sentinel.total > 0
        /\ \A n \in Names : ContentOf(n) = {}
        /\ \A t \in SafetyTabs :
             /\ pages[t].at \notin {"write", "live"}
             /\ ~pages[t].running
             /\ pages[t].at \in {"sentinel", "inventory"} => ~pages[t].acknowledged
             /\ pages[t].at = "inventory" => pages[t].seen = sentinel

(* A page that is closed captures nothing.                                   *)
ClosedIsQuiet == \A t \in SafetyTabs : pages[t].at = "closed" => ~pages[t].running

IInv == Typed /\ ClosedIsQuiet /\ GateIsClosed

-----------------------------------------------------------------------------
(* What the operators return.                                                *)

LEMMA ClosedIsPage == Closed \in Page
  BY DEF Closed, Page

LEMMA ContentFacts ==
    ASSUME Typed, NEW n \in Names
    PROVE  ContentOf(n) \subseteq Records /\ Cardinality(ContentOf(n)) \in Nat
<1>1. ContentOf(n) \subseteq Records
  BY DEF Typed, ContentOf
<1>2. IsFiniteSet(ContentOf(n))
  BY <1>1, SafetyAssumption, FS_Subset
<1> QED
  BY <1>1, <1>2, FS_CardinalityType

LEMMA OpenedFacts ==
    ASSUME Typed, NEW p \in Page
    PROVE  /\ NameFor(p) \in Names /\ Opened(p) \in Page
           /\ Opened(p).manager = NameFor(p)
           /\ Opened(p).at = p.at /\ Opened(p).running = p.running
           /\ PublishedBy(p) \in Names \cup {NoName}
<1>1. ManagerName \in Names
  BY SafetyAssumption DEF Typed, ManagerName, Names
<1>2. NameFor(p) \in Names
  BY <1>1 DEF NameFor, Page
<1> QED
  BY <1>1, <1>2 DEF Opened, Page, PublishedBy, Typed

LEMMA CheckingFacts ==
    ASSUME NEW p \in Page, NEW then \in {"boot", "retry", "reload", "stay"},
           NEW acknowledged \in BOOLEAN
    PROVE  /\ Checking(p, then, acknowledged) \in Page
           /\ Checking(p, then, acknowledged).at = "sentinel"
           /\ Checking(p, then, acknowledged).acknowledged = acknowledged
           /\ Checking(p, then, acknowledged).running = p.running
  BY DEF Checking, Page

LEMMA ConcludedFacts ==
    ASSUME NEW p \in Page, NEW phase
    PROVE  /\ Concluded(p, phase) \in Page
           /\ Concluded(p, phase).at \in {"closed", "gate", "live"}
           /\ Concluded(p, phase).at = "closed" => ~Concluded(p, phase).running
           /\ phase = "recovery_required" =>
                /\ Concluded(p, phase).at \in {"closed", "gate"}
                /\ Concluded(p, phase).running => p.running
<1> DEFINE at == IF phase = "recovery_required" THEN "gate" ELSE "live"
           shown == [Closed EXCEPT !.at = at, !.own = p.own, !.manager = p.manager,
                                   !.running = p.running \/ at = "live"]
<1>1. Concluded(p, phase) = Closed \/ Concluded(p, phase) = shown
  BY DEF Concluded
<1>2. Closed \in Page /\ Closed.at = "closed" /\ Closed.running = FALSE
  BY ClosedIsPage DEF Closed
<1>3. (p.running \/ at = "live") \in BOOLEAN
  BY DEF Page
<1>4. /\ shown \in Page /\ shown.at = at
      /\ shown.running = (p.running \/ at = "live")
  <2> HIDE DEF at
  <2>1. at \in {"gate", "live"}
    BY DEF at
  <2> QED
    BY <1>2, <1>3, <2>1 DEF Page
<1>5. at \in {"gate", "live"} /\ (phase = "recovery_required" => at = "gate")
  OBVIOUS
<1> HIDE DEF at, shown
<1>6. CASE Concluded(p, phase) = Closed
  BY <1>2, <1>6
<1>7. CASE Concluded(p, phase) = shown
  <2>1. shown.at # "closed"
    BY <1>4, <1>5
  <2>2. phase = "recovery_required" => (shown.running => p.running)
    BY <1>4, <1>5
  <2> QED
    BY <1>4, <1>5, <1>7, <2>1, <2>2
<1> QED
  BY <1>1, <1>6, <1>7

LEMMA RowFacts ==
    ASSUME Typed, NEW p \in Page
    PROVE  FindCurrentRow(p) \in Names \cup {NoName}
<1>1. ActiveName(p) \in Names \cup {NoName}
  BY DEF Typed, Page, ActiveName
<1>2. Rows(p) \subseteq Names
  BY <1>1 DEF Rows, Existing
<1>3. Cardinality(Rows(p)) = 1 => Rows(p) # {}
  BY FS_EmptySet
<1> QED
  BY <1>1, <1>2, <1>3 DEF FindCurrentRow

LEMMA BaselineFacts ==
    ASSUME Typed, NEW p \in Page
    PROVE  Baseline(p) \in Sentinels
<1>1. CountOf(FindCurrentRow(p)) \in Nat
  BY RowFacts, ContentFacts DEF CountOf
<1>2. ActiveName(p) \in Names \cup {NoName}
  BY DEF Typed, Page, ActiveName
<1>3. p.seen # NoSentinel => p.seen.name \in Names \cup {NoName}
  BY DEF Page, Sentinels
<1> QED
  BY <1>1, <1>2, <1>3 DEF Baseline, Sentinels

(* A check that knows of records and finds every database without any asks   *)
(* for recovery, whichever row it takes for the current one.                 *)
LEMMA EmptyIsNoticed ==
    ASSUME Typed, NEW p \in Page, p.seen # NoSentinel, p.seen.total > 0,
           \A n \in Names : ContentOf(n) = {}
    PROVE  AssessContinuity(p) = "recovery_required"
<1> DEFINE row == FindCurrentRow(p)
           previous == p.seen.total
<1>1. previous \in Nat /\ previous > 0
  BY DEF Page, Sentinels
<1>2. CASE row = NoName \/ row \notin Existing
  BY <1>1, <1>2 DEF AssessContinuity
<1>3. CASE row # NoName /\ row \in Existing
  <2>1. CountOf(row) = 0
    BY <1>3, FS_EmptySet DEF CountOf, Existing
  <2>2. Dropped(previous, 0)
    <3>1. previous \div 2 \in Nat
      BY <1>1
    <3> QED
      BY <3>1 DEF Dropped
  <2> QED
    BY <1>1, <2>1, <2>2 DEF AssessContinuity
<1> QED
  BY <1>2, <1>3

-----------------------------------------------------------------------------
(* Every step keeps the types.                                               *)

LEMMA InitIInv == SafetyInit => IInv
<1> SUFFICES ASSUME SafetyInit PROVE IInv
  OBVIOUS
<1>1. 0 \in Names
  BY SafetyAssumption DEF Names
<1>2. pages \in [SafetyTabs -> Page]
  BY ClosedIsPage DEF SafetyInit
<1> QED
  BY <1>1, <1>2 DEF SafetyInit, IInv, Typed, GateIsClosed, ClosedIsQuiet, Closed

LEMMA DatabasesTyped ==
    ASSUME Typed, NEW n \in Names, NEW content \in SUBSET Records
    PROVE  DatabasesWith(n, content) \in [Names -> {Absent} \cup SUBSET Records]
  BY DEF Typed, DatabasesWith

LEMMA ProjectedTyped ==
    ASSUME Typed, NEW t \in SafetyTabs, NEW page \in Page, NEW content \in SUBSET Records,
           NEW opened \in [Names -> {Absent} \cup SUBSET Records],
           NEW then \in {"boot", "retry", "reload", "stay"},
           Projected(t, page, content, opened, then), UNCHANGED <<sentinel, pending>>
    PROVE  Typed' /\ missing' = FALSE
<1> DEFINE name == generations + 1
           q == Checking([page EXCEPT !.own = name, !.manager = NoName], then, TRUE)
<1>1. name \in Names
  BY SafetyAssumption DEF Projected, Typed, Names
<1>2. [page EXCEPT !.own = name, !.manager = NoName] \in Page
  BY <1>1 DEF Page
<1>3. q \in Page
  BY <1>2, CheckingFacts
<1>4. pages' = [pages EXCEPT ![t] = q]
  BY DEF Projected
<1>5. pages' \in [SafetyTabs -> Page]
  <2> HIDE DEF q
  <2> QED
    BY <1>3, <1>4 DEF Typed
<1>6. /\ generations' = name /\ databases' = [opened EXCEPT ![name] = content]
      /\ pointer' = [name |-> name, content |-> content] /\ published' = name
      /\ canonical' = content /\ missing' = FALSE
  BY DEF Projected
<1> HIDE DEF name
<1> QED
  BY <1>1, <1>5, <1>6 DEF Typed

LEMMA NextTyped == Typed /\ [SafetyNext]_safetyVars => Typed'
<1> SUFFICES ASSUME Typed, [SafetyNext]_safetyVars PROVE Typed'
  OBVIOUS
<1>1. CASE UNCHANGED safetyVars
  BY <1>1 DEF Typed, safetyVars
<1>2. CASE Wipe
  BY <1>2 DEF Wipe, Typed, Known
<1>3. ASSUME NEW t \in SafetyTabs, Load(t) PROVE Typed'
  BY <1>3, ClosedIsPage, CheckingFacts DEF Load, Typed
<1>4. ASSUME NEW t \in SafetyTabs, LoadUnprojected(t) PROVE Typed'
  <2> DEFINE page == Opened(Closed)
  <2>1. page \in Page /\ page.manager \in Names
        /\ PublishedBy(Closed) \in Names \cup {NoName}
    BY ClosedIsPage, OpenedFacts
  <2>2. Checking(page, "boot", FALSE) \in Page
    BY <2>1, CheckingFacts
  <2>3. databases' \in [Names -> {Absent} \cup SUBSET Records]
    BY <1>4, <2>1, ContentFacts, DatabasesTyped DEF LoadUnprojected
  <2> HIDE DEF page
  <2> QED
    BY <1>4, <2>1, <2>2, <2>3 DEF LoadUnprojected, Typed, page
<1>5. ASSUME NEW t \in SafetyTabs, LoadProjected(t) PROVE Typed'
  <2> DEFINE page == Opened(Closed)
             opened == DatabasesWith(page.manager, ContentOf(page.manager))
             source == IF pointer = NoPointer /\ canonical = {} THEN ContentOf(0) ELSE {}
  <2>1. page \in Page /\ page.manager \in Names
    BY ClosedIsPage, OpenedFacts
  <2>2. opened \in [Names -> {Absent} \cup SUBSET Records]
    BY <2>1, ContentFacts, DatabasesTyped
  <2>3. canonical \cup source \in SUBSET Records
    <3>1. 0 \in Names
      BY SafetyAssumption DEF Names
    <3> QED
      BY <3>1, ContentFacts DEF Typed
  <2>4. Projected(t, page, canonical \cup source, opened, "boot")
        /\ UNCHANGED <<sentinel, pending>>
    BY <1>5 DEF LoadProjected
  <2> HIDE DEF page, opened, source
  <2> QED
    BY <2>1, <2>2, <2>3, <2>4, ProjectedTyped
<1>6. ASSUME NEW t \in SafetyTabs, ReadSentinel(t) PROVE Typed'
  <2> DEFINE q == [pages[t] EXCEPT !.at = "inventory", !.seen = sentinel]
  <2>1. pages' = [pages EXCEPT ![t] = q]
    BY <1>6 DEF ReadSentinel, Typed
  <2>2. q \in Page
    BY DEF Typed, Page
  <2> HIDE DEF q
  <2> QED
    BY <1>6, <2>1, <2>2 DEF ReadSentinel, Typed
<1>7. ASSUME NEW t \in SafetyTabs, TakeInventory(t) PROVE Typed'
  <2>1. pages[t] \in Page
    BY DEF Typed
  <2>2. [pages[t] EXCEPT !.at = "write", !.next = Baseline(pages[t])] \in Page
    BY <2>1, BaselineFacts DEF Page
  <2>3. Concluded(pages[t], AssessContinuity(pages[t])) \in Page
    BY <2>1, ConcludedFacts
  <2> QED
    BY <1>7, <2>2, <2>3 DEF TakeInventory, Typed
<1>8. ASSUME NEW t \in SafetyTabs, WriteSentinel(t) PROVE Typed'
  <2>1. pages[t] \in Page /\ pages[t].next \in Sentinels \cup {NoSentinel}
    BY DEF Typed, Page
  <2>2. Concluded(pages[t], "healthy") \in Page
    BY <2>1, ConcludedFacts
  <2> QED
    BY <1>8, <2>1, <2>2 DEF WriteSentinel, Typed
<1>9. ASSUME NEW t \in SafetyTabs, CheckFails(t) PROVE Typed'
  <2>1. Concluded(pages[t], "recovery_required") \in Page
    BY ConcludedFacts DEF Typed
  <2> QED
    BY <1>9, <2>1 DEF CheckFails, Typed
<1>10. ASSUME NEW t \in SafetyTabs, NEW r \in Records, Capture(t, r) PROVE Typed'
  <2> DEFINE page == Opened(pages[t])
  <2>1. pages[t] \in Page
    BY DEF Typed
  <2>2. page \in Page /\ page.manager \in Names
        /\ PublishedBy(pages[t]) \in Names \cup {NoName}
    BY <2>1, OpenedFacts
  <2>3. databases' \in [Names -> {Absent} \cup SUBSET Records]
    <3>1. ContentOf(page.manager) \cup {r} \in SUBSET Records
      BY <2>2, ContentFacts
    <3> QED
      BY <1>10, <2>2, <3>1, DatabasesTyped DEF Capture
  <2>4. canonical' \subseteq Records /\ pending' \subseteq Records
    BY <1>10 DEF Capture, Typed
  <2>5. /\ published' = PublishedBy(pages[t]) /\ pages' = [pages EXCEPT ![t] = page]
        /\ UNCHANGED <<paired, sentinel, pointer, generations, wipes, missing>>
    BY <1>10 DEF Capture
  <2> HIDE DEF page
  <2> QED
    BY <2>2, <2>3, <2>4, <2>5 DEF Typed
<1>11. ASSUME NEW t \in SafetyTabs, Clear(t) \/ Destroy(t) PROVE Typed'
  <2> DEFINE page == Opened(pages[t])
  <2>1. pages[t] \in Page
    BY DEF Typed
  <2>2. page \in Page /\ page.manager \in Names
        /\ PublishedBy(pages[t]) \in Names \cup {NoName}
    BY <2>1, OpenedFacts
  <2>3. databases' \in [Names -> {Absent} \cup SUBSET Records]
    BY <1>11, <2>2, DatabasesTyped DEF Clear, Destroy
  <2>4. PICK then \in {"boot", "retry", "reload", "stay"} :
            pages' = [pages EXCEPT ![t] = Checking(page, then, TRUE)]
    BY <1>11 DEF Clear, Destroy
  <2>5. Checking(page, then, TRUE) \in Page
    BY <2>2, CheckingFacts
  <2>6. pages' \in [SafetyTabs -> Page]
    BY <2>4, <2>5 DEF Typed
  <2>7. /\ published' = PublishedBy(pages[t]) /\ missing' = FALSE
        /\ UNCHANGED <<sentinel, pointer, generations, pending>>
        /\ canonical' \in {canonical, {}}
    BY <1>11 DEF Clear, Destroy
  <2> QED
    BY <2>2, <2>3, <2>6, <2>7 DEF Typed
<1>12. ASSUME NEW t \in SafetyTabs, Retry(t) PROVE Typed'
  <2>1. Checking(pages[t], "retry", FALSE) \in Page
    BY CheckingFacts DEF Typed
  <2> QED
    BY <1>12, <2>1 DEF Retry, Typed
<1>13. ASSUME NEW t \in SafetyTabs, Restore(t) PROVE Typed'
  <2>1. PICK snapshot \in SUBSET Records :
            Projected(t, pages[t], snapshot, databases, "retry")
    BY <1>13 DEF Restore
  <2>2. UNCHANGED <<sentinel, pending>>
    BY <1>13 DEF Restore
  <2>3. pages[t] \in Page /\ databases \in [Names -> {Absent} \cup SUBSET Records]
    BY DEF Typed
  <2> QED
    BY <2>1, <2>2, <2>3, ProjectedTyped
<1>14. ASSUME NEW t \in SafetyTabs, Close(t) PROVE Typed'
  BY <1>14, ClosedIsPage DEF Close, Typed
<1> QED
  BY <1>1, <1>2, <1>3, <1>4, <1>5, <1>6, <1>7, <1>8, <1>9, <1>10, <1>11, <1>12,
     <1>13, <1>14 DEF SafetyNext

LEMMA NextQuiet == Typed /\ ClosedIsQuiet /\ [SafetyNext]_safetyVars => ClosedIsQuiet'
<1> SUFFICES ASSUME Typed, ClosedIsQuiet, [SafetyNext]_safetyVars PROVE ClosedIsQuiet'
  OBVIOUS
<1> DEFINE Quiet(q) == q.at = "closed" => ~q.running
<1>1. \A t \in SafetyTabs : Quiet(pages[t]) /\ pages[t] \in Page
  BY DEF ClosedIsQuiet, Typed
<1>2. Quiet(Closed)
  BY DEF Closed
<1>3. \A p \in Page, then \in {"boot", "retry", "reload", "stay"}, a \in BOOLEAN :
        Quiet(Checking(p, then, a))
  BY CheckingFacts
<1>4. \A p \in Page : \A phase : Quiet(Concluded(p, phase))
  BY ConcludedFacts
<1>5. \A t \in SafetyTabs : Quiet(Opened(pages[t])) /\ Opened(pages[t]) \in Page
  BY <1>1, OpenedFacts
<1>6. ASSUME NEW t \in SafetyTabs, NEW q, Quiet(q), pages' = [pages EXCEPT ![t] = q]
      PROVE  ClosedIsQuiet'
  BY <1>1, <1>6 DEF ClosedIsQuiet, Typed
<1>7. CASE UNCHANGED safetyVars \/ Wipe
  BY <1>1, <1>7 DEF safetyVars, Wipe, ClosedIsQuiet
<1>8. ASSUME NEW t \in SafetyTabs, Load(t) PROVE ClosedIsQuiet'
  BY <1>3, <1>6, <1>8, ClosedIsPage DEF Load
<1>9. ASSUME NEW t \in SafetyTabs, LoadUnprojected(t) PROVE ClosedIsQuiet'
  <2>1. Opened(Closed) \in Page
    BY ClosedIsPage, OpenedFacts
  <2> QED
    BY <1>3, <1>6, <1>9, <2>1 DEF LoadUnprojected
<1>10. ASSUME NEW t \in SafetyTabs, LoadProjected(t) \/ Restore(t) PROVE ClosedIsQuiet'
  <2>1. PICK p, content, opened, then : Projected(t, p, content, opened, then)
    BY <1>10 DEF LoadProjected, Restore
  <2> DEFINE own == [p EXCEPT !.own = generations + 1, !.manager = NoName]
  <2>2. pages' = [pages EXCEPT ![t] = Checking(own, then, TRUE)]
    BY <2>1 DEF Projected
  <2>3. pages'[t] = Checking(own, then, TRUE) /\ \A u \in SafetyTabs \ {t} : pages'[u] = pages[u]
    BY <2>2 DEF Typed
  <2>4. Quiet(pages'[t])
    <3>1. pages'[t] \in Page
      BY NextTyped DEF Typed
    <3>2. pages'[t] = [own EXCEPT !.at = "sentinel", !.then = then, !.acknowledged = TRUE]
      BY <2>3 DEF Checking
    <3> QED
      BY <3>1, <3>2 DEF Page
  <2> QED
    BY <1>1, <2>3, <2>4 DEF ClosedIsQuiet
<1>11. ASSUME NEW t \in SafetyTabs, ReadSentinel(t) PROVE ClosedIsQuiet'
  <2> DEFINE q == [pages[t] EXCEPT !.at = "inventory", !.seen = sentinel]
  <2>1. pages' = [pages EXCEPT ![t] = q]
    BY <1>11 DEF ReadSentinel, Typed
  <2>2. q.at = "inventory"
    BY <1>1 DEF Page
  <2> QED
    BY <1>6, <2>1, <2>2
<1>12. ASSUME NEW t \in SafetyTabs, TakeInventory(t) PROVE ClosedIsQuiet'
  <2>1. [pages[t] EXCEPT !.at = "write", !.next = Baseline(pages[t])].at = "write"
    BY <1>1 DEF Page
  <2> QED
    BY <1>1, <1>4, <1>6, <1>12, <2>1 DEF TakeInventory
<1>13. ASSUME NEW t \in SafetyTabs, WriteSentinel(t) \/ CheckFails(t) PROVE ClosedIsQuiet'
  BY <1>1, <1>4, <1>6, <1>13 DEF WriteSentinel, CheckFails
<1>14. ASSUME NEW t \in SafetyTabs, NEW r \in Records, Capture(t, r) PROVE ClosedIsQuiet'
  BY <1>5, <1>6, <1>14 DEF Capture
<1>15. ASSUME NEW t \in SafetyTabs, Clear(t) \/ Destroy(t) PROVE ClosedIsQuiet'
  <2>1. PICK then \in {"boot", "retry", "reload", "stay"} :
            pages' = [pages EXCEPT ![t] = Checking(Opened(pages[t]), then, TRUE)]
    BY <1>15 DEF Clear, Destroy
  <2> QED
    BY <1>3, <1>5, <1>6, <2>1
<1>16. ASSUME NEW t \in SafetyTabs, Retry(t) PROVE ClosedIsQuiet'
  <2>1. pages' = [pages EXCEPT ![t] = Checking(pages[t], "retry", FALSE)]
    BY <1>16 DEF Retry, Typed
  <2> QED
    BY <1>1, <1>3, <1>6, <2>1
<1>17. ASSUME NEW t \in SafetyTabs, Close(t) PROVE ClosedIsQuiet'
  BY <1>2, <1>6, <1>17 DEF Close
<1> QED
  BY <1>7, <1>8, <1>9, <1>10, <1>11, <1>12, <1>13, <1>14, <1>15, <1>16, <1>17 DEF SafetyNext

-----------------------------------------------------------------------------
(* Every step keeps the gate closed.                                         *)

(* What GateIsClosed asks of one page.                                       *)
Gated(p, known) ==
    /\ p.at \notin {"write", "live"} /\ ~p.running
    /\ p.at \in {"sentinel", "inventory"} => ~p.acknowledged
    /\ p.at = "inventory" => p.seen = known

LEMMA OnePageChanges ==
    ASSUME Typed, GateIsClosed, missing, NEW t \in SafetyTabs, NEW q,
           pages' = [pages EXCEPT ![t] = q], Gated(q, sentinel),
           \A n \in Names : ContentOf(n)' = {}, UNCHANGED sentinel
    PROVE  GateIsClosed'
<1>1. \A u \in SafetyTabs : Gated(pages[u], sentinel)
  BY DEF GateIsClosed, Gated
<1>2. \A u \in SafetyTabs : pages'[u] = IF u = t THEN q ELSE pages[u]
  BY DEF Typed
<1>3. \A u \in SafetyTabs : Gated(pages'[u], sentinel')
  BY <1>1, <1>2
<1> QED
  BY <1>3 DEF GateIsClosed, Gated

LEMMA NextGated == IInv /\ [SafetyNext]_safetyVars => GateIsClosed'
<1> SUFFICES ASSUME Typed, ClosedIsQuiet, GateIsClosed, [SafetyNext]_safetyVars, missing'
             PROVE  GateIsClosed'
  BY DEF IInv, GateIsClosed
<1> DEFINE Same == \A n \in Names : ContentOf(n)' = {}
<1>1. CASE UNCHANGED safetyVars
  BY <1>1 DEF GateIsClosed, safetyVars, ContentOf
(* A loss the baseline knows of empties every database, and no page is open. *)
<1>2. CASE Wipe
  <2>1. sentinel # NoSentinel /\ sentinel.total > 0
    BY <1>2 DEF Wipe, Known, GateIsClosed
  <2>2. Same
    BY <1>2 DEF Wipe, ContentOf
  <2>3. \A u \in SafetyTabs : Gated(pages[u], sentinel)
    <3>1. CASE missing
      BY <3>1 DEF GateIsClosed, Gated
    <3>2. CASE ~missing
      <4>1. \A u \in SafetyTabs : pages[u].at = "closed" /\ ~pages[u].running
        BY <1>2 DEF Wipe, ClosedIsQuiet
      <4> QED
        BY <4>1 DEF Gated
    <3> QED
      BY <3>1, <3>2
  <2> QED
    BY <1>2, <2>1, <2>2, <2>3 DEF Wipe, GateIsClosed, Gated
(* Any other step leaves `missing` and the sentinel as they are.             *)
<1>3. ASSUME NEW t \in SafetyTabs, Load(t) PROVE GateIsClosed'
  <2> DEFINE q == Checking(Closed, "boot", FALSE)
  <2>1. Gated(q, sentinel)
    BY ClosedIsPage, CheckingFacts DEF Gated, Closed
  <2>2. missing /\ Same
    BY <1>3 DEF Load, GateIsClosed, ContentOf
  <2> QED
    BY <1>3, <2>1, <2>2, OnePageChanges DEF Load
<1>4. ASSUME NEW t \in SafetyTabs, LoadUnprojected(t) PROVE GateIsClosed'
  <2> DEFINE page == Opened(Closed)
             q == Checking(page, "boot", FALSE)
  <2>1. page \in Page /\ ~page.running /\ page.manager \in Names
    BY ClosedIsPage, OpenedFacts DEF Closed
  <2>2. Gated(q, sentinel)
    BY <2>1, CheckingFacts DEF Gated
  <2>3. missing /\ \A n \in Names : ContentOf(n) = {}
    BY <1>4 DEF LoadUnprojected, GateIsClosed
  <2>4. Same
    BY <1>4, <2>1, <2>3 DEF LoadUnprojected, DatabasesWith, ContentOf, Typed
  <2> HIDE DEF q
  <2> QED
    BY <1>4, <2>2, <2>3, <2>4, OnePageChanges DEF LoadUnprojected, q
<1>5. ASSUME NEW t \in SafetyTabs, LoadProjected(t) \/ Restore(t) PROVE FALSE
  BY <1>5 DEF LoadProjected, Restore, Projected
<1>6. ASSUME NEW t \in SafetyTabs, Clear(t) \/ Destroy(t) PROVE FALSE
  BY <1>6 DEF Clear, Destroy
<1>7. ASSUME NEW t \in SafetyTabs, ReadSentinel(t) PROVE GateIsClosed'
  <2> DEFINE q == [pages[t] EXCEPT !.at = "inventory", !.seen = sentinel]
  <2>1. pages[t] \in Page /\ Gated(pages[t], sentinel) /\ missing /\ Same
    BY <1>7 DEF ReadSentinel, GateIsClosed, Gated, Typed, ContentOf
  <2>2. pages' = [pages EXCEPT ![t] = q]
    BY <1>7 DEF ReadSentinel, Typed
  <2>3. Gated(q, sentinel)
    BY <1>7, <2>1 DEF ReadSentinel, Gated, Page
  <2> HIDE DEF q
  <2> QED
    BY <1>7, <2>1, <2>2, <2>3, OnePageChanges DEF ReadSentinel
(* The check finds nothing where the baseline knows of something.            *)
<1>8. ASSUME NEW t \in SafetyTabs, TakeInventory(t) PROVE GateIsClosed'
  <2> DEFINE q == Concluded(pages[t], "recovery_required")
  <2>1. /\ missing /\ sentinel # NoSentinel /\ sentinel.total > 0
        /\ \A n \in Names : ContentOf(n) = {}
        /\ pages[t].at = "inventory" /\ Gated(pages[t], sentinel) /\ pages[t] \in Page
    BY <1>8 DEF TakeInventory, GateIsClosed, Gated, Typed
  <2>2. AssessContinuity(pages[t]) = "recovery_required"
    BY <2>1, EmptyIsNoticed DEF Gated
  <2>3. pages' = [pages EXCEPT ![t] = q]
    BY <1>8, <2>1, <2>2 DEF TakeInventory, Gated
  <2>4. Gated(q, sentinel)
    BY <2>1, ConcludedFacts DEF Gated
  <2>5. Same
    BY <1>8, <2>1 DEF TakeInventory, ContentOf
  <2> HIDE DEF q
  <2> QED
    BY <1>8, <2>1, <2>3, <2>4, <2>5, OnePageChanges DEF TakeInventory
<1>9. ASSUME NEW t \in SafetyTabs, WriteSentinel(t) PROVE FALSE
  BY <1>9 DEF WriteSentinel, GateIsClosed
<1>10. ASSUME NEW t \in SafetyTabs, CheckFails(t) PROVE GateIsClosed'
  <2> DEFINE q == Concluded(pages[t], "recovery_required")
  <2>1. pages[t] \in Page /\ Gated(pages[t], sentinel) /\ missing /\ Same
    BY <1>10 DEF CheckFails, GateIsClosed, Gated, Typed, ContentOf
  <2>2. Gated(q, sentinel)
    BY <2>1, ConcludedFacts DEF Gated
  <2> HIDE DEF q
  <2> QED
    BY <1>10, <2>1, <2>2, OnePageChanges DEF CheckFails, q
<1>11. ASSUME NEW t \in SafetyTabs, NEW r \in Records, Capture(t, r) PROVE FALSE
  BY <1>11 DEF Capture, GateIsClosed
<1>12. ASSUME NEW t \in SafetyTabs, Retry(t) PROVE GateIsClosed'
  <2> DEFINE q == Checking(pages[t], "retry", FALSE)
  <2>1. pages[t] \in Page /\ Gated(pages[t], sentinel) /\ missing /\ Same
    BY <1>12 DEF Retry, GateIsClosed, Gated, Typed, ContentOf
  <2>2. Gated(q, sentinel)
    BY <2>1, CheckingFacts DEF Gated
  <2>3. pages' = [pages EXCEPT ![t] = q]
    BY <1>12 DEF Retry, Typed
  <2> HIDE DEF q
  <2> QED
    BY <1>12, <2>1, <2>2, <2>3, OnePageChanges DEF Retry
<1>13. ASSUME NEW t \in SafetyTabs, Close(t) PROVE GateIsClosed'
  <2>1. Gated(Closed, sentinel)
    BY DEF Gated, Closed
  <2>2. missing /\ Same
    BY <1>13 DEF Close, GateIsClosed, ContentOf
  <2> QED
    BY <1>13, <2>1, <2>2, OnePageChanges DEF Close
<1> QED
  BY <1>1, <1>2, <1>3, <1>4, <1>5, <1>6, <1>7, <1>8, <1>9, <1>10, <1>11, <1>12, <1>13
     DEF SafetyNext

-----------------------------------------------------------------------------
(* The inductive invariant holds of every reachable state.                   *)
THEOREM Invariance == SafetySpec => []IInv
<1>1. IInv /\ [SafetyNext]_safetyVars => IInv'
  BY NextTyped, NextQuiet, NextGated DEF IInv
<1> QED
  BY InitIInv, <1>1, PTL DEF SafetySpec

(* A cache that was lost, and that the last baseline knew to hold records,   *)
(* is presented by no tab until a user has cleared it or it was rebuilt: for *)
(* any number of tabs, records, generations and losses.                      *)
THEOREM LossStaysGated == SafetySpec => []LossIsGated
<1>1. IInv => LossIsGated
  BY DEF IInv, GateIsClosed, LossIsGated
<1> QED
  BY <1>1, Invariance, PTL

-----------------------------------------------------------------------------
(* The spool.                                                                *)
Stages == {"none", "put", "count", "prune", "spooled", "unspooled"}

Put0 == [tab : SpoolTabs \cup {NoTab}, stage : Stages, drop : Int]

Flushes ==
    [stage : {"idle", "list", "sent", "delete", "update", "restore"},
     rows : SUBSET Events, accepted : SUBSET Events]

SpoolTyped ==
    /\ SpoolTypeOK
    /\ put \in [Events -> Put0]
    /\ flush \in [SpoolTabs -> Flushes]

(* A flush deletes what is settled, whatever other flushes did.              *)
DeletesSettled ==
    \A t \in SpoolTabs : flush[t].stage = "delete" => flush[t].accepted \subseteq settled

SpoolIInv == SpoolTyped /\ DeletesSettled /\ NothingLost

LEMMA TooManyIsInt == ASSUME rows \subseteq Events PROVE TooMany \in Int
<1>1. IsFiniteSet(Events)
  BY SpoolAssumption, FS_Interval DEF Events
<1>2. Cardinality(rows) \in Nat
  BY <1>1, FS_Subset, FS_CardinalityType
<1> QED
  BY <1>2, SpoolAssumption DEF TooMany

LEMMA SpoolInitIInv == SpoolInit => SpoolIInv
  BY DEF SpoolInit, SpoolIInv, SpoolTyped, SpoolTypeOK, FlushType, Put0, Stages, Flushes,
         DeletesSettled, NothingLost, Spooled, Uncaptured, Resting

LEMMA EndedIsPut ==
    ASSUME NEW stage \in Stages
    PROVE  Ended(stage) \in Put0 /\ Ended(stage).stage = stage
  BY DEF Ended, Uncaptured, Put0

LEMMA EndStages == "spooled" \in Stages /\ "unspooled" \in Stages
  BY DEF Stages

(* What is given up was not in the spool yet, or stays there.                *)
LEMMA GiveUpFacts ==
    ASSUME NEW t, put \in [Events -> Put0]
    PROVE  /\ GiveUp(t) \in [Events -> Put0]
           /\ \A e \in Events :
                GiveUp(t)[e].stage \in {"count", "prune", "spooled"} => Spooled(e)
<1>1. ASSUME NEW e \in Events
      PROVE  /\ GiveUp(t)[e] \in Put0
             /\ GiveUp(t)[e].stage \in {"count", "prune", "spooled"} => Spooled(e)
  <2>1. put[e] \in Put0
    OBVIOUS
  <2>2. CASE put[e].tab = t /\ put[e].stage = "put"
    <3>1. GiveUp(t)[e] = Ended("unspooled")
      BY <2>2 DEF GiveUp
    <3> QED
      BY <3>1, EndedIsPut, EndStages
  <2>3. CASE put[e].tab = t /\ put[e].stage \in {"count", "prune"}
    <3>1. GiveUp(t)[e] = Ended("spooled")
      BY <2>3 DEF GiveUp
    <3>2. Spooled(e)
      BY <2>3 DEF Spooled
    <3> QED
      BY <3>1, <3>2, EndedIsPut, EndStages
  <2>4. CASE ~ (put[e].tab = t /\ put[e].stage \in {"put", "count", "prune"})
    <3>1. GiveUp(t)[e] = put[e]
      BY <2>4 DEF GiveUp
    <3> QED
      BY <2>1, <3>1 DEF Spooled
  <2> QED
    BY <2>2, <2>3, <2>4
<1>2. DOMAIN GiveUp(t) = Events /\ GiveUp(t) = [e \in Events |-> GiveUp(t)[e]]
  BY DEF GiveUp
<1> QED
  BY <1>1, <1>2

LEMMA SpoolStep == SpoolIInv /\ [SpoolNext]_spoolVars => SpoolIInv'
<1> SUFFICES ASSUME SpoolIInv, [SpoolNext]_spoolVars
             PROVE  SpoolIInv'
  OBVIOUS
<1> USE DEF SpoolIInv, SpoolTyped, SpoolTypeOK, FlushType
<1>0. CASE UNCHANGED spoolVars
  BY <1>0 DEF spoolVars, DeletesSettled, NothingLost, Spooled
<1>1. ASSUME NEW t \in SpoolTabs, NEW e \in Events, CaptureEvent(t, e) PROVE SpoolIInv'
  <2>1. PICK p \in Put0 : p.stage \in {"put", "unspooled"} /\ put' = [put EXCEPT ![e] = p]
    <3>1. [tab |-> t, stage |-> "put", drop |-> 0] \in Put0
      BY DEF Put0, Stages
    <3> QED
      BY <1>1, <3>1, EndedIsPut, EndStages DEF CaptureEvent
  <2>2. put' \in [Events -> Put0] /\ \A d \in Events : Spooled(d)' => Spooled(d)
    BY <2>1 DEF Spooled
  <2> QED
    BY <1>1, <2>1, <2>2 DEF CaptureEvent, DeletesSettled, NothingLost
<1>2. ASSUME NEW e \in Events, Put(e) PROVE SpoolIInv'
  <2>1. put' \in [Events -> Put0] /\ rows' = rows \cup {e}
    BY <1>2 DEF Put, Put0, Stages
  <2>2. \A d \in Events : Spooled(d)' => Spooled(d) \/ d = e
    BY <1>2 DEF Put, Put0, Spooled
  <2> QED
    BY <1>2, <2>1, <2>2 DEF Put, DeletesSettled, NothingLost
<1>3. ASSUME NEW e \in Events, Count(e) PROVE SpoolIInv'
  <2>1. put' \in [Events -> Put0]
    <3>1. CASE TooMany > 0
      <4>1. [tab |-> put[e].tab, stage |-> "prune", drop |-> TooMany] \in Put0
        BY TooManyIsInt DEF Put0, Stages
      <4> QED
        BY <1>3, <3>1, <4>1 DEF Count
    <3>2. CASE ~ (TooMany > 0)
      BY <1>3, <3>2, EndedIsPut, EndStages DEF Count
    <3> QED
      BY <3>1, <3>2
  <2>2. \A d \in Events : Spooled(d)' => Spooled(d)
    BY <1>3 DEF Count, Put0, Spooled
  <2> QED
    BY <1>3, <2>1, <2>2 DEF Count, DeletesSettled, NothingLost
<1>4. ASSUME NEW e \in Events, Prune(e) PROVE SpoolIInv'
  <2>1. put' \in [Events -> Put0]
    BY <1>4, EndedIsPut, EndStages DEF Prune
  <2>2. \A d \in Events : Spooled(d)' => Spooled(d)
    BY <1>4 DEF Prune, Put0, Spooled
  <2>3. Oldest(put[e].drop) \subseteq rows
    BY DEF Oldest
  <2> QED
    BY <1>4, <2>1, <2>2, <2>3 DEF Prune, RowsLeave, DeletesSettled, NothingLost
<1>5. ASSUME NEW e \in Events, Due(e) PROVE SpoolIInv'
  BY <1>5 DEF Due, DeletesSettled, NothingLost, Spooled
<1>6. ASSUME NEW t \in SpoolTabs, Fire(t) PROVE SpoolIInv'
  <2>1. flush' \in [SpoolTabs -> Flushes] /\ FlushType' /\ DeletesSettled'
    BY <1>6 DEF Fire, Flushes, DeletesSettled
  <2> QED
    BY <1>6, <2>1 DEF Fire, NothingLost, Spooled
<1>7. ASSUME NEW t \in SpoolTabs, List(t) PROVE SpoolIInv'
  <2> DEFINE first == {e \in DueRows : Cardinality({d \in DueRows : d <= e}) <= BatchSize}
  <2>1. first \in SUBSET Events
    BY DEF DueRows
  <2>2. flush' = [flush EXCEPT ![t] = IF ~streaming \/ first = {} THEN Resting
                          ELSE [stage |-> "sent", rows |-> first, accepted |-> {}]]
    BY <1>7 DEF List
  <2> HIDE DEF first
  <2>3. flush' \in [SpoolTabs -> Flushes] /\ FlushType' /\ DeletesSettled'
    BY <1>7, <2>1, <2>2 DEF List, Flushes, Resting, DeletesSettled
  <2> QED
    BY <1>7, <2>3 DEF List, NothingLost, Spooled
<1>8. ASSUME NEW t \in SpoolTabs, Delete(t) PROVE SpoolIInv'
  <2>1. flush' \in [SpoolTabs -> Flushes] /\ FlushType' /\ DeletesSettled'
    BY <1>8 DEF Delete, Refused, Flushes, Resting, DeletesSettled
  <2>2. flush[t].accepted \subseteq settled
    BY <1>8 DEF Delete, DeletesSettled
  <2> QED
    BY <1>8, <2>1, <2>2 DEF Delete, RowsLeave, NothingLost, Spooled
<1>9. ASSUME NEW t \in SpoolTabs, Update(t) \/ RestoreBatch(t) PROVE SpoolIInv'
  <2>1. flush' \in [SpoolTabs -> Flushes] /\ FlushType' /\ DeletesSettled'
    <3>1. flush' = [flush EXCEPT ![t] = Resting] /\ settled' = settled
      BY <1>9 DEF Update, RestoreBatch
    <3> QED
      BY <3>1 DEF Flushes, Resting, DeletesSettled
  <2>2. \E S \in SUBSET Events : PutBack(S)
    <3>1. CASE Update(t)
      <4>1. Refused(t) \in SUBSET Events /\ PutBack(Refused(t))
        BY <3>1 DEF Update, Refused
      <4> QED
        BY <4>1
    <3>2. CASE RestoreBatch(t)
      <4>1. flush[t].rows \in SUBSET Events /\ PutBack(flush[t].rows)
        BY <3>2 DEF RestoreBatch
      <4> QED
        BY <4>1
    <3> QED
      BY <1>9, <3>1, <3>2
  <2>3. PICK S \in SUBSET Events : PutBack(S)
    BY <2>2
  <2> QED
    BY <1>9, <2>1, <2>3 DEF Update, RestoreBatch, PutBack, NothingLost, Spooled
<1>10. ASSUME NEW t \in SpoolTabs, Maintain(t) PROVE SpoolIInv'
  BY <1>10 DEF Maintain, DeletesSettled, NothingLost, Spooled
<1>11. ASSUME NEW t \in SpoolTabs, MaintainPrune(t) PROVE SpoolIInv'
  <2>1. Oldest(maintain[t].drop) \subseteq rows
    BY DEF Oldest
  <2> QED
    BY <1>11, <2>1 DEF MaintainPrune, RowsLeave, DeletesSettled, NothingLost, Spooled
<1>12. ASSUME NEW t \in SpoolTabs, Answer(t) PROVE SpoolIInv'
  <2>1. CASE Fail(t)
    <3>1. flush' \in [SpoolTabs -> Flushes] /\ FlushType'
      BY <2>1 DEF Fail, Flushes
    <3>2. settled \subseteq settled' /\ settled' \subseteq Events
      BY <2>1 DEF Fail
    <3>3. DeletesSettled'
      BY <2>1, <3>2 DEF Fail, DeletesSettled
    <3> QED
      BY <2>1, <3>1, <3>2, <3>3 DEF Fail, NothingLost, Spooled
  <2>2. ASSUME NEW S \in SUBSET Events, Accept(t, S) PROVE SpoolIInv'
    <3>1. flush' \in [SpoolTabs -> Flushes] /\ FlushType'
      BY <2>2 DEF Accept, AcceptedIds, Flushes
    <3>2. settled' = settled \cup S
      BY <2>2 DEF Accept
    <3>3. DeletesSettled'
      BY <2>2, <3>2 DEF Accept, AcceptedIds, Flushes, DeletesSettled
    <3> QED
      BY <2>2, <3>1, <3>2, <3>3 DEF Accept, NothingLost, Spooled
  <2>3. CASE AcceptUnnamed(t)
    <3>1. flush' \in [SpoolTabs -> Flushes] /\ FlushType'
      BY <2>3 DEF AcceptUnnamed, Flushes
    <3>2. settled' = settled \cup flush[t].rows
      BY <2>3 DEF AcceptUnnamed
    <3>3. DeletesSettled'
      BY <2>3, <3>2 DEF AcceptUnnamed, Flushes, DeletesSettled
    <3> QED
      BY <2>3, <3>1, <3>2, <3>3 DEF AcceptUnnamed, NothingLost, Spooled
  <2> QED
    BY <1>12, <2>1, <2>2, <2>3 DEF Answer
<1>13. ASSUME NEW t \in SpoolTabs, TransactionFails(t) \/ RestoreBatchFails(t) PROVE SpoolIInv'
  <2>1. flush' \in [SpoolTabs -> Flushes] /\ FlushType' /\ DeletesSettled'
    BY <1>13 DEF TransactionFails, RestoreBatchFails, Flushes, Resting, DeletesSettled
  <2> QED
    BY <1>13, <2>1 DEF TransactionFails, RestoreBatchFails, NothingLost, Spooled
<1>14. ASSUME NEW t \in SpoolTabs, OpenFails(t) PROVE SpoolIInv'
  <2>1. put' \in [Events -> Put0] /\ \A e \in Events : Spooled(e)' => Spooled(e)
    BY <1>14, GiveUpFacts DEF OpenFails, Spooled
  <2> QED
    BY <1>14, <2>1 DEF OpenFails, DeletesSettled, NothingLost
<1>15. ASSUME NEW t \in SpoolTabs, OpenAgain(t) PROVE SpoolIInv'
  BY <1>15 DEF OpenAgain, DeletesSettled, NothingLost, Spooled
<1>16. ASSUME NEW t \in SpoolTabs, CloseTab(t) PROVE SpoolIInv'
  <2>1. put' \in [Events -> Put0] /\ \A e \in Events : Spooled(e)' => Spooled(e)
    BY <1>16, GiveUpFacts DEF CloseTab, Spooled
  <2>2. flush' \in [SpoolTabs -> Flushes] /\ FlushType' /\ DeletesSettled'
    BY <1>16 DEF CloseTab, Flushes, Resting, DeletesSettled
  <2> QED
    BY <1>16, <2>1, <2>2 DEF CloseTab, NothingLost
<1>17. ASSUME Toggle PROVE SpoolIInv'
  BY <1>17 DEF Toggle, DeletesSettled, NothingLost, Spooled
<1>18. ASSUME ClearSpool PROVE SpoolIInv'
  BY <1>18 DEF ClearSpool, RowsLeave, DeletesSettled, NothingLost, Spooled
<1> QED
  BY <1>0, <1>1, <1>2, <1>3, <1>4, <1>5, <1>6, <1>7, <1>8, <1>9, <1>10, <1>11, <1>12,
     <1>13, <1>14, <1>15, <1>16, <1>17, <1>18 DEF SpoolNext, Work

(* An event that reached the spool leaves it only when the daemon has taken  *)
(* it or has answered OK to its batch without naming an event, or when it    *)
(* was pruned or cleared: for any tabs, events and limits.                   *)
THEOREM SpoolLosesNothing == SpoolSpec => []NothingLost
<1>1. SpoolIInv => NothingLost
  BY DEF SpoolIInv
<1> QED
  BY SpoolInitIInv, SpoolStep, <1>1, PTL DEF SpoolSpec
=============================================================================

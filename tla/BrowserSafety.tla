--------------------------- MODULE BrowserSafety ---------------------------
(* Loading a page over the browser's archive: the projection of the          *)
(* companion's archive (main.tsx), the continuity check with its sentinel    *)
(* (core/durability/browser-safety.ts) and the recovery gate                 *)
(* (browser-recovery-gate.tsx, recovery.ts), in several tabs, while the      *)
(* browser may drop the site's data.                                         *)
(*                                                                           *)
(* A database is the set of its records, or Absent.  The sentinel and the    *)
(* generation pointer are in the userscript manager's storage and survive;   *)
(* databases, outbox and the published name are site data and do not.  A     *)
(* projection is one step here and GenerationRebuild gives its steps; the    *)
(* browser enumerates databases, and a paired tab's identity is admitted.    *)
EXTENDS Naturals, FiniteSets

CONSTANTS
    SafetyTabs, Records,
    Absent, NoName, NoSentinel, NoPointer,   \* model values
    MaxGenerations,   \* bound on projections
    MaxWipes          \* bound on losses of the site's data

ASSUME SafetyAssumption ==
    MaxGenerations \in Nat /\ MaxWipes \in Nat /\ IsFiniteSet(Records)

VARIABLES
    paired,       \* the tabs are paired with a companion
    databases,    \* the IndexedDB databases
    published,    \* localStorage: the name of the active database
    sentinel,     \* the continuity sentinel: a database and its count
    pointer,      \* the active generation: its database and verified content
    generations,  \* how many there have been
    canonical,    \* what the companion's archive holds
    pending,      \* what the outbox holds
    pages,        \* the page in each tab
    wipes,        \* how often the site's data was lost
    missing       \* it was lost, and nobody was told or nothing rebuilt since

safetyVars == <<paired, databases, published, sentinel, pointer, generations, canonical,
                pending, pages, wipes, missing>>

-----------------------------------------------------------------------------
Names == 0..MaxGenerations   \* 0 is the original database, n generation n
Existing == {n \in Names : databases[n] # Absent}

(* `then` is what follows a check: the page goes on loading ("boot"), loads  *)
(* again if it may ("retry") or in any case ("reload"), or stays; `running`  *)
(* are the modules that capture.                                             *)
Closed == [at |-> "closed", own |-> NoName, manager |-> NoName, then |-> "boot",
           acknowledged |-> FALSE, seen |-> NoSentinel, next |-> NoSentinel,
           running |-> FALSE]

SafetyInit ==
    /\ paired \in BOOLEAN
    /\ canonical \in {c \in SUBSET Records : paired \/ c = {}}
    /\ databases = [n \in Names |-> Absent]
    /\ published = NoName /\ sentinel = NoSentinel /\ pointer = NoPointer
    /\ generations = 0 /\ pending = {} /\ wipes = 0 /\ missing = FALSE
    /\ pages = [t \in SafetyTabs |-> Closed]

(* getDatabaseManager(): the first use opens the database and publishes it.  *)
ManagerName == IF paired /\ pointer # NoPointer THEN pointer.name ELSE 0
NameFor(page) == IF page.manager = NoName THEN ManagerName ELSE page.manager

Opened(page) == [page EXCEPT !.manager = NameFor(page),
                             !.own = IF page.manager = NoName THEN ManagerName ELSE @]
PublishedBy(page) == IF page.manager = NoName THEN ManagerName ELSE published
DatabasesWith(name, content) == [databases EXCEPT ![name] = content]
ContentOf(name) == IF databases[name] = Absent THEN {} ELSE databases[name]

Checking(page, then, acknowledged) ==
    [page EXCEPT !.at = "sentinel", !.then = then, !.acknowledged = acknowledged]

-----------------------------------------------------------------------------
(* bootstrap(): without a pairing the check is all there is.                 *)
Load(t) ==
    /\ pages[t].at = "closed" /\ ~paired
    /\ pages' = [pages EXCEPT ![t] = Checking(Closed, "boot", FALSE)]
    /\ UNCHANGED <<paired, databases, published, sentinel, pointer, generations,
                   canonical, pending, wipes, missing>>

(* With one, the manager is opened for the bootstrap and the projection that *)
(* come first; they fail, or find the generation up to date.                 *)
UpToDate ==
    /\ pointer # NoPointer
    /\ ContentOf(pointer.name) = pointer.content /\ canonical = pointer.content

LoadUnprojected(t) ==
    LET page == Opened(Closed) IN
    /\ pages[t].at = "closed" /\ paired
    /\ databases' = DatabasesWith(page.manager, ContentOf(page.manager))
    /\ published' = PublishedBy(Closed)
    /\ pages' = [pages EXCEPT ![t] = Checking(page, "boot", FALSE)]
    /\ UNCHANGED <<paired, sentinel, pointer, generations, canonical, pending, wipes, missing>>

(* A generation of `content` is built, activated and published, and the      *)
(* manager is reset; the check that follows is an acknowledging one.         *)
Projected(t, page, content, opened, then) ==
    LET name == generations + 1 IN
    /\ generations < MaxGenerations
    /\ generations' = name
    /\ databases' = [opened EXCEPT ![name] = content]
    /\ pointer' = [name |-> name, content |-> content]
    /\ published' = name
    /\ canonical' = content
    /\ missing' = FALSE
    /\ pages' = [pages EXCEPT ![t] =
                    Checking([page EXCEPT !.own = name, !.manager = NoName], then, TRUE)]

(* The records of a browser that has no generation yet are committed first   *)
(* when the companion's archive is empty.                                    *)
LoadProjected(t) ==
    LET page   == Opened(Closed)
        opened == DatabasesWith(page.manager, ContentOf(page.manager))
        source == IF pointer = NoPointer /\ canonical = {} THEN ContentOf(0) ELSE {}
    IN  /\ pages[t].at = "closed" /\ paired /\ ~UpToDate
        /\ Projected(t, page, canonical \cup source, opened, "boot")
        /\ UNCHANGED <<paired, sentinel, pending, wipes>>

-----------------------------------------------------------------------------
(* runBrowserSafetyCheck(): the sentinel is read, then the inventory, then   *)
(* the new sentinel is written.                                              *)
ReadSentinel(t) ==
    /\ pages[t].at = "sentinel"
    /\ pages' = [pages EXCEPT ![t].at = "inventory", ![t].seen = sentinel]
    /\ UNCHANGED <<paired, databases, published, sentinel, pointer, generations,
                   canonical, pending, wipes, missing>>

ActiveName(page) == IF page.own # NoName THEN page.own ELSE published

(* The inventory lists an active database that is missing, with an error.    *)
Rows(page) == Existing \cup ({ActiveName(page)} \ {NoName})

FindCurrentRow(page) ==
    LET seen == page.seen IN
    CASE seen # NoSentinel /\ seen.name # NoName ->
            IF seen.name \in Rows(page) THEN seen.name ELSE NoName
      [] ActiveName(page) # NoName -> ActiveName(page)
      [] OTHER -> IF Cardinality(Rows(page)) = 1 THEN CHOOSE n \in Rows(page) : TRUE ELSE NoName

CountOf(row) == IF row = NoName THEN 0 ELSE Cardinality(ContentOf(row))

(* A variant that asks for half of what there was.                           *)
DroppedBelowHalf(previous, current) == current < previous \div 2

(* suspiciouslySmall.                                                        *)
Dropped(previous, current) ==
    current < (IF previous \div 2 > 1 THEN previous \div 2 ELSE 1)

AssessContinuity(page) ==
    LET row      == FindCurrentRow(page)
        previous == IF page.seen = NoSentinel THEN 0 ELSE page.seen.total
        error    == row # NoName /\ row \notin Existing
    IN  IF \/ (previous > 0 /\ (row = NoName \/ error))
           \/ /\ previous > 0
              /\ page.seen.name # NoName /\ ActiveName(page) \notin {NoName, page.seen.name}
           \/ (previous > 0 /\ Dropped(previous, CountOf(row)))
        THEN "recovery_required"
        ELSE IF error \/ (row = NoName /\ Cardinality(Rows(page)) > 1) THEN "warning"
        ELSE "healthy"

Baseline(page) ==
    [name  |-> IF ActiveName(page) # NoName THEN ActiveName(page)
               ELSE IF page.seen # NoSentinel THEN page.seen.name ELSE NoName,
     total |-> CountOf(FindCurrentRow(page))]

(* What the page does with the phase: the bootstrap mounts the gate alone or *)
(* starts capturing, the gate loads the page again or stays, and a live page *)
(* shows what it is told.                                                    *)
Concluded(page, phase) ==
    LET at == IF phase = "recovery_required" THEN "gate" ELSE "live" IN
    IF page.then = "reload" \/ (page.then = "retry" /\ at = "live") THEN Closed
    ELSE [Closed EXCEPT !.at = at, !.own = page.own, !.manager = page.manager,
                        !.running = page.running \/ at = "live"]

TakeInventory(t) ==
    LET page == pages[t]
        phase == AssessContinuity(page)
    IN  /\ page.at = "inventory"
        /\ pages' = [pages EXCEPT ![t] =
                IF page.acknowledged \/ phase = "healthy"
                THEN [page EXCEPT !.at = "write", !.next = Baseline(page)]
                ELSE Concluded(page, phase)]
        /\ UNCHANGED <<paired, databases, published, sentinel, pointer, generations,
                       canonical, pending, wipes, missing>>

WriteSentinel(t) ==
    /\ pages[t].at = "write"
    /\ sentinel' = pages[t].next
    /\ pages' = [pages EXCEPT ![t] = Concluded(pages[t], "healthy")]
    /\ UNCHANGED <<paired, databases, published, pointer, generations, canonical,
                   pending, wipes, missing>>

(* The inventory, the checksum or the write fails.                           *)
CheckFails(t) ==
    /\ pages[t].at \in {"sentinel", "inventory", "write"}
    /\ pages' = [pages EXCEPT ![t] = Concluded(pages[t], "recovery_required")]
    /\ UNCHANGED <<paired, databases, published, sentinel, pointer, generations,
                   canonical, pending, wipes, missing>>

-----------------------------------------------------------------------------
(* A record is captured: into the database, and to the companion or, while   *)
(* it is away, to the outbox.                                                *)
Capture(t, r) ==
    LET page == Opened(pages[t]) IN
    /\ pages[t].running /\ r \notin ContentOf(page.manager)
    /\ databases' = DatabasesWith(page.manager, ContentOf(page.manager) \cup {r})
    /\ published' = PublishedBy(pages[t])
    /\ \/ ~paired /\ UNCHANGED <<canonical, pending>>
       \/ paired /\ canonical' = canonical \cup pending \cup {r} /\ pending' = {}
       \/ paired /\ pending' = pending \cup {r} /\ UNCHANGED canonical
    /\ pages' = [pages EXCEPT ![t] = page]
    /\ UNCHANGED <<paired, sentinel, pointer, generations, wipes, missing>>

(* clearBrowserCache(), in the settings or at the gate.                      *)
Clear(t) ==
    LET page == Opened(pages[t]) IN
    /\ pages[t].at \in {"live", "gate"}
    /\ databases' = DatabasesWith(page.manager, {})
    /\ published' = PublishedBy(pages[t])
    /\ missing' = FALSE
    /\ pages' = [pages EXCEPT ![t] =
            Checking(page, IF pages[t].at = "live" THEN "stay" ELSE "reload", TRUE)]
    /\ UNCHANGED <<paired, sentinel, pointer, generations, canonical, pending, wipes>>

(* The gate: check again, restore a snapshot, destroy the durable archive.   *)
Retry(t) ==
    /\ pages[t].at = "gate"
    /\ pages' = [pages EXCEPT ![t] = Checking(@, "retry", FALSE)]
    /\ UNCHANGED <<paired, databases, published, sentinel, pointer, generations,
                   canonical, pending, wipes, missing>>

Restore(t) ==
    /\ pages[t].at = "gate" /\ paired
    /\ \E snapshot \in SUBSET Records : Projected(t, pages[t], snapshot, databases, "retry")
    /\ UNCHANGED <<paired, sentinel, pending, wipes>>

Destroy(t) ==
    LET page == Opened(pages[t]) IN
    /\ pages[t].at = "gate" /\ paired
    /\ canonical' = {}
    /\ databases' = DatabasesWith(page.manager, {})
    /\ published' = PublishedBy(pages[t])
    /\ missing' = FALSE
    /\ pages' = [pages EXCEPT ![t] = Checking(page, "reload", TRUE)]
    /\ UNCHANGED <<paired, sentinel, pointer, generations, pending, wipes>>

Close(t) ==
    /\ pages[t].at # "closed"
    /\ pages' = [pages EXCEPT ![t] = Closed]
    /\ UNCHANGED <<paired, databases, published, sentinel, pointer, generations,
                   canonical, pending, wipes, missing>>

(* The browser drops the site's data while no tab is open; localStorage may  *)
(* be kept.                                                                  *)
Known == sentinel # NoSentinel /\ sentinel.total > 0

Wipe ==
    /\ wipes < MaxWipes /\ \A t \in SafetyTabs : pages[t].at = "closed"
    /\ wipes' = wipes + 1
    /\ databases' = [n \in Names |-> Absent]
    /\ pending' = {}
    /\ published' \in {published, NoName}
    /\ missing' = (missing \/ Known)
    /\ UNCHANGED <<paired, sentinel, pointer, generations, canonical, pages>>

SafetyNext ==
    \/ Wipe
    \/ \E t \in SafetyTabs :
          \/ Load(t) \/ LoadUnprojected(t) \/ LoadProjected(t)
          \/ ReadSentinel(t) \/ TakeInventory(t) \/ WriteSentinel(t) \/ CheckFails(t)
          \/ Clear(t) \/ Retry(t) \/ Restore(t) \/ Destroy(t) \/ Close(t)
          \/ \E r \in Records : Capture(t, r)

SafetySpec == SafetyInit /\ [][SafetyNext]_safetyVars

-----------------------------------------------------------------------------
TypeOK ==
    /\ databases \in [Names -> {Absent} \cup SUBSET Records]
    /\ published \in Names \cup {NoName}
    /\ sentinel # NoSentinel => sentinel.name \in Names \cup {NoName} /\ sentinel.total \in Nat
    /\ canonical \subseteq Records /\ pending \subseteq Records

(* A cache that was lost, and that the last baseline knew to hold records,   *)
(* is presented by no tab, however often they load, retry and check at once, *)
(* until a user has cleared it or it was rebuilt from the companion (the     *)
(* recovery gate; assessContinuity and who may write the sentinel).          *)
LossIsGated == missing => \A t \in SafetyTabs : pages[t].at # "live"
=============================================================================

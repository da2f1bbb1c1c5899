---------------------------- MODULE MonitorLease ----------------------------
(* Which tab watches routes and the viewport for the raw capture             *)
(* (modules/raw-capture/api.ts).  The tabs of the site share a lease in      *)
(* localStorage; a tab that finds none, or one without a recent heartbeat,   *)
(* takes it and leads.  It remembers its role, and learns of another tab's   *)
(* lease from the storage event.  refreshMonitorCoordination() reads the     *)
(* lease and writes it in one task; the tasks of two tabs may overlap, each  *)
(* with the lease it read.                                                   *)
EXTENDS Naturals

CONSTANTS
    Tabs,         \* lives of a page: a page loaded again is another tab
    NoTab,
    EventLimit    \* bound: storage events a tab has not handled yet

ASSUME LeaseAssumption == NoTab \notin Tabs /\ EventLimit \in Nat \ {0}

VARIABLES
    lease,        \* the tab of the lease in localStorage, and whether it is stale
    full,         \* localStorage refuses to be written
    life,         \* of each page: "new", "open" or "gone"
    hidden,       \* document.visibilityState
    wanted,       \* the settings ask for streaming or diagnostics
    started,      \* listeners and timers are installed
    role,         \* the coordination state of the window: its role,
    leader,       \* and the tab it takes for the leader
    events,       \* storage events each tab has still to handle
    task          \* the synchronous task of each tab that is under way

vars == <<lease, full, life, hidden, wanted, started, role, leader, events, task>>
page == <<life, hidden, wanted>>
belief == <<role, leader>>

NoLease == [tab |-> NoTab, stale |-> FALSE]
Idle == [kind |-> "idle", read |-> NoLease]

Init ==
    /\ lease = NoLease /\ full = FALSE
    /\ life = [t \in Tabs |-> "new"]
    /\ hidden = [t \in Tabs |-> FALSE]
    /\ wanted \in [Tabs -> BOOLEAN]
    /\ started = [t \in Tabs |-> FALSE]
    /\ role = [t \in Tabs |-> "none"]
    /\ leader = [t \in Tabs |-> NoTab]
    /\ events = [t \in Tabs |-> 0]
    /\ task = [t \in Tabs |-> Idle]

-----------------------------------------------------------------------------
Free(t) == life[t] = "open" /\ task[t].kind = "idle"
Begin(t, kind) == task' = [task EXCEPT ![t] = [kind |-> kind, read |-> lease]]

(* A write is told to every other tab that listens.                          *)
Tell(t) ==
    events' = [u \in Tabs |-> IF u # t /\ started[u] /\ events[u] < EventLimit
                                THEN events[u] + 1 ELSE events[u]]

Publish(t, r, u) ==                            \* publishMonitorCoordinationState
    role' = [role EXCEPT ![t] = r] /\ leader' = [leader EXCEPT ![t] = u]

-----------------------------------------------------------------------------
Open(t) ==
    /\ life[t] = "new"
    /\ life' = [life EXCEPT ![t] = "open"]
    /\ UNCHANGED <<lease, full, hidden, wanted, started, belief, events, task>>

(* A response is captured: ensureFlushLoopStarted() installs the monitors    *)
(* and refreshes, or stops them (isSupplementalMonitoringEnabled).           *)
Watches(t) == wanted[t] /\ ~hidden[t]

Capture(t) ==
    /\ Free(t)
    /\ started' = [started EXCEPT ![t] = Watches(t)]
    /\ events' = IF Watches(t) THEN events ELSE [events EXCEPT ![t] = 0]
    /\ Begin(t, IF Watches(t) THEN "refresh" ELSE "stop")
    /\ UNCHANGED <<lease, full, page, belief>>

(* The heartbeat's interval, which does nothing in a hidden tab.             *)
Heartbeat(t) ==
    /\ Free(t) /\ started[t] /\ ~hidden[t]
    /\ Begin(t, "refresh")
    /\ UNCHANGED <<lease, full, page, started, belief, events>>

(* A variant of the listener that, like the interval, rests in a hidden tab. *)
HearsWhenShown(t) == ~hidden[t]

Hears(t) == TRUE

OnStorage(t) ==
    /\ Free(t) /\ started[t] /\ events[t] > 0
    /\ events' = [events EXCEPT ![t] = @ - 1]
    /\ IF Hears(t) THEN Begin(t, "refresh") ELSE UNCHANGED task
    /\ UNCHANGED <<lease, full, page, started, belief>>

(* A variant for which a lease is for ever, its own included.                *)
TakesOnlyFree(t, read) == read.tab = NoTab

Takes(t, read) == read.tab \in {NoTab, t} \/ read.stale

(* refreshMonitorCoordination(), with the lease the task has read.  It reads *)
(* its own write back.                                                       *)
Refresh(t) ==
    LET read == task[t].read
    IN  /\ task[t].kind = "refresh"
        /\ task' = [task EXCEPT ![t] = Idle]
        /\ \/ /\ Takes(t, read) /\ ~full
              /\ lease' = [tab |-> t, stale |-> FALSE]
              /\ Tell(t)
              /\ Publish(t, "leader", t)
           \/ /\ full /\ read = NoLease
              /\ Publish(t, "single", t)
              /\ UNCHANGED <<lease, events>>
           \/ /\ read # NoLease /\ (full \/ ~Takes(t, read))
              /\ Publish(t, "follower", read.tab)
              /\ UNCHANGED <<lease, events>>
        /\ UNCHANGED <<full, page, started>>

(* stopSupplementalMonitoring(), and the beforeunload listener of a page that*)
(* is closed: an own lease is removed.                                       *)
RemoveLease(t) ==
    IF task[t].read.tab = t
      THEN lease' = NoLease /\ Tell(t)
      ELSE UNCHANGED <<lease, events>>

Stop(t) ==
    /\ task[t].kind = "stop"
    /\ RemoveLease(t)
    /\ Publish(t, "none", NoTab)
    /\ task' = [task EXCEPT ![t] = Idle]
    /\ UNCHANGED <<full, page, started>>

Leave(t) ==
    /\ Free(t)
    /\ life' = [life EXCEPT ![t] = "gone"]
    /\ started' = [started EXCEPT ![t] = FALSE]
    /\ events' = [events EXCEPT ![t] = 0]
    /\ Publish(t, "none", NoTab)
    /\ IF started[t] THEN Begin(t, "leave") ELSE UNCHANGED task
    /\ UNCHANGED <<lease, full, hidden, wanted>>

Left(t) ==
    /\ task[t].kind = "leave"
    /\ RemoveLease(t)
    /\ task' = [task EXCEPT ![t] = Idle]
    /\ UNCHANGED <<full, page, started, belief>>

(* The page dies without its handlers.                                       *)
Crash(t) ==
    /\ life[t] = "open"
    /\ life' = [life EXCEPT ![t] = "gone"]
    /\ started' = [started EXCEPT ![t] = FALSE]
    /\ events' = [events EXCEPT ![t] = 0]
    /\ task' = [task EXCEPT ![t] = Idle]
    /\ Publish(t, "none", NoTab)
    /\ UNCHANGED <<lease, full, hidden, wanted>>

(* The user shows and hides tabs and changes settings; storage fills up.     *)
ShowOrHide(t) ==
    /\ Free(t)
    /\ hidden' = [hidden EXCEPT ![t] = ~@]
    /\ UNCHANGED <<lease, full, life, wanted, started, belief, events, task>>

Settings(t) ==
    /\ Free(t)
    /\ wanted' = [wanted EXCEPT ![t] = ~@]
    /\ UNCHANGED <<lease, full, life, hidden, started, belief, events, task>>

Quota ==
    /\ full' = ~full
    /\ UNCHANGED <<lease, page, started, belief, events, task>>

(* Twenty seconds without a heartbeat.  A tab that is busy may miss its own. *)
GoesStale ==
    /\ lease # NoLease /\ ~lease.stale
    /\ lease' = [lease EXCEPT !.stale = TRUE]
    /\ UNCHANGED <<full, page, started, belief, events, task>>

Next ==
    \/ \E t \in Tabs : \/ Open(t) \/ Capture(t) \/ Heartbeat(t) \/ OnStorage(t)
                       \/ Refresh(t) \/ Stop(t) \/ Leave(t) \/ Left(t) \/ Crash(t)
                       \/ ShowOrHide(t) \/ Settings(t)
    \/ Quota \/ GoesStale

(* Intervals fire, events arrive and tasks end; a lease that nobody renews   *)
(* becomes stale.                                                            *)
Fairness ==
    /\ \A t \in Tabs : WF_vars(Refresh(t)) /\ WF_vars(Stop(t)) /\ WF_vars(Left(t))
                         /\ SF_vars(Heartbeat(t)) /\ WF_vars(OnStorage(t))
    /\ WF_vars(GoesStale)

Spec == Init /\ [][Next]_vars
FairSpec == Spec /\ Fairness

-----------------------------------------------------------------------------
Leads(t) == role[t] \in {"leader", "single"}                \* isPassiveMonitorLeader

(* Leases, roles and tasks have their types; a page that is gone has no role.*)
TypeOK ==
    /\ lease.tab \in Tabs \cup {NoTab} /\ (lease.tab = NoTab => lease = NoLease)
    /\ \A t \in Tabs : /\ role[t] \in {"none", "leader", "single", "follower"}
                       /\ leader[t] \in Tabs \cup {NoTab}
                       /\ events[t] \in 0..EventLimit
                       /\ life[t] # "open" => role[t] = "none"

(* Where every tab has handled its storage events, at most one leads by the  *)
(* lease, and it is the lease's owner: whatever tabs took over, stopped,     *)
(* closed, died or were hidden meanwhile.                                    *)
(* (raw-capture/api.ts:397, refreshMonitorCoordination)                      *)
Settled == \A t \in Tabs : task[t] = Idle /\ events[t] = 0
OneLeader ==
    Settled => \A t \in Tabs : role[t] = "leader" => lease.tab = t

(* While a tab that watches stays in front, some tab that watches leads again*)
(* and again: a lease of a tab that was closed, died or is hidden does not   *)
(* stop it.  One of a tab whose user has switched the monitors off does, for *)
(* its heartbeat goes on until its next capture.                             *)
(* (raw-capture/api.ts:420, leaseIsStale)                                    *)
Stays(t) ==
    /\ life[t] = "open" /\ started[t] /\ Watches(t) /\ ~full
    /\ \A u \in Tabs : started[u] => wanted[u]
SomeoneLeads ==
    \A t \in Tabs : <>[]Stays(t) => []<>(\E u \in Tabs : Leads(u) /\ Watches(u))
=============================================================================

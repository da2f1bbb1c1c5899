------------------------- MODULE MonitorLeaseProofs -------------------------
(* OneLeader for any number of tabs: a tab that takes itself for the leader  *)
(* and has lost the lease has a storage event to handle, or is about to      *)
(* publish what it is.  And BookmarkContext for any folders and requests: a  *)
(* request keeps, in its context, the folder its response is due to.  The    *)
(* last section is about MediaSource, of any documents, windows and writes.  *)
EXTENDS MonitorLease, BookmarkContext, MediaSource, FiniteSetTheorems, SequenceTheorems, TLAPS

Kinds == {"idle", "refresh", "stop", "leave"}
Lease == [tab : Tabs \cup {NoTab}, stale : BOOLEAN]
Task == [kind : Kinds, read : Lease]

Typed ==
    /\ started \in [Tabs -> BOOLEAN]
    /\ role \in [Tabs -> {"none", "leader", "single", "follower"}]
    /\ leader \in [Tabs -> Tabs \cup {NoTab}]
    /\ events \in [Tabs -> Nat]
    /\ task \in [Tabs -> Task]
    /\ lease \in Lease

RefreshListens ==
    \A t \in Tabs : /\ task[t].kind = "refresh" => started[t]
                    /\ task[t].kind = "leave" => ~started[t]
LeaderListens == \A t \in Tabs : role[t] = "leader" => started[t] \/ task[t].kind = "stop"
LeaderIsTold ==
    \A t \in Tabs : role[t] = "leader" =>
        lease.tab = t \/ events[t] > 0 \/ task[t].kind \in {"refresh", "stop"}

IInv == Typed /\ RefreshListens /\ LeaderListens /\ LeaderIsTold

-----------------------------------------------------------------------------
(* The tasks there are.                                                      *)
LEMMA TaskTyped ==
    /\ NoLease \in Lease
    /\ Idle \in Task /\ Idle.kind = "idle"
    /\ \A kind \in Kinds, read \in Lease :
         [kind |-> kind, read |-> read] \in Task
    /\ \A t \in Tabs : [tab |-> t, stale |-> FALSE] \in Lease
BY DEF NoLease, Lease, Idle, Task, Kinds

(* A task that begins has read the lease of the moment.                      *)
LEMMA BeginTyped ==
    ASSUME Typed, NEW t \in Tabs, NEW kind \in Kinds, Begin(t, kind)
    PROVE  /\ task' \in [Tabs -> Task]
           /\ task'[t].kind = kind
           /\ \A u \in Tabs \ {t} : task'[u] = task[u]
BY TaskTyped DEF Typed, Begin

(* Telling the others keeps events natural, and leaves none untold.          *)
LEMMA TellTold ==
    ASSUME Typed, NEW t \in Tabs, Tell(t)
    PROVE  /\ events' \in [Tabs -> Nat]
           /\ \A u \in Tabs : events[u] > 0 => events'[u] > 0
           /\ \A u \in Tabs \ {t} : started[u] => events'[u] > 0
<1>1. \A u \in Tabs : events[u] \in Nat  BY DEF Typed
<1>2. EventLimit \in Nat \ {0}  BY LeaseAssumption
<1>3. \A u \in Tabs : events'[u] = IF u # t /\ started[u] /\ events[u] < EventLimit
                                      THEN events[u] + 1 ELSE events[u]
  BY DEF Tell
<1>4. events' \in [Tabs -> Nat]  BY <1>1, <1>3 DEF Tell
<1> QED  BY <1>1, <1>2, <1>3, <1>4

(* At the start nothing leads.                                               *)
LEMMA InitIInv == Init => IInv
BY TaskTyped DEF Init, IInv, Typed, RefreshListens, LeaderListens, LeaderIsTold

LEMMA CaptureKeeps ==
    ASSUME IInv, NEW t \in Tabs, Capture(t)
    PROVE  IInv'
<1> DEFINE kind == IF Watches(t) THEN "refresh" ELSE "stop"
<1>1. kind \in Kinds /\ Begin(t, kind)  BY DEF Capture, Kinds
<1>2. Watches(t) \in BOOLEAN  BY DEF Watches
<1>3. task' \in [Tabs -> Task]
      /\ task'[t].kind = kind /\ \A u \in Tabs \ {t} : task'[u] = task[u]
  BY <1>1, BeginTyped DEF IInv
<1>4. started' \in [Tabs -> BOOLEAN] /\ started'[t] = Watches(t)
      /\ \A u \in Tabs \ {t} : started'[u] = started[u]
  BY <1>2 DEF Capture, IInv, Typed
<1>5. events' \in [Tabs -> Nat] /\ \A u \in Tabs \ {t} : events'[u] = events[u]
  BY DEF Capture, IInv, Typed
<1>6. Typed'  BY <1>3, <1>4, <1>5 DEF Capture, IInv, Typed, belief
<1>7. RefreshListens'  BY <1>3, <1>4 DEF IInv, RefreshListens
<1>8. LeaderListens'  BY <1>3, <1>4 DEF IInv, LeaderListens, Capture, belief
<1>9. LeaderIsTold'  BY <1>3, <1>5 DEF IInv, LeaderIsTold, Capture, belief
<1> QED  BY <1>6, <1>7, <1>8, <1>9 DEF IInv

(* The heartbeat and a storage event that is heard begin a refresh.          *)
LEMMA WakeKeeps ==
    ASSUME IInv, NEW t \in Tabs, Heartbeat(t) \/ OnStorage(t)
    PROVE  IInv'
<1>1. started[t] /\ Begin(t, "refresh")  BY DEF Heartbeat, OnStorage, Hears
<1>2. task' \in [Tabs -> Task]
      /\ task'[t].kind = "refresh" /\ \A u \in Tabs \ {t} : task'[u] = task[u]
  BY <1>1, BeginTyped DEF IInv, Kinds
<1>3. events' \in [Tabs -> Nat] /\ \A u \in Tabs \ {t} : events'[u] = events[u]
  BY DEF Heartbeat, OnStorage, IInv, Typed
<1>4. UNCHANGED <<lease, started, role, leader>>  BY DEF Heartbeat, OnStorage, belief
<1>5. Typed'  BY <1>2, <1>3, <1>4 DEF IInv, Typed
<1>6. RefreshListens'  BY <1>1, <1>2, <1>4 DEF IInv, RefreshListens
<1>7. LeaderListens'
  <2>1. \A u \in Tabs : task[u].kind = "stop" => u = t \/ task'[u].kind = "stop"  BY <1>2
  <2> QED  BY <1>1, <1>4, <2>1 DEF IInv, LeaderListens
<1>8. LeaderIsTold'  BY <1>2, <1>3, <1>4 DEF IInv, LeaderIsTold
<1> QED  BY <1>5, <1>6, <1>7, <1>8 DEF IInv

(* A refresh that publishes a leader has just written the lease, and told    *)
(* the leader before it.                                                     *)
LEMMA RefreshKeeps ==
    ASSUME IInv, NEW t \in Tabs, Refresh(t)
    PROVE  IInv'
<1> USE DEF IInv
<1>1. started[t]  BY DEF Refresh, RefreshListens
<1>2. task' \in [Tabs -> Task]
      /\ task'[t].kind = "idle" /\ \A u \in Tabs \ {t} : task'[u] = task[u]
  BY TaskTyped DEF Refresh, Typed
<1>3. UNCHANGED started  BY DEF Refresh
<1>4. RefreshListens'  BY <1>2, <1>3 DEF RefreshListens
<1>5. task[t].read.tab \in Tabs \cup {NoTab}  BY DEF Typed, Task, Lease
<1>6. \A u \in Tabs \ {t} : role'[u] = role[u]  BY DEF Refresh, Publish, Typed
<1>7. LeaderListens'  BY <1>1, <1>2, <1>3, <1>6 DEF LeaderListens
<1>8. CASE lease' = [tab |-> t, stale |-> FALSE] /\ Tell(t) /\ Publish(t, "leader", t)
  <2>1. Typed'
    <3>1. lease' \in Lease /\ events' \in [Tabs -> Nat]  BY <1>8, TaskTyped, TellTold
    <3>2. role' \in [Tabs -> {"none", "leader", "single", "follower"}]
          /\ leader' \in [Tabs -> Tabs \cup {NoTab}]
      BY <1>8 DEF Typed, Publish
    <3> QED  BY <1>2, <1>3, <3>1, <3>2 DEF Typed
  <2>2. LeaderIsTold'
    BY <1>2, <1>6, <1>8, TellTold DEF LeaderIsTold, LeaderListens
  <2> QED  BY <1>4, <1>7, <2>1, <2>2
<1>9. CASE UNCHANGED <<lease, events>>
           /\ (Publish(t, "single", t) \/ Publish(t, "follower", task[t].read.tab))
  <2>1. Typed'  BY <1>2, <1>3, <1>5, <1>9 DEF Typed, Publish
  <2>2. role'[t] # "leader"  BY <1>9 DEF Typed, Publish
  <2>3. LeaderIsTold'  BY <1>2, <1>6, <1>9, <2>2 DEF LeaderIsTold
  <2> QED  BY <1>4, <1>7, <2>1, <2>3
<1> QED  BY <1>8, <1>9 DEF Refresh

(* Removing an own lease tells the others too.                               *)
LEMMA RemoveTells ==
    ASSUME Typed, NEW t \in Tabs, RemoveLease(t)
    PROVE  /\ lease' \in Lease
           /\ events' \in [Tabs -> Nat]
           /\ \A u \in Tabs : events[u] > 0 => events'[u] > 0
           /\ \A u \in Tabs \ {t} : started[u] => lease' = lease \/ events'[u] > 0
<1>1. CASE lease' = NoLease /\ Tell(t)  BY <1>1, TaskTyped, TellTold
<1>2. CASE UNCHANGED <<lease, events>>  BY <1>2 DEF Typed
<1> QED  BY <1>1, <1>2 DEF RemoveLease

(* A page that stops, or is closed, leads no more.                           *)
LEMMA StopKeeps ==
    ASSUME IInv, NEW t \in Tabs, Stop(t) \/ Left(t)
    PROVE  IInv'
<1> USE DEF IInv
<1>1. RemoveLease(t) /\ UNCHANGED started  BY DEF Stop, Left
<1>2. task' \in [Tabs -> Task]
      /\ task'[t].kind = "idle" /\ \A u \in Tabs \ {t} : task'[u] = task[u]
  BY TaskTyped DEF Stop, Left, Typed
<1>0. Left(t) => role[t] # "leader"
  BY DEF Left, LeaderListens, RefreshListens
<1>3. role'[t] # "leader" /\ \A u \in Tabs \ {t} : role'[u] = role[u]
  BY <1>0 DEF Stop, Left, Publish, belief, Typed
<1>4. Typed'
  <2>1. role' \in [Tabs -> {"none", "leader", "single", "follower"}]
        /\ leader' \in [Tabs -> Tabs \cup {NoTab}]
    BY DEF Stop, Left, Publish, belief, Typed
  <2> QED  BY <1>1, <1>2, <2>1, RemoveTells DEF Typed
<1>5. RefreshListens'  BY <1>1, <1>2 DEF RefreshListens
<1>6. LeaderListens'  BY <1>1, <1>2, <1>3 DEF LeaderListens
<1>7. LeaderIsTold'
  BY <1>1, <1>2, <1>3, RemoveTells DEF LeaderIsTold, LeaderListens
<1> QED  BY <1>4, <1>5, <1>6, <1>7

(* So does one that is left or dies.                                         *)
LEMMA GoneKeeps ==
    ASSUME IInv, NEW t \in Tabs, Leave(t) \/ Crash(t)
    PROVE  IInv'
<1> USE DEF IInv
<1>1. role' \in [Tabs -> {"none", "leader", "single", "follower"}]
      /\ leader' \in [Tabs -> Tabs \cup {NoTab}]
      /\ role'[t] = "none" /\ \A u \in Tabs \ {t} : role'[u] = role[u]
  BY DEF Leave, Crash, Publish, Typed
<1>2. task' \in [Tabs -> Task]
      /\ task'[t].kind # "refresh" /\ \A u \in Tabs \ {t} : task'[u] = task[u]
  <2>1. CASE Begin(t, "leave")  BY <2>1, BeginTyped DEF Kinds
  <2>2. CASE UNCHANGED task /\ Free(t)  BY <2>2 DEF Free, Typed
  <2>3. CASE task' = [task EXCEPT ![t] = Idle]  BY <2>3, TaskTyped DEF Typed
  <2> QED  BY <2>1, <2>2, <2>3 DEF Leave, Crash
<1>3. started' \in [Tabs -> BOOLEAN] /\ ~started'[t]
      /\ \A u \in Tabs \ {t} : started'[u] = started[u]
  BY DEF Leave, Crash, Typed
<1>4. events' \in [Tabs -> Nat] /\ \A u \in Tabs \ {t} : events'[u] = events[u]
  BY DEF Leave, Crash, Typed
<1>5. UNCHANGED lease  BY DEF Leave, Crash
<1>6. Typed'  BY <1>1, <1>2, <1>3, <1>4, <1>5 DEF Typed
<1>7. RefreshListens'  BY <1>2, <1>3 DEF RefreshListens
<1>8. LeaderListens'  BY <1>1, <1>2, <1>3 DEF LeaderListens
<1>9. LeaderIsTold'  BY <1>1, <1>2, <1>4, <1>5 DEF LeaderIsTold
<1> QED  BY <1>6, <1>7, <1>8, <1>9

(* What the user, the disk and the clock do leaves the roles alone.          *)
LEMMA RestKeeps ==
    ASSUME IInv, GoesStale \/ UNCHANGED <<lease, started, belief, events, task>>
    PROVE  IInv'
<1>1. lease'.tab = lease.tab /\ lease' \in Lease
      /\ UNCHANGED <<started, role, leader, events, task>>
  BY DEF GoesStale, IInv, Typed, belief, Lease
<1> QED  BY <1>1 DEF IInv, Typed, RefreshListens, LeaderListens, LeaderIsTold

-----------------------------------------------------------------------------
(* Every step keeps the invariant.                                           *)
LEMMA StepIInv == IInv /\ [Next]_vars => IInv'
<1> SUFFICES ASSUME IInv, [Next]_vars PROVE IInv'  OBVIOUS
<1>1. CASE \E t \in Tabs : Capture(t)  BY <1>1, CaptureKeeps
<1>2. CASE \E t \in Tabs : Heartbeat(t) \/ OnStorage(t)  BY <1>2, WakeKeeps
<1>3. CASE \E t \in Tabs : Refresh(t)  BY <1>3, RefreshKeeps
<1>4. CASE \E t \in Tabs : Stop(t) \/ Left(t)  BY <1>4, StopKeeps
<1>5. CASE \E t \in Tabs : Leave(t) \/ Crash(t)  BY <1>5, GoneKeeps
<1>6. CASE \E t \in Tabs : Open(t) \/ ShowOrHide(t) \/ Settings(t)
  BY <1>6, RestKeeps DEF Open, ShowOrHide, Settings
<1>7. CASE Quota  BY <1>7, RestKeeps DEF Quota
<1>8. CASE GoesStale  BY <1>8, RestKeeps
<1>9. CASE UNCHANGED vars  BY <1>9, RestKeeps DEF vars, belief
<1> QED  BY <1>1, <1>2, <1>3, <1>4, <1>5, <1>6, <1>7, <1>8, <1>9 DEF Next

(* In every reachable state, for any number of tabs, one that leads and no   *)
(* longer owns the lease has still to hear of it.                            *)
(* (raw-capture/api.ts:397, refreshMonitorCoordination)                      *)
THEOREM Invariance == Spec => []IInv
<1>1. Init => IInv  BY InitIInv
<1>2. IInv /\ [Next]_vars => IInv'  BY StepIInv
<1> QED  BY <1>1, <1>2, PTL DEF Spec

(* The tabs agree on the leader whenever every event has been handled.       *)
(* (raw-capture/api.ts:1611, the storage listener)                           *)
THEOREM TabsAgree == Spec => []OneLeader
<1>1. IInv => OneLeader
  <2> SUFFICES ASSUME IInv, Settled, NEW t \in Tabs, role[t] = "leader"
               PROVE  lease.tab = t
    BY DEF OneLeader
  <2>1. task[t].kind = "idle" /\ events[t] = 0  BY DEF Settled, Idle
  <2> QED  BY <2>1 DEF IInv, LeaderIsTold
<1> QED  BY <1>1, Invariance, PTL

-----------------------------------------------------------------------------
(* The context of a bookmark request, from where it is sent to its answer.   *)
(* A request that names no folder and is sent from a folder's page carries   *)
(* that page in its context, folder and address, and neither normalizing nor *)
(* age changes them.                                                         *)
RequestType ==
    [stage : {"none", "sent", "posted"}, folder : MaybeFolder, explicit : MaybeFolder,
     due : MaybeFolder, context : ContextType]

ContextsTyped ==
    /\ location \in Places /\ entry \in MaybeFolder /\ hint \in Hints \cup {NoHint}
    /\ {active, lock, sticky} \subseteq ContextType
    /\ request \in [Requests -> RequestType]

CarriesDue(q) ==
    q.due # NoFolder =>
        \/ q.folder = q.due /\ q.explicit \in {NoFolder, q.due}
        \/ q.folder = NoFolder /\ q.explicit = NoFolder
             /\ q.context.folder = q.due /\ q.context.at = q.due

ContextInv ==
    /\ ContextsTyped
    /\ \A r \in Requests : CarriesDue(request[r])
    /\ RequestDecides

LEMMA FolderTyped ==
    /\ NoContext \in ContextType
    /\ \A place \in Places : FolderOf(place) \in MaybeFolder
    /\ \A f, g \in MaybeFolder : FirstOf(f, g) \in MaybeFolder
    /\ \A f \in MaybeFolder, place \in Places : Context(f, place) \in ContextType
    /\ Folders \subseteq Places /\ Folders \subseteq MaybeFolder /\ Elsewhere \in Places
BY DEF NoContext, ContextType, FolderOf, FirstOf, Context, Places, MaybeFolder

LEMMA FromPageTyped == ContextsTyped => FromPage \in ContextType
<1> SUFFICES ASSUME ContextsTyped PROVE FromPage \in ContextType  OBVIOUS
<1>0. \A shown \in Hints : shown.folder \in MaybeFolder
  BY PlacesAssumption DEF MaybeFolder
<1>1. entry \in MaybeFolder /\ hint.folder \in MaybeFolder /\ location \in Places
  BY <1>0 DEF ContextsTyped, NoHint, MaybeFolder
<1>2. \A f \in MaybeFolder : f # NoFolder => f \in Places
  BY DEF MaybeFolder, Places
<1>3. /\ entry # NoFolder => FromEntry \in ContextType
      /\ hint.folder # NoFolder => FromTabs \in ContextType
      /\ FromState \in ContextType
  BY <1>1, <1>2, FolderTyped DEF FromEntry, FromTabs, FromState
<1>4. Context(FolderOf(location), location) \in ContextType  BY <1>1, FolderTyped
<1> QED  BY <1>3, <1>4 DEF FromPage

(* Normalizing keeps a context of a folder's page.                           *)
LEMMA NormalizedFacts ==
    ASSUME ContextsTyped, NEW c \in ContextType
    PROVE  /\ Normalized(c) \in ContextType
           /\ c.at \in Folders => Normalized(c).folder = c.at /\ Normalized(c).at = c.at
<1>1. c.at \in Places /\ c.folder \in MaybeFolder /\ FolderOf(c.at) \in MaybeFolder
  BY FolderTyped DEF ContextType
<1>2. CASE FolderOf(c.at) # NoFolder
  <2>1. Normalized(c) = [c EXCEPT !.folder = FolderOf(c.at)]  BY <1>2 DEF Normalized
  <2> QED  BY <1>1, <1>2, <2>1 DEF ContextType, FolderOf
<1>3. CASE FolderOf(c.at) = NoFolder
  <2>1. c.at \notin Folders  BY <1>3, PlacesAssumption DEF FolderOf
  <2>2. Normalized(c) = c \/ Normalized(c) = FromPage  BY <1>3 DEF Normalized
  <2> QED  BY <2>1, <2>2, FromPageTyped
<1> QED  BY <1>2, <1>3

LEMMA SetContextTyped ==
    ASSUME ContextsTyped, NEW c \in ContextType, SetContext(c)
    PROVE  {active', lock'} \subseteq ContextType
BY NormalizedFacts, FolderTyped DEF SetContext, ContextsTyped

LEMMA ResolvedFacts ==
    ASSUME ContextsTyped, NEW f \in MaybeFolder
    PROVE  /\ Resolved(f) \in ContextType
           /\ f = NoFolder /\ location \in Folders => Resolved(f) = Context(location, location)
<1>1. /\ lock \in ContextType /\ active \in ContextType
      /\ lock.folder \in MaybeFolder /\ lock.at \in Places
      /\ active.folder \in MaybeFolder /\ active.at \in Places
      /\ location \in Places
  BY DEF ContextsTyped, ContextType
<1>2. Normalized(active) \in ContextType /\ FromPage \in ContextType
  BY <1>1, NormalizedFacts, FromPageTyped
<1>3. CASE f # NoFolder  BY <1>1, <1>3, FolderTyped DEF Resolved
<1>4. CASE f = NoFolder /\ location \in Folders
  <2>1. Resolved(f) = Context(location, location)  BY <1>4, PlacesAssumption DEF Resolved
  <2> QED  BY <1>4, <2>1, FolderTyped
<1>5. CASE f = NoFolder /\ location \notin Folders
  <2>1. \/ Resolved(f) = Context(lock.folder, lock.at)
        \/ Resolved(f) = Context(active.folder, active.at)
        \/ Resolved(f) = FromPage \/ Resolved(f) = Normalized(active)
    BY <1>5 DEF Resolved
  <2> QED  BY <1>1, <1>2, <1>5, <2>1, FolderTyped
<1> QED  BY <1>3, <1>4, <1>5

(* A candidate for the context leaves requests and page alone.               *)
LEMMA ApplyTyped ==
    ASSUME ContextsTyped, NEW c \in ContextType, Apply(c)
    PROVE  {active', lock', sticky'} \subseteq ContextType
<1>1. c.at \in Places /\ sticky \in ContextType /\ sticky.folder \in MaybeFolder
  BY DEF ContextsTyped, ContextType
<1>2. /\ Context(NoFolder, c.at) \in ContextType
      /\ Context(sticky.folder, c.at) \in ContextType /\ NoContext \in ContextType
  BY <1>1, FolderTyped DEF MaybeFolder
<1>3. /\ sticky' \in {NoContext, c, sticky}
      /\ \E d \in {Context(NoFolder, c.at), c, Context(sticky.folder, c.at)} : SetContext(d)
  BY DEF Apply
<1> QED  BY <1>1, <1>2, <1>3, SetContextTyped

(* A step that stamps nothing and leaves the requests alone.                 *)
LEMMA NothingStamped ==
    ASSUME captured' = NoCapture
    PROVE  RequestDecides'
BY DEF RequestDecides, NoCapture

LEMMA RestKeepsContexts ==
    ASSUME ContextInv, UNCHANGED request, captured' = NoCapture \/ UNCHANGED captured,
           location' \in Places, entry' \in MaybeFolder, hint' \in Hints \cup {NoHint},
           {active', lock', sticky'} \subseteq ContextType
    PROVE  ContextInv'
<1>1. RequestDecides'  BY NothingStamped DEF ContextInv, RequestDecides
<1> QED  BY <1>1 DEF ContextInv, ContextsTyped, CarriesDue

LEMMA AgingKeeps ==
    ASSUME ContextInv, TimePasses
    PROVE  ContextInv'
<1>1. PICK n \in {1, 2} : /\ active' = Older(active, n) /\ lock' = Older(lock, n)
                          /\ sticky' = Older(sticky, n)
                          /\ request' = [r \in Requests |-> [request[r] EXCEPT !.context = Older(@, n)]]
  BY DEF TimePasses
<1>2. ASSUME NEW c \in ContextType
      PROVE  Older(c, n) \in ContextType /\ Older(c, n).folder = c.folder /\ Older(c, n).at = c.at
  BY DEF Older, ContextType
<1>3. ContextsTyped'
  <2>1. ASSUME NEW r \in Requests PROVE request'[r] \in RequestType
    <3>1. request[r] \in RequestType /\ request[r].context \in ContextType
      BY DEF ContextInv, ContextsTyped, RequestType
    <3> QED  BY <1>1, <1>2, <3>1 DEF RequestType
  <2>2. request' \in [Requests -> RequestType]  BY <1>1, <2>1
  <2>3. {active', lock', sticky'} \subseteq ContextType
    BY <1>1, <1>2 DEF ContextInv, ContextsTyped
  <2> QED  BY <2>2, <2>3 DEF TimePasses, pageVars, ContextInv, ContextsTyped
<1>4. ASSUME NEW r \in Requests PROVE CarriesDue(request[r])'
  <2>1. request[r] \in RequestType /\ request[r].context \in ContextType /\ CarriesDue(request[r])
    BY DEF ContextInv, ContextsTyped, RequestType
  <2>2. request'[r] = [request[r] EXCEPT !.context = Older(@, n)]  BY <1>1
  <2>3. /\ request'[r].due = request[r].due /\ request'[r].folder = request[r].folder
        /\ request'[r].explicit = request[r].explicit
        /\ request'[r].context = Older(request[r].context, n)
    BY <2>1, <2>2 DEF RequestType
  <2> QED  BY <1>2, <2>1, <2>3 DEF CarriesDue
<1> QED  BY <1>3, <1>4, NothingStamped DEF ContextInv, TimePasses

LEMMA SendKeeps ==
    ASSUME ContextInv, NEW r \in Requests, Send(r)
    PROVE  ContextInv'
<1>1. PICK way \in Ways :
        /\ request' = [request EXCEPT ![r] =
             [stage |-> "sent", folder |-> StampSees(way), explicit |-> Explicit(way),
              due |-> FirstOf(way.folder, FolderOf(location)),
              context |-> Resolved(HookSees(way))]]
        /\ SetContext(Resolved(HookSees(way)))
  BY DEF Send
<1> DEFINE f == HookSees(way)
           q == [stage |-> "sent", folder |-> StampSees(way), explicit |-> Explicit(way),
                 due |-> FirstOf(way.folder, FolderOf(location)), context |-> Resolved(f)]
<1>2. ContextsTyped /\ location \in Places  BY DEF ContextInv, ContextsTyped
<1>0. /\ way.folder \in MaybeFolder /\ StampSees(way) = way.folder
      /\ f \in {NoFolder, way.folder} /\ Explicit(way) \in {NoFolder, way.folder}
      /\ f \in MaybeFolder /\ Explicit(way) \in MaybeFolder
  BY PlacesAssumption DEF HookSees, StampSees, Explicit, VariablesFolder, QueryFolder, BodyFolder, FoundIn,
                         FirstOf, MaybeFolder
<1>3. q \in RequestType
  BY <1>0, <1>2, FolderTyped, ResolvedFacts DEF RequestType
<1>4. CarriesDue(q)
  <2>1. CASE way.folder # NoFolder  BY <1>0, <2>1 DEF CarriesDue, FirstOf
  <2>2. CASE way.folder = NoFolder /\ location \in Folders
    <3>1. Resolved(f) = Context(location, location)  BY <1>0, <1>2, <2>2, ResolvedFacts
    <3> QED  BY <1>0, <2>2, <3>1 DEF CarriesDue, FirstOf, FolderOf, Context
  <2>3. CASE way.folder = NoFolder /\ location \notin Folders
    BY <2>3 DEF CarriesDue, FirstOf, FolderOf
  <2> QED  BY <2>1, <2>2, <2>3
<1>5. {active', lock'} \subseteq ContextType  BY <1>0, <1>1, <1>2, ResolvedFacts, SetContextTyped
<1>6. request' \in [Requests -> RequestType]
      /\ \A s \in Requests : request'[s] = q \/ request'[s] = request[s]
  BY <1>1, <1>3 DEF ContextInv, ContextsTyped
<1> HIDE DEF q
<1>7. \A s \in Requests : CarriesDue(request'[s])  BY <1>4, <1>6 DEF ContextInv
<1>8. ContextsTyped'  BY <1>2, <1>5, <1>6 DEF Send, pageVars, ContextsTyped
<1> QED  BY <1>7, <1>8, NothingStamped DEF ContextInv, Send, CarriesDue

LEMMA LoadedKeeps ==
    ASSUME ContextInv, NEW r \in Requests, Loaded(r)
    PROVE  ContextInv'
<1>1. ContextsTyped /\ request[r] \in RequestType /\ request[r].context \in ContextType
      /\ CarriesDue(request[r])
  BY DEF ContextInv, ContextsTyped, RequestType
<1> DEFINE c == request[r].context
           q == [request[r] EXCEPT !.stage = "posted", !.context = Normalized(c)]
<1>2. request' = [request EXCEPT ![r] = q]  BY <1>1 DEF Loaded, ContextsTyped
<1>3. Normalized(c) \in ContextType
      /\ (c.at \in Folders => Normalized(c).folder = c.at /\ Normalized(c).at = c.at)
  BY <1>1, NormalizedFacts
<1>4. q \in RequestType /\ q.due = request[r].due /\ q.folder = request[r].folder
      /\ q.explicit = request[r].explicit /\ q.context = Normalized(c)
  BY <1>1, <1>3 DEF RequestType
<1>5. CarriesDue(q)
  <2>1. q.due \in MaybeFolder /\ (q.due # NoFolder => q.due \in Folders)
    BY <1>4 DEF RequestType, MaybeFolder
  <2> QED  BY <1>1, <1>3, <1>4, <2>1 DEF CarriesDue
<1>6. {active', lock'} \subseteq ContextType
  BY <1>1, SetContextTyped DEF Loaded, contexts, ContextsTyped
<1>7. request' \in [Requests -> RequestType]
      /\ \A s \in Requests : request'[s] = q \/ request'[s] = request[s]
  BY <1>1, <1>2, <1>4 DEF ContextsTyped
<1> HIDE DEF q
<1>8. \A s \in Requests : CarriesDue(request'[s])  BY <1>5, <1>7 DEF ContextInv
<1>9. ContextsTyped'  BY <1>1, <1>6, <1>7 DEF Loaded, pageVars, ContextsTyped
<1> QED  BY <1>8, <1>9, NothingStamped DEF ContextInv, Loaded, CarriesDue

LEMMA DeliverKeeps ==
    ASSUME ContextInv, NEW r \in Requests, Deliver(r)
    PROVE  ContextInv'
<1> DEFINE q == request[r]
           c == Normalized(q.context)
<1>1. ContextsTyped /\ q \in RequestType /\ q.context \in ContextType /\ CarriesDue(q)
  BY DEF ContextInv, ContextsTyped, RequestType
<1>2. c \in ContextType /\ (q.context.at \in Folders => c.folder = q.context.at)
  BY <1>1, NormalizedFacts
<1>3. PICK inline \in MaybeFolder, setting \in Stricts :
        LET strict == StrictFolder(setting)
        IN  captured' = IF Admitted(q, c, inline, strict)
                          THEN [folder |-> FirstOf(strict, StampFolder(q, c, inline)), due |-> q.due,
                                chosen |-> strict # NoFolder /\ q.explicit = NoFolder]
                          ELSE NoCapture
  BY DEF Deliver
<1> DEFINE strict == StrictFolder(setting)
<1>0. SetContext(c) /\ request' = [request EXCEPT ![r] = NoRequest] /\ UNCHANGED <<pageVars, sticky>>
  BY DEF Deliver
<1>4. q.due \in MaybeFolder /\ (q.due # NoFolder => q.due \in Folders)
      /\ q.folder \in MaybeFolder
  BY <1>1 DEF RequestType, MaybeFolder
<1> DEFINE stamp == StampFolder(q, c, inline)
<1>5. RequestDecides'
  <2>1. CASE ~ Admitted(q, c, inline, strict)  BY <1>3, <2>1, NothingStamped
  <2>2. CASE Admitted(q, c, inline, strict)
    <3>1. /\ captured'.folder = FirstOf(strict, stamp)
          /\ captured'.due = q.due
          /\ captured'.chosen = (strict # NoFolder /\ q.explicit = NoFolder)
      BY <1>3, <2>2
    <3>2. SUFFICES ASSUME q.due # NoFolder, strict = NoFolder \/ q.explicit # NoFolder
                   PROVE  FirstOf(strict, stamp) = q.due
      BY <3>1 DEF RequestDecides
    <3>3. stamp = q.due
      <4>1. CASE q.folder = q.due  BY <3>2, <4>1 DEF StampFolder, FirstOf
      <4>2. CASE q.folder = NoFolder /\ q.context.folder = q.due /\ q.context.at = q.due
        <5>1. c.folder = q.due  BY <1>2, <1>4, <3>2, <4>2
        <5> QED  BY <3>2, <4>2, <5>1 DEF StampFolder, ContextFolder, FirstOf
      <4> QED  BY <1>1, <3>2, <4>1, <4>2 DEF CarriesDue
    <3>4. CASE strict = NoFolder  BY <3>3, <3>4 DEF FirstOf
    <3>5. CASE strict # NoFolder
      <4>1. q.explicit = q.due  BY <1>1, <3>2, <3>5 DEF CarriesDue
      <4>2. Evidence(q, c, inline) = q.due  BY <3>2, <4>1 DEF Evidence, FirstOf
      <4>3. strict = q.due  BY <2>2, <3>5, <4>2 DEF Admitted
      <4> QED  BY <3>5, <4>3 DEF FirstOf
    <3> QED  BY <3>4, <3>5
  <2> QED  BY <2>1, <2>2
<1>6. {active', lock'} \subseteq ContextType  BY <1>0, <1>1, <1>2, SetContextTyped
<1>7. NoRequest \in RequestType /\ CarriesDue(NoRequest)
  BY FolderTyped DEF NoRequest, RequestType, MaybeFolder, CarriesDue
<1>8. request' \in [Requests -> RequestType]
      /\ \A s \in Requests : request'[s] = NoRequest \/ request'[s] = request[s]
  BY <1>0, <1>1, <1>7 DEF ContextsTyped
<1>9. \A s \in Requests : CarriesDue(request'[s])  BY <1>7, <1>8 DEF ContextInv
<1>10. ContextsTyped'  BY <1>0, <1>1, <1>6, <1>8 DEF pageVars, ContextsTyped
<1> QED  BY <1>5, <1>9, <1>10 DEF ContextInv, CarriesDue

LEMMA ContextInvInit == BookmarksInit => ContextInv
<1> SUFFICES ASSUME BookmarksInit PROVE ContextInv  OBVIOUS
<1>1. entry \in MaybeFolder
  BY PlacesAssumption DEF BookmarksInit, MaybeFolder
<1>2. location \in Places /\ hint = NoHint
  BY <1>1 DEF BookmarksInit, MaybeFolder, Places
<1>3. NoRequest \in RequestType /\ CarriesDue(NoRequest)
  BY FolderTyped DEF NoRequest, RequestType, MaybeFolder, CarriesDue
<1>4. ContextsTyped  BY <1>1, <1>2, <1>3, FolderTyped DEF BookmarksInit, ContextsTyped
<1>5. RequestDecides  BY DEF BookmarksInit, RequestDecides, NoCapture
<1> QED  BY <1>3, <1>4, <1>5 DEF BookmarksInit, ContextInv

LEMMA ContextInvStep == ContextInv /\ [BookmarksNext]_bookmarkVars => ContextInv'
<1> SUFFICES ASSUME ContextInv, [BookmarksNext]_bookmarkVars PROVE ContextInv'  OBVIOUS
<1> USE DEF pageVars
<1>1. ContextsTyped  BY DEF ContextInv
<1>2. CASE RefreshContext
  BY <1>1, <1>2, FromPageTyped, ApplyTyped, RestKeepsContexts DEF RefreshContext, ContextsTyped
<1>9. CASE InstallTracking
  BY <1>1, <1>9, FromPageTyped, ApplyTyped, RestKeepsContexts DEF InstallTracking, ContextsTyped
<1>3. CASE ClickFolder
  <2>1. PICK f \in Folders : Apply(Context(f, f))  BY <1>3 DEF ClickFolder
  <2>2. Context(f, f) \in ContextType  BY FolderTyped
  <2> QED  BY <1>1, <1>3, <2>1, <2>2, ApplyTyped, RestKeepsContexts DEF ClickFolder, ContextsTyped
<1>4. CASE Navigate  BY <1>1, <1>4, RestKeepsContexts DEF Navigate, ContextsTyped
<1>5. CASE TimePasses  BY <1>5, AgingKeeps
<1>6. CASE DeliverOther
  BY <1>1, <1>6, FromPageTyped, SetContextTyped, RestKeepsContexts DEF DeliverOther, ContextsTyped
<1>7. CASE \E r \in Requests : Send(r) \/ Loaded(r) \/ Deliver(r)
  BY <1>7, SendKeeps, LoadedKeeps, DeliverKeeps
<1>8. CASE UNCHANGED bookmarkVars
  BY <1>1, <1>8, RestKeepsContexts DEF bookmarkVars, ContextsTyped
<1> QED  BY <1>2, <1>3, <1>4, <1>5, <1>6, <1>7, <1>8, <1>9 DEF BookmarksNext

(* Whatever page, context and lock an answer meets, and however long it      *)
(* takes, its response is stamped with the folder its request named, or that *)
(* of the page it was sent from; for any folders and requests in flight.     *)
(* (bookmarks/api.ts:572, getBookmarkFolderContext)                          *)
THEOREM RequestsDecide == BookmarksSpec => []RequestDecides
<1>1. ContextInv => RequestDecides  BY DEF ContextInv
<1> QED  BY <1>1, ContextInvInit, ContextInvStep, PTL DEF BookmarksSpec

-----------------------------------------------------------------------------
(* The gallery.  The rows an export gives are those of one index (Index):    *)
(* what it has so far is the first rows of it, and the next window continues *)
(* them, whichever window the source has kept.                               *)
Index == IF Flagged # {} THEN ByFlag ELSE ByCount
Offsets == 0..Cardinality(Docs)

Fits(window, i) == Len(window.ids) \in Nat /\ i + Len(window.ids) \in Offsets

MediaInv ==
    /\ source = [cache |-> source.cache, before |-> source.before] /\ source.before \in BOOLEAN
    /\ source.cache = [i \in Offsets |-> source.cache[i]]
    /\ \A i \in Offsets : source.cache[i].kept => Fits(source.cache[i], i)
    /\ ~source.before => \A i \in Offsets : source.cache[i].kept => source.cache[i] = Page(i)
    /\ stream = [stage |-> stream.stage, start |-> stream.start, out |-> stream.out,
                 still |-> stream.still]
    /\ stream.still \in BOOLEAN
    /\ stream.stage = "none" => ~stream.still
    /\ stream.start \in Offsets
    /\ stream.stage = "reads" /\ stream.still =>
          /\ ~source.before
          /\ stream.start = 0 \/ stream.start < Len(Index)
          /\ stream.out = SubSeq(Index, 1, stream.start)
    /\ MediaIsWhole

LEMMA Listing ==
  ASSUME NEW n \in Nat, NEW s, s = [i \in 1..n |-> s[i]]
  PROVE  s \in Seq({s[i] : i \in 1..n}) /\ Len(s) = n /\ DOMAIN s = 1..n
  <1> DEFINE S == {s[i] : i \in 1..n}
  <1>1. \A i \in 1..n : s[i] \in S
    OBVIOUS
  <1>2. s \in [1..n -> S]
    BY <1>1
  <1> HIDE DEF S
  <1> QED BY <1>2

LEMMA SortedRows ==
  ASSUME NEW S, NEW ahead
  PROVE  Sorted(S, ahead) = [i \in 1..Cardinality(S) |-> Sorted(S, ahead)[i]]
  <1> DEFINE row(i) == CHOOSE d \in S : Cardinality(S \cap ahead[d]) = i - 1
             rows == [i \in 1..Cardinality(S) |-> row(i)]
  <1>1. Sorted(S, ahead) = rows
    BY DEF Sorted
  <1>2. rows = [i \in 1..Cardinality(S) |-> rows[i]]
    <2> HIDE DEF row
    <2> QED OBVIOUS
  <1> HIDE DEF rows
  <1> QED BY <1>1, <1>2

LEMMA Indexes ==
  ASSUME IsFiniteSet(Docs)
  PROVE  /\ Len(ByFlag) = Cardinality(Flagged) /\ Len(ByCount) = Cardinality(Counted)
         /\ Cardinality(Flagged) \in Offsets /\ Cardinality(Counted) \in Offsets
         /\ Cardinality(Docs) \in Nat
         /\ Flagged = {} <=> Cardinality(Flagged) = 0
         /\ ByFlag \in Seq({ByFlag[i] : i \in 1..Cardinality(Flagged)})
         /\ ByCount \in Seq({ByCount[i] : i \in 1..Cardinality(Counted)})
  <1>1. Flagged \in SUBSET Docs /\ Counted \in SUBSET Docs
    BY DEF Flagged, Counted
  <1>2. /\ IsFiniteSet(Flagged) /\ Cardinality(Flagged) <= Cardinality(Docs)
        /\ IsFiniteSet(Counted) /\ Cardinality(Counted) <= Cardinality(Docs)
    BY <1>1, FS_Subset
  <1>3. Cardinality(Flagged) \in Nat /\ Cardinality(Counted) \in Nat /\ Cardinality(Docs) \in Nat
    BY <1>2, FS_CardinalityType
  <1>4. Flagged = {} <=> Cardinality(Flagged) = 0
    BY <1>2, FS_EmptySet
  <1>5. ByFlag = [i \in 1..Cardinality(Flagged) |-> ByFlag[i]]
    BY SortedRows DEF ByFlag
  <1>6. ByCount = [i \in 1..Cardinality(Counted) |-> ByCount[i]]
    BY SortedRows DEF ByCount
  <1>7. /\ ByFlag \in Seq({ByFlag[i] : i \in 1..Cardinality(Flagged)})
        /\ Len(ByFlag) = Cardinality(Flagged)
    BY <1>3, <1>5, Listing
  <1>8. /\ ByCount \in Seq({ByCount[i] : i \in 1..Cardinality(Counted)})
        /\ Len(ByCount) = Cardinality(Counted)
    BY <1>3, <1>6, Listing
  <1> QED BY <1>2, <1>3, <1>4, <1>7, <1>8 DEF Offsets

LEMMA IndexFacts ==
  ASSUME IsFiniteSet(Docs)
  PROVE  \E S : Index \in Seq(S) /\ Len(Index) \in Offsets /\ Offsets \subseteq Nat
  BY Indexes DEF Index, Offsets

LEMMA MinOfTwo ==
  ASSUME NEW a \in Nat, NEW b \in Nat
  PROVE  Min({a, b}) = IF a <= b THEN a ELSE b
  <1>1. \E x \in {a, b} : \A y \in {a, b} : x <= y
    OBVIOUS
  <1> QED BY <1>1 DEF Min

(* A window that begins in the index, or with it, is of the index.           *)
Until(k) == IF Len(Index) < k + Limit THEN Len(Index) ELSE k + Limit

LEMMA PageFacts ==
  ASSUME IsFiniteSet(Docs), Limit \in Nat \ {0}, NEW k \in Nat, k = 0 \/ k < Len(Index)
  PROVE  /\ Page(k).ids = SubSeq(Index, k + 1, Until(k))
         /\ Page(k).more <=> Len(Index) > k + Limit
         /\ Len(SubSeq(Index, k + 1, Until(k))) = Until(k) - k
         /\ Until(k) \in k..Len(Index)
  <1>1. PICK S : Index \in Seq(S) /\ Len(Index) \in Nat
    BY IndexFacts
  <1>2. Until(k) \in k..Len(Index) /\ Until(k) \in Nat
    BY <1>1 DEF Until
  <1>3. Rows(k) = SubSeq(Index, k + 1, Len(Index))
    <2>1. CASE Flagged # {}
      <3>1. Index = ByFlag /\ Len(ByFlag) > 0 /\ Len(ByFlag) \in Nat
        BY <2>1, Indexes DEF Index, Offsets
      <3>2. k < Len(ByFlag)
        BY <3>1
      <3>3. Len(Rest(ByFlag, k)) > 0
        BY <1>1, <3>1, <3>2, SubSeqProperties DEF Rest
      <3>4. Rest(ByFlag, k) # <<>>
        BY <3>3
      <3>5. Rows(k) = Rest(ByFlag, k)
        BY <3>4 DEF Rows
      <3> QED BY <3>1, <3>5 DEF Rest
    <2>2. CASE Flagged = {}
      <3>1. Index = ByCount /\ Len(ByFlag) = 0
        BY <2>2, Indexes DEF Index
      <3>2. Rest(ByFlag, k) = <<>>
        BY <3>1, SubSeqEmpty DEF Rest
      <3> QED BY <3>1, <3>2 DEF Rows, Rest
    <2> QED BY <2>1, <2>2
  <1>4. /\ Rows(k) \in Seq(S) /\ Len(Rows(k)) = Len(Index) - k
        /\ \A i \in 1..Len(Index) - k : Rows(k)[i] = Index[k + i]
    <2>1. \A i \in (k + 1)..Len(Index) : Index[i] \in S
      BY <1>1
    <2>2. /\ SubSeq(Index, k + 1, Len(Index)) \in Seq(S)
          /\ Len(SubSeq(Index, k + 1, Len(Index))) =
                IF k + 1 <= Len(Index) THEN Len(Index) - (k + 1) + 1 ELSE 0
          /\ \A i \in 1..Len(Index) - (k + 1) + 1 :
                SubSeq(Index, k + 1, Len(Index))[i] = Index[(k + 1) + i - 1]
      BY <1>1, <2>1, SubSeqProperties
    <2> QED BY <1>1, <1>3, <2>2
  <1> DEFINE r == Rows(k)
  <1> DEFINE m == Min({Len(r), Limit})
  <1>5. m = Until(k) - k
    BY <1>1, <1>4, MinOfTwo DEF Until
  <1>6. SubSeq(r, 1, m) = SubSeq(Index, k + 1, Until(k))
        /\ Len(SubSeq(Index, k + 1, Until(k))) = Until(k) - k
    <2> DEFINE s == SubSeq(r, 1, m)
    <2> DEFINE t == SubSeq(Index, k + 1, Until(k))
    <2>1. \A i \in 1..m : r[i] \in S
      BY <1>1, <1>2, <1>4, <1>5
    <2>2. s \in Seq(S) /\ Len(s) = Until(k) - k /\ \A i \in 1..Until(k) - k : s[i] = r[i]
      <3> HIDE DEF r, m
      <3>1. m \in Int /\ 1 \in Int
        BY <1>1, <1>2, <1>5
      <3>2. /\ s \in Seq(S) /\ Len(s) = IF 1 <= m THEN m - 1 + 1 ELSE 0
            /\ \A i \in 1..m - 1 + 1 : s[i] = r[1 + i - 1]
        BY <2>1, <3>1, SubSeqProperties
      <3> QED BY <1>1, <1>2, <1>5, <3>2
    <2>3. \A i \in (k + 1)..Until(k) : Index[i] \in S
      BY <1>1, <1>2
    <2>4. t \in Seq(S) /\ Len(t) = Until(k) - k /\ \A i \in 1..Until(k) - k : t[i] = Index[k + i]
      <3>1. k + 1 \in Int /\ Until(k) \in Int
        BY <1>2
      <3>2. /\ t \in Seq(S) /\ Len(t) = IF k + 1 <= Until(k) THEN Until(k) - (k + 1) + 1 ELSE 0
            /\ \A i \in 1..Until(k) - (k + 1) + 1 : t[i] = Index[(k + 1) + i - 1]
        BY <2>3, <3>1, SubSeqProperties
      <3> QED BY <1>2, <3>2
    <2>5. ASSUME NEW i \in 1..Until(k) - k PROVE s[i] = t[i]
      <3>1. i \in 1..Len(Index) - k
        BY <1>1, <1>2
      <3>2. s[i] = r[i] /\ t[i] = Index[k + i]
        BY <2>2, <2>4
      <3> HIDE DEF s, t
      <3> QED BY <1>4, <3>1, <3>2
    <2> HIDE DEF s, t
    <2>6. s = t
      BY <2>2, <2>4, <2>5, SeqEqual
    <2> QED BY <2>4, <2>6 DEF s, t
  <1>7. Len(r) > Limit <=> Len(Index) > k + Limit
    BY <1>1, <1>4
  <1>8. Page(k).ids = SubSeq(r, 1, m) /\ (Page(k).more <=> Len(r) > Limit)
    BY DEF Page
  <1> QED BY <1>2, <1>6, <1>7, <1>8

LEMMA PageFits ==
  ASSUME IsFiniteSet(Docs), Limit \in Nat \ {0}, NEW k \in Offsets
  PROVE  Fits(Page(k), k) /\ Page(k).kept
  <1>1. ASSUME NEW S, NEW s \in Seq(S), Len(s) \in Offsets
        PROVE  LET r == Rest(s, k)
                   m == Min({Len(r), Limit})
               IN  Len(SubSeq(r, 1, m)) \in Nat /\ k + Len(SubSeq(r, 1, m)) \in Offsets
    <2> DEFINE r == Rest(s, k)
    <2> DEFINE m == Min({Len(r), Limit})
    <2>1. k \in Nat /\ Cardinality(Docs) \in Nat /\ Len(s) \in Nat /\ Len(s) <= Cardinality(Docs)
          /\ k <= Cardinality(Docs)
      BY <1>1, Indexes DEF Offsets
    <2>2. \A i \in (k + 1)..Len(s) : s[i] \in S
      BY <1>1, <2>1
    <2>3. r \in Seq(S) /\ Len(r) = IF k + 1 <= Len(s) THEN Len(s) - k ELSE 0
      <3>1. /\ SubSeq(s, k + 1, Len(s)) \in Seq(S)
            /\ Len(SubSeq(s, k + 1, Len(s))) =
                  IF k + 1 <= Len(s) THEN Len(s) - (k + 1) + 1 ELSE 0
        BY <2>1, <2>2, SubSeqProperties
      <3> QED BY <2>1, <3>1 DEF Rest
    <2> HIDE DEF r
    <2>4. m \in Nat /\ m <= Len(r) /\ Len(r) \in Nat
      BY <2>1, <2>3, MinOfTwo
    <2> HIDE DEF m
    <2>5. Len(SubSeq(r, 1, m)) = m
      <3>1. \A i \in 1..m : r[i] \in S
        BY <2>3, <2>4
      <3>2. Len(SubSeq(r, 1, m)) = IF 1 <= m THEN m - 1 + 1 ELSE 0
        BY <2>4, <3>1, SubSeqProperties
      <3> QED BY <2>4, <3>2
    <2> QED BY <2>1, <2>3, <2>4, <2>5 DEF Offsets, r, m
  <1> DEFINE Cut(r) == SubSeq(r, 1, Min({Len(r), Limit}))
  <1>2. /\ Len(Cut(Rest(ByFlag, k))) \in Nat /\ k + Len(Cut(Rest(ByFlag, k))) \in Offsets
        /\ Len(Cut(Rest(ByCount, k))) \in Nat /\ k + Len(Cut(Rest(ByCount, k))) \in Offsets
    BY <1>1, Indexes
  <1>3. Page(k).ids = Cut(Rows(k)) /\ Page(k).kept
    BY DEF Page
  <1> HIDE DEF Cut
  <1> QED BY <1>2, <1>3 DEF Rows, Fits

(* A source that has loaded a window still knows what it knew.               *)
LEMMA LoadKeeps ==
  ASSUME IsFiniteSet(Docs), Limit \in Nat \ {0}, MediaInv, NEW k \in Offsets
  PROVE  LET src == Load(k)
         IN  /\ src = [cache |-> src.cache, before |-> src.before] /\ src.before = source.before
             /\ src.cache = [i \in Offsets |-> src.cache[i]]
             /\ \A i \in Offsets : src.cache[i].kept => Fits(src.cache[i], i)
             /\ ~src.before => \A i \in Offsets : src.cache[i].kept => src.cache[i] = Page(i)
             /\ src.cache[k].kept
  <1> DEFINE src == Load(k)
  <1>1. CASE source.cache[k].kept
    BY <1>1 DEF MediaInv, Load
  <1>2. CASE ~source.cache[k].kept
    <2> DEFINE p == Page(k)
    <2>1. src = [source EXCEPT !.cache[k] = p]
      BY <1>2 DEF Load
    <2> HIDE DEF p
    <2>2. /\ src = [cache |-> src.cache, before |-> src.before] /\ src.before = source.before
          /\ src.cache = [source.cache EXCEPT ![k] = p]
      BY <2>1 DEF MediaInv
    <2> HIDE DEF src
    <2>3. /\ src.cache = [i \in Offsets |-> src.cache[i]] /\ src.cache[k] = p
          /\ \A i \in Offsets : i # k => src.cache[i] = source.cache[i]
      BY <2>2 DEF MediaInv
    <2>4. Fits(p, k) /\ p.kept
      BY PageFits DEF p
    <2> QED BY <2>2, <2>3, <2>4 DEF MediaInv, p, src
  <1> QED BY <1>1, <1>2

LEMMA StreamReadKeeps ==
  ASSUME IsFiniteSet(Docs), Limit \in Nat \ {0}, MediaInv, StreamReads
  PROVE  MediaInv'
  <1> DEFINE k == stream.start
  <1> DEFINE window == source'.cache[k]
  <1>1. /\ stream.stage = "reads" /\ source' = Load(k) /\ mark' = mark
        /\ stream' = [stream EXCEPT !.out = @ \o window.ids, !.start = @ + Len(window.ids),
                                    !.stage = IF ~window.more \/ window.ids = <<>> THEN "done" ELSE @]
    BY DEF StreamReads
  <1>2. /\ stream'.out = stream.out \o window.ids /\ stream'.start = k + Len(window.ids)
        /\ stream'.stage = (IF ~window.more \/ window.ids = <<>> THEN "done" ELSE "reads")
        /\ stream'.still = stream.still
        /\ stream' = [stage |-> stream'.stage, start |-> stream'.start, out |-> stream'.out,
                      still |-> stream'.still]
    BY <1>1 DEF MediaInv
  <1>3. /\ \A i : Page(i)' = Page(i) /\ Index' = Index /\ Flagged' = Flagged
        /\ ByFlag' = ByFlag /\ ByCount' = ByCount
    BY <1>1 DEF Page, Rows, Index, ByFlag, ByCount, Flagged, Counted
  <1>4. /\ k \in Offsets /\ window.kept /\ Fits(window, k)
        /\ source' = [cache |-> source'.cache, before |-> source'.before]
        /\ source'.before = source.before /\ source.before \in BOOLEAN
        /\ source'.cache = [i \in Offsets |-> source'.cache[i]]
        /\ \A i \in Offsets : source'.cache[i].kept => Fits(source'.cache[i], i)
        /\ ~source'.before => \A i \in Offsets : source'.cache[i].kept => source'.cache[i] = Page(i)
    <2>1. k \in Offsets
      BY DEF MediaInv
    <2> HIDE DEF k
    <2> QED BY <1>1, <2>1, LoadKeeps DEF MediaInv
  <1>5. /\ stream'.start \in Offsets /\ stream'.still \in BOOLEAN
        /\ stream'.stage = "none" => ~stream'.still
    BY <1>2, <1>4 DEF Fits, MediaInv
  <1>6. ASSUME stream.still
        PROVE  /\ stream'.stage = "reads" => /\ stream'.start < Len(Index)
                                             /\ stream'.out = SubSeq(Index, 1, stream'.start)
               /\ stream'.stage = "done" => stream'.out = Index
    <2>1. /\ ~source.before /\ (k = 0 \/ k < Len(Index))
          /\ stream.out = SubSeq(Index, 1, k)
      BY <1>1, <1>6 DEF MediaInv
    <2>2. PICK S : Index \in Seq(S) /\ Len(Index) \in Nat /\ Offsets \subseteq Nat
      BY IndexFacts
    <2>3. window = Page(k) /\ k \in Nat
      BY <1>4, <2>1, <2>2
    <2> HIDE DEF window, k
    <2>4. /\ window.ids = SubSeq(Index, k + 1, Until(k)) /\ (window.more <=> Len(Index) > k + Limit)
          /\ Len(window.ids) = Until(k) - k /\ Until(k) \in k..Len(Index)
      <3>1. Page(k).ids = SubSeq(Index, k + 1, Until(k)) /\ (Page(k).more <=> Len(Index) > k + Limit)
        BY <2>1, <2>3, PageFacts
      <3>2. /\ Len(SubSeq(Index, k + 1, Until(k))) = Until(k) - k /\ Until(k) \in k..Len(Index)
        BY <2>1, <2>3, PageFacts
      <3> QED BY <2>3, <3>1, <3>2
    <2>5. stream.out \o window.ids = SubSeq(Index, 1, Until(k))
      <3>1. 1 \in 1..Len(Index) + 1 /\ k \in 1 - 1..Len(Index) /\ Until(k) \in k..Len(Index)
        BY <2>1, <2>2, <2>3, <2>4
      <3> QED BY <2>1, <2>2, <2>4, <3>1, ConcatAdjacentSubSeq
    <2>6. stream'.start = Until(k)
      BY <1>2, <2>2, <2>3, <2>4 DEF k
    <2>7. CASE stream'.stage = "reads"
      <3>1. window.more
        BY <1>2, <2>7
      <3>2. Until(k) < Len(Index)
        BY <2>2, <2>3, <2>4, <3>1 DEF Until
      <3> QED BY <1>2, <2>5, <2>6, <2>7, <3>2
    <2>8. CASE stream'.stage = "done"
      <3>1. ~window.more \/ Len(window.ids) = 0
        BY <1>2, <2>8
      <3>2. Until(k) = Len(Index)
        BY <2>1, <2>2, <2>3, <2>4, <3>1 DEF Until
      <3>3. SubSeq(Index, 1, Len(Index)) = Index
        BY <2>2, SubSeqFull
      <3> QED BY <1>2, <2>5, <2>8, <3>2, <3>3
    <2> QED BY <2>7, <2>8
  <1>7. MediaIsWhole'
    BY <1>2, <1>3, <1>6 DEF MediaIsWhole, Index
  <1>8. stream'.still => ~source'.before /\ (stream.stage = "reads" => stream.still)
    BY <1>1, <1>2, <1>4 DEF MediaInv
  <1>9. Offsets' = Offsets
    BY DEF Offsets
  <1> HIDE DEF window, k
  <1>10. /\ \A i \in Offsets : source'.cache[i].kept => Fits(source.cache[i], i)'
         /\ ~source'.before => \A i \in Offsets : source'.cache[i].kept => source'.cache[i] = Page(i)'
    <2>1. \A i \in Offsets : source'.cache[i].kept => Fits(source.cache[i], i)'
      BY <1>4, <1>9 DEF Fits
    <2>2. ~source'.before => \A i \in Offsets : source'.cache[i].kept => source'.cache[i] = Page(i)'
      BY <1>3, <1>4
    <2> QED BY <2>1, <2>2
  <1>11. stream'.stage = "reads" /\ stream'.still =>
            /\ ~source'.before
            /\ stream'.start = 0 \/ stream'.start < Len(Index')
            /\ stream'.out = SubSeq(Index', 1, stream'.start)
    BY <1>2, <1>3, <1>6, <1>8
  <1> QED BY <1>2, <1>4, <1>5, <1>7, <1>9, <1>10, <1>11 DEF MediaInv

(* A write and a repair change the indexes; no export goes on as it was.     *)
LEMMA ChangeKeeps ==
  ASSUME IsFiniteSet(Docs), MediaInv,
         Repair \/ \E d \in Docs, m \in Marks : Write(d, m)
  PROVE  MediaInv'
  <1>1. /\ stream'.still = FALSE /\ stream'.start = stream.start /\ stream'.out = stream.out
        /\ stream' = [stage |-> stream'.stage, start |-> stream'.start, out |-> stream'.out,
                      still |-> stream'.still]
    <2>1. CASE Repair
      BY <2>1 DEF Repair, MediaInv
    <2>2. CASE \E d \in Docs, m \in Marks : Write(d, m)
      BY <2>2 DEF Write, MediaInv
    <2> QED BY <2>1, <2>2
  <1>2. /\ NewSource.before = FALSE /\ \A i \in Offsets : ~NewSource.cache[i].kept
        /\ NewSource = [cache |-> NewSource.cache, before |-> NewSource.before]
        /\ NewSource.cache = [i \in Offsets |-> NewSource.cache[i]]
    BY DEF NewSource, NoPage, Offsets
  <1>3. /\ source' = [cache |-> source'.cache, before |-> source'.before] /\ source'.before \in BOOLEAN
        /\ source'.cache = [i \in Offsets |-> source'.cache[i]]
        /\ \A i \in Offsets : source'.cache[i].kept => Fits(source'.cache[i], i)
        /\ ~source'.before => \A i \in Offsets : ~source'.cache[i].kept
    <2>1. CASE Repair
      <3>1. source' = [source EXCEPT !.before = @ \/ source # NewSource]
        BY <2>1 DEF Repair
      <3>2. /\ source' = [cache |-> source'.cache, before |-> source'.before]
            /\ source'.cache = source.cache /\ source'.before = (source.before \/ source # NewSource)
        BY <3>1 DEF MediaInv
      <3> QED BY <1>2, <3>2 DEF MediaInv
    <2>2. CASE \E d \in Docs, m \in Marks : Write(d, m)
      <3>1. source' = NewSource
        BY <2>2 DEF Write
      <3> QED BY <1>2, <3>1
    <2> QED BY <2>1, <2>2
  <1>4. stream'.start \in Offsets
    BY <1>1 DEF MediaInv
  <1> QED BY <1>1, <1>3, <1>4 DEF MediaInv, MediaIsWhole, Offsets, Fits

(* The files of a gallery: for any documents, windows, writes and repairs    *)
(* (result-sources.ts:1049, streamRows).                                     *)
THEOREM GalleryIsWhole ==
  ASSUME IsFiniteSet(Docs), Limit \in Nat \ {0}
  PROVE  MediaSpec => []MediaIsWhole
  <1>1. MediaInit => MediaInv
    <2> SUFFICES ASSUME MediaInit PROVE MediaInv
      OBVIOUS
    <2>1. 0 \in Offsets
      BY FS_CardinalityType DEF Offsets
    <2> QED BY <2>1 DEF MediaInit, MediaInv, NewSource, NoPage, NoStream, MediaIsWhole, Offsets
  <1>2. MediaInv /\ [MediaNext]_mediaVars => MediaInv'
    <2> SUFFICES ASSUME MediaInv, [MediaNext]_mediaVars PROVE MediaInv'
      OBVIOUS
    <2> USE DEF Offsets
    <2>1. CASE \E start \in 0..Cardinality(Docs) - 1 : Window(start)
      <3>1. PICK k \in 0..Cardinality(Docs) - 1 : Window(k)
        BY <2>1
      <3>2. k \in Offsets /\ source' = Load(k) /\ UNCHANGED <<mark, stream>>
        BY <3>1, FS_CardinalityType DEF Window
      <3>3. /\ source' = [cache |-> source'.cache, before |-> source'.before] /\ source'.before = source.before
            /\ source'.cache = [i \in Offsets |-> source'.cache[i]]
            /\ \A i \in Offsets : source'.cache[i].kept => Fits(source'.cache[i], i)
            /\ ~source'.before => \A i \in Offsets : source'.cache[i].kept => source'.cache[i] = Page(i)
        BY <3>2, LoadKeeps
      <3>4. /\ \A i : Page(i)' = Page(i) /\ Index' = Index /\ Flagged' = Flagged
            /\ ByFlag' = ByFlag /\ ByCount' = ByCount
        BY <3>2 DEF Page, Rows, Index, ByFlag, ByCount, Flagged, Counted
      <3> QED BY <3>2, <3>3, <3>4 DEF MediaInv, MediaIsWhole, Fits
    <2>2. CASE Count
      BY <2>2 DEF Count, MediaInv, MediaIsWhole, Fits, Page, Rows, Index, ByFlag, ByCount, Flagged, Counted
    <2>3. CASE Repair
      BY <2>3, ChangeKeeps
    <2>4. CASE \E d \in Docs, m \in {"flagged", "plain", "none"} : Write(d, m)
      BY <2>4, ChangeKeeps DEF Marks
    <2>5. CASE StreamStarts
      <3>1. /\ stream' = [stage |-> "reads", start |-> 0, out |-> <<>>, still |-> ~source.before]
            /\ UNCHANGED <<mark, source>>
        BY <2>5 DEF StreamStarts, NoStream
      <3>2. 0 \in Offsets
        BY FS_CardinalityType
      <3>3. SubSeq(Index, 1, 0) = <<>>
        BY SubSeqEmpty
      <3>4. /\ \A i : Page(i)' = Page(i) /\ Index' = Index
        BY <3>1 DEF Page, Rows, Index, ByFlag, ByCount, Flagged, Counted
      <3> QED BY <3>1, <3>2, <3>3, <3>4 DEF MediaInv, MediaIsWhole, Fits
    <2>6. CASE StreamReads
      BY <2>6, StreamReadKeeps
    <2>7. CASE UNCHANGED mediaVars
      BY <2>7 DEF mediaVars, MediaInv, MediaIsWhole, Fits, Page, Rows, Index, ByFlag, ByCount, Flagged, Counted
    <2> QED BY <2>1, <2>2, <2>3, <2>4, <2>5, <2>6, <2>7 DEF MediaNext
  <1>3. MediaInv => MediaIsWhole
    BY DEF MediaInv
  <1> QED BY <1>1, <1>2, <1>3, PTL DEF MediaSpec
=============================================================================

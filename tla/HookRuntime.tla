---------------------------- MODULE HookRuntime ----------------------------
(* The hooks of one page of x.com: ExtensionManager puts wrappers around the *)
(* page's fetch and XMLHttpRequest (core/extensions/manager.ts), and         *)
(* RuntimeControlPlane decides when, repairs them and gives up in safe mode  *)
(* (runtime-control-plane.ts).  The page's own scripts wrap them too.        *)
(*                                                                           *)
(* Everything the two classes do in one turn of the event loop is one        *)
(* operator on the page's record, so that nested calls (an install that      *)
(* fails and enables safe mode, which uninstalls) keep their order.  XHR's   *)
(* open and send are installed by the same statements and stand for one      *)
(* function here.  The debug switches and the statistics are left out.       *)
EXTENDS Naturals

CONSTANTS
    MaxInFlight,  \* bound on the observed fetches in flight at once
    StoredModes,  \* the modes localStorage may hold at first
    Realms,       \* of "exported" (exportFunction), "same", "foreign"
    FailureLimit, \* HOOK_REPAIR_FAILURE_LIMIT: 5
    MaxWraps      \* bound on the wrappers the page's scripts add

ASSUME HookAssumption ==
    MaxWraps \in Nat /\ MaxInFlight \in Nat /\ FailureLimit \in Nat \ {0}
    /\ StoredModes \subseteq [safe : BOOLEAN, mode : {"both", "xhr", "fetch", "off"}, repair : BOOLEAN]
    /\ Realms \subseteq {"exported", "same", "foreign"}

VARIABLES
    page,         \* the page: modes, functions, timers
    inflight,     \* the hook each observed fetch in flight belongs to, or 0
    wraps         \* how often a script of the page has wrapped a function

vars == <<page, inflight, wraps>>

-----------------------------------------------------------------------------
(* Functions.  Of a function of the page we keep its shape and how many      *)
(* hooks a call of it meets.  A fetch hook calls what is stored under        *)
(* ORIG_FETCH_KEY, so it counts as one whatever it wraps; an XHR hook calls  *)
(* the function it was built around.                                         *)
HookModes == {"both", "xhr", "fetch", "off"}
Function == [shape : {"plain", "hook"}, hooks : Nat]
Plain == [shape |-> "plain", hooks |-> 0]        \* the native one, or a page's own
Around(f) == [shape |-> "plain", hooks |-> f.hooks]         \* a page's wrapper of f
HookAround(f) == [shape |-> "hook", hooks |-> f.hooks + 1]
Unset == [shape |-> "unset", hooks |-> 0]
IsHook(f) == f.shape = "hook"                               \* hasHookShape
Stored(base, f) == IF base = Unset THEN f ELSE base

Enabled(p, target) == p.mode \in {"both", target}

(* getFunctionFromHookState of a wrapper without a nested original is        *)
(* undefined, and the stored original is taken.                              *)
XhrBase(p) == IF IsHook(p.xhr) THEN Stored(p.xhrBase, p.xhr) ELSE p.xhr

(* A variant that takes the function in place before the stored one.         *)
FetchBaseInPlace(p) == IF IsHook(p.fetch) THEN Stored(p.fetchBase, p.fetch) ELSE p.fetch

(* [existingStoredBase, fetchBaseFromState, fetchNative].find(usable)        *)
FetchBase(p) == Stored(p.fetchBase, p.fetch)

DefinesXhr(p) == p.realm = "exported"
DefinesFetch(p) == p.realm \in {"exported", "same"}

Uninstall(p) ==
    [p EXCEPT !.xhr = Stored(p.xhrBase, @), !.fetch = Stored(p.fetchBase, @)]

ClearRepairLoop(p) ==
    [p EXCEPT !.handle = FALSE, !.armed = IF p.handle THEN @ - 1 ELSE @]

ClearProbe(p) == [p EXCEPT !.probe = FALSE]
Schedule(p) == [p EXCEPT !.handle = TRUE, !.armed = @ + 1]

StartRepairLoop(p) ==
    IF p.safe \/ ~p.repair \/ p.handle THEN p ELSE Schedule(p)

StartProbe(p) ==
    IF p.safe \/ ~Enabled(p, "fetch") THEN p ELSE [p EXCEPT !.probe = TRUE]

EnableSafeMode(p) ==
    ClearRepairLoop(Uninstall([ClearProbe(p) EXCEPT !.safe = TRUE]))

(* defineOn() can fail where exportFunction throws: `broken` are the targets *)
(* it fails for.                                                             *)
Targets == {"xhr", "fetch"}

InstallXhr(p, broken) ==
    LET kept == [p EXCEPT !.xhrBase = Stored(@, p.xhr)]
        base == XhrBase(p)
    IN  CASE ~Enabled(p, "xhr") -> p
          [] ~DefinesXhr(p) \/ "xhr" \in broken -> EnableSafeMode(kept)
          [] OTHER -> [p EXCEPT !.xhr = HookAround(base), !.xhrBase = base]

(* The hook of a new install is another closure: closures in use are told    *)
(* apart by a number, since each enables safe mode for its first failure.    *)
Slots == 1..MaxInFlight
Closures == 1..(MaxInFlight + 1)
InUse == {inflight[i] : i \in Slots} \ {0}
NextClosure == CHOOSE n \in Closures : n \notin InUse

InstallFetch(p, force, broken) ==
    CASE ~Enabled(p, "fetch") \/ (~force /\ IsHook(p.fetch)) -> p
      [] ~DefinesFetch(p) \/ "fetch" \in broken ->
            EnableSafeMode([p EXCEPT !.fetchBase = FetchBase(p)])
      [] OTHER -> StartProbe([p EXCEPT !.fetch = HookAround(Plain),
                                       !.fetchBase = FetchBase(p),
                                       !.closure = NextClosure,
                                       !.fatal = (@ \cap InUse) \ {NextClosure}])

Install(p, force, broken) ==
    InstallFetch(InstallXhr(p, broken), force, broken)

(* ExtensionManager's constructor and RuntimeControlPlane.initialize().  The *)
(* self-test asks only whether the functions are there, and they are.        *)
Initialize(p, broken) == StartProbe(StartRepairLoop(Install(p, FALSE, broken)))

(* applyRuntimeModesFromOptions(), for a page whose modes were those of p.   *)
ApplyModes(p, new, broken) ==
    LET changed == [p EXCEPT !.safe = new.safe, !.mode = new.mode, !.repair = new.repair]
        stopped == ClearProbe(ClearRepairLoop(Uninstall(changed)))
        active  == Install(changed, TRUE, broken)
    IN  CASE changed = p -> p
          [] new.mode = "off" -> stopped
          [] new.mode # "off" /\ new.safe -> Install(stopped, TRUE, broken)
          [] OTHER -> StartProbe(IF active.repair THEN StartRepairLoop(active)
                                                  ELSE ClearRepairLoop(active))

(* repair() of the watchdog's timer: so many failures in a row are the limit. *)
(* Leaving safe mode does not reset the count, which is cut off at the limit *)
(* here: once there, one more failure is enough.                             *)
LeastOf(a, b) == IF a < b THEN a ELSE b
Repaired(p, broken) ==
    Schedule([Install(p, TRUE, broken) EXCEPT !.failures = 0])

(* A variant whose pass gives up after an exception.                         *)
RepairFailedForGood(p) ==
    LET counted == [p EXCEPT !.failures = LeastOf(@ + 1, FailureLimit)]
    IN  IF counted.failures = FailureLimit THEN EnableSafeMode(counted) ELSE counted

RepairFailed(p) ==
    LET counted == [p EXCEPT !.failures = LeastOf(@ + 1, FailureLimit)]
    IN  IF counted.failures = FailureLimit THEN EnableSafeMode(counted)
                                           ELSE Schedule(counted)

-----------------------------------------------------------------------------
(* The first failed request of a closure enables safe mode.                  *)
HookFailed(p, n) ==
    IF n \in p.fatal THEN p ELSE EnableSafeMode([p EXCEPT !.fatal = @ \cup {n}])

-----------------------------------------------------------------------------
Fresh(m, realm) ==
    [safe |-> m.safe, mode |-> m.mode, repair |-> m.repair, realm |-> realm,
     xhr |-> Plain, fetch |-> Plain, xhrBase |-> Unset, fetchBase |-> Unset,
     closure |-> 0, fatal |-> {}, handle |-> FALSE, armed |-> 0,
     probe |-> FALSE, probing |-> FALSE, failures |-> 0]

Modes == [safe : BOOLEAN, mode : HookModes, repair : BOOLEAN]
ModesOf(p) == [safe |-> p.safe, mode |-> p.mode, repair |-> p.repair]

Init ==
    /\ inflight = [i \in Slots |-> 0]
    /\ wraps = 0
    /\ \E m \in StoredModes, realm \in Realms, b \in SUBSET Targets :
         page = Initialize(Fresh(m, realm), b)

(* The user sets one option; every change is applied at once.                *)
SetOption ==
    \E m \in Modes, b \in SUBSET Targets :
      LET now == ModesOf(page)
      IN  /\ m # now
          /\ \/ m = [now EXCEPT !.safe = m.safe]
             \/ m = [now EXCEPT !.mode = m.mode]
             \/ m = [now EXCEPT !.repair = m.repair]
          /\ page' = ApplyModes(page, m, b)
          /\ UNCHANGED <<inflight, wraps>>

(* The page is loaded again: the options are in localStorage, the rest goes. *)
Reload ==
    /\ \E b \in SUBSET Targets :
         page' = Initialize(Fresh(ModesOf(page), page.realm), b)
    /\ inflight' = [i \in Slots |-> 0]
    /\ UNCHANGED wraps

(* A script of the page wraps fetch or the XHR functions, or replaces them   *)
(* by functions that do not call what was there.                             *)
PageWraps ==
    /\ wraps < MaxWraps
    /\ wraps' = wraps + 1
    /\ \/ page' = [page EXCEPT !.fetch = Around(@)]
       \/ page' = [page EXCEPT !.xhr = Around(@)]
       \/ page' = [page EXCEPT !.fetch = Plain]
       \/ page' = [page EXCEPT !.xhr = Plain]
    /\ UNCHANGED inflight

(* The watchdog's timer.  The pass may meet an exception (a page object that *)
(* refuses access), or a function that cannot be defined.                    *)
Watchdog ==
    /\ page.armed > 0
    /\ LET due == [page EXCEPT !.armed = @ - 1, !.handle = FALSE]
       IN  IF due.safe \/ ~due.repair
             THEN page' = due
             ELSE \/ \E b \in SUBSET Targets : page' = Repaired(due, b)
                  \/ page' = RepairFailed(due)
    /\ UNCHANGED <<inflight, wraps>>

(* The boot probe's timer (1200 ms), which every install of the fetch hook   *)
(* starts again: only a watchdog that has backed off (2200 ms and more), or  *)
(* none, lets it come.  The probe awaits a fetch of its own.                 *)
ProbeFires ==
    /\ page.probe
    /\ page.armed = 0 \/ page.failures > 0
    /\ page' = [ClearProbe(page) EXCEPT !.probing = @ \/ (~page.safe /\ Enabled(page, "fetch"))]
    /\ UNCHANGED <<inflight, wraps>>

ProbeSettles ==
    /\ page.probing
    /\ LET settled == [page EXCEPT !.probing = FALSE]
       IN  page' = settled \/ page' = EnableSafeMode(settled)
    /\ UNCHANGED <<inflight, wraps>>

(* A fetch of a captured API.  Where the base throws, the hook enables safe  *)
(* mode and calls fetch again, unobserved.                                   *)
SendFetch ==
    /\ page.fetch.hooks > 0
    /\ \/ /\ \E i \in Slots : /\ inflight[i] = 0
                             /\ inflight' = [inflight EXCEPT ![i] = page.closure]
          /\ page' = page
       \/ /\ page' = HookFailed(page, page.closure)
          /\ UNCHANGED inflight
    /\ UNCHANGED wraps

(* Its answer goes to the bridge.  A network error or an abort is taken for  *)
(* a failure of the hook.                                                    *)
Settle(i) ==
    /\ inflight[i] # 0
    /\ inflight' = [inflight EXCEPT ![i] = 0]
    /\ page' = page \/ page' = HookFailed(page, inflight[i])
    /\ UNCHANGED wraps

(* An XHR changes nothing of the page, unless open or send throws twice.     *)
XhrThrows ==
    /\ page.xhr.hooks > 0
    /\ page' = EnableSafeMode(page)
    /\ UNCHANGED <<inflight, wraps>>

Next ==
    \/ SetOption \/ Reload \/ PageWraps \/ Watchdog \/ ProbeFires \/ ProbeSettles
    \/ SendFetch \/ XhrThrows
    \/ \E i \in Slots : Settle(i)

(* Timers that are armed fire; nothing else is promised.                     *)
Spec == Init /\ [][Next]_vars /\ WF_vars(Watchdog)

-----------------------------------------------------------------------------
(* Every field has its type, and a timer the page holds is armed.            *)
TypeOK ==
    /\ ModesOf(page) \in Modes /\ page.realm \in Realms
    /\ page.xhr \in Function /\ page.fetch \in Function
    /\ page.xhrBase \in Function \cup {Unset} /\ page.fetchBase \in Function \cup {Unset}
    /\ page.closure \in Closures \cup {0} /\ page.fatal \subseteq Closures
    /\ page.armed \in Nat /\ page.failures \in 0..FailureLimit
    /\ page.handle => page.armed > 0
    /\ inflight \in [Slots -> Closures \cup {0}]

(* A fetch hook calls what is stored under ORIG_FETCH_KEY at that moment: if *)
(* a hook were ever in there, under a wrapper of the page, every fetch of    *)
(* the page would call itself for ever.  (manager.ts:2949, installFetchHooks) *)
FetchReachesNative == page.fetchBase.hooks = 0

(* A fetch or XHR function that the page has replaced is hooked again, or    *)
(* the watchdog has no business any more: safe mode, switched off.           *)
(* (runtime-control-plane.ts:367, repair)                                    *)
Escapes(target, f) ==
    ~page.safe /\ page.repair /\ Enabled(page, target) /\ f.hooks = 0
HookComesBack ==
    /\ Escapes("fetch", page.fetch) ~> ~Escapes("fetch", page.fetch)
    /\ Escapes("xhr", page.xhr) ~> ~Escapes("xhr", page.xhr)

=============================================================================

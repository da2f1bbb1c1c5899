------------------------- MODULE HookRuntimeProofs -------------------------
(* What the two hook classes keep true of a page of any number of requests   *)
(* in flight, wrappers and reloads.  The invariant is one predicate of the   *)
(* page's record, and each operator of HookRuntime that a turn is made of    *)
(* takes a sound page to a sound page; the steps compose these lemmas.       *)
(*                                                                           *)
(* The last three sections are about the other parts of the page that MCPage *)
(* checks with the hooks: the exports of a table, of any rows and as many at *)
(* once as one likes; the viewer of bundles, of any files and writers; and   *)
(* the mirror, of any tweets, users, folders and requests.                   *)
EXTENDS HookRuntime, ResultExport, BundleLibrary, InteractionMirror, FiniteSetTheorems, SequenceTheorems, TLAPS

-----------------------------------------------------------------------------
(* The hooks.                                                                *)

PageType ==
    [safe : BOOLEAN, mode : HookModes, repair : BOOLEAN, realm : Realms,
     xhr : Function, fetch : Function, xhrBase : Function \cup {Unset},
     fetchBase : Function \cup {Unset}, closure : Closures \cup {0},
     fatal : SUBSET Closures, handle : BOOLEAN, armed : Nat, probe : BOOLEAN,
     probing : BOOLEAN, failures : 0..FailureLimit]

(* A timer the page holds is armed.  The stored fetch has no hook; while it  *)
(* is unset no fetch hook was installed, so that what uninstall or the next  *)
(* install takes for the original has none either; and a page with a hook    *)
(* knows its closure.                                                        *)
Sound(p) ==
    /\ p \in PageType
    /\ p.handle => p.armed > 0
    /\ p.fetchBase.hooks = 0
    /\ p.fetchBase = Unset => p.fetch.hooks = 0
    /\ p.fetch.hooks > 0 => p.closure \in Closures

LEMMA UninstallSound ==
  ASSUME NEW p, Sound(p)
  PROVE  Sound(Uninstall(p))
  <1> DEFINE q == Uninstall(p)
  <1>1. q \in PageType
    BY DEF Sound, PageType, Uninstall, Stored
  <1>2. /\ q.handle = p.handle /\ q.armed = p.armed /\ q.fetchBase = p.fetchBase
        /\ q.fetch = Stored(p.fetchBase, p.fetch) /\ q.closure = p.closure
    BY DEF Sound, PageType, Uninstall
  <1> QED
    BY <1>1, <1>2 DEF Sound, Stored, Unset

LEMMA ProbingSound ==
  ASSUME NEW p, Sound(p), NEW x \in BOOLEAN
  PROVE  Sound([p EXCEPT !.probing = x])
  BY DEF Sound, PageType

LEMMA ArmedSound ==
  ASSUME NEW p, Sound(p), NEW h \in BOOLEAN, NEW n \in Nat, h => n > 0
  PROVE  Sound([p EXCEPT !.handle = h, !.armed = n])
  <1> DEFINE q == [p EXCEPT !.handle = h, !.armed = n]
  <1>1. q \in PageType
    BY DEF Sound, PageType
  <1>2. q.handle = h /\ q.armed = n /\ q.fetchBase = p.fetchBase /\ q.fetch = p.fetch /\ q.closure = p.closure
    BY DEF Sound, PageType
  <1> QED
    BY <1>1, <1>2 DEF Sound

LEMMA TimersSound ==
  ASSUME NEW p, Sound(p)
  PROVE  Sound(ClearRepairLoop(p)) /\ Sound(ClearProbe(p)) /\ Sound(Schedule(p))
  <1>1. p.armed \in Nat /\ p.handle \in BOOLEAN /\ (p.handle => p.armed > 0)
    BY DEF Sound, PageType
  <1>2. Sound(ClearRepairLoop(p))
    <2>1. CASE p.handle
      <3>1. p.armed - 1 \in Nat
        BY <1>1, <2>1
      <3> QED
        BY <2>1, <3>1, ArmedSound DEF ClearRepairLoop
    <2>2. CASE ~p.handle
      BY <1>1, <2>2, ArmedSound DEF ClearRepairLoop
    <2> QED
      BY <2>1, <2>2
  <1>3. Sound(ClearProbe(p))
    BY DEF Sound, PageType, ClearProbe
  <1>4. Sound(Schedule(p))
    <2>1. p.armed + 1 \in Nat /\ p.armed + 1 > 0
      BY <1>1
    <2> QED
      BY <2>1, ArmedSound DEF Schedule
  <1> QED
    BY <1>2, <1>3, <1>4

LEMMA LoopsSound ==
  ASSUME NEW p, Sound(p)
  PROVE  Sound(StartRepairLoop(p)) /\ Sound(StartProbe(p))
  <1>1. Sound([p EXCEPT !.probe = TRUE])
    BY DEF Sound, PageType
  <1> QED
    BY <1>1, TimersSound DEF StartRepairLoop, StartProbe

LEMMA SafeModeSound ==
  ASSUME NEW p, Sound(p)
  PROVE  Sound(EnableSafeMode(p))
  <1> DEFINE safe == [ClearProbe(p) EXCEPT !.safe = TRUE]
  <1>1. Sound(safe)
    BY TimersSound DEF Sound, PageType
  <1> QED
    BY <1>1, UninstallSound, TimersSound DEF EnableSafeMode

LEMMA InstallXhrSound ==
  ASSUME NEW p, Sound(p), NEW b
  PROVE  Sound(InstallXhr(p, b))
  <1> DEFINE kept == [p EXCEPT !.xhrBase = Stored(@, p.xhr)]
             base == XhrBase(p)
             hooked == [p EXCEPT !.xhr = HookAround(base), !.xhrBase = base]
  <1>1. Sound(kept)
    BY DEF Sound, PageType, Stored
  <1>2. base \in Function
    BY DEF Sound, PageType, XhrBase, Stored
  <1>3. HookAround(base) \in Function
    BY <1>2 DEF Function, HookAround
  <1>4. Sound(hooked)
    BY <1>2, <1>3 DEF Sound, PageType
  <1>5. InstallXhr(p, b) \in {p, EnableSafeMode(kept), hooked}
    BY DEF InstallXhr
  <1> QED
    BY <1>1, <1>4, <1>5, SafeModeSound

-----------------------------------------------------------------------------
Flying == inflight \in [Slots -> Closures \cup {0}]

(* There is one closure more than slots, so an install finds a number that   *)
(* no request in flight uses.                                                *)
LEMMA ClosureLeft ==
  ASSUME Flying
  PROVE  NextClosure \in Closures
  <1>1. Cardinality(Slots) < Cardinality(Closures) /\ IsFiniteSet(Slots) /\ IsFiniteSet(Closures)
    BY FS_Interval, HookAssumption DEF Slots, Closures, HookAssumption
  <1>2. ASSUME Closures \subseteq InUse
        PROVE  FALSE
    <2> DEFINE holder == [n \in Closures |-> CHOOSE i \in Slots : inflight[i] = n]
    <2>1. \A n \in Closures : holder[n] \in Slots /\ inflight[holder[n]] = n
      BY <1>2 DEF InUse
    <2>2. holder \in [Closures -> Slots]
      BY <2>1
    <2> HIDE DEF holder
    <2>3. PICK m, n \in Closures : m # n /\ holder[m] = holder[n]
      BY <1>1, <2>2, FS_PigeonHole
    <2> QED
      BY <2>1, <2>3
  <1> QED
    BY <1>2 DEF NextClosure

LEMMA InstallFetchSound ==
  ASSUME NEW p, Sound(p), NEW force, NEW b, Flying
  PROVE  Sound(InstallFetch(p, force, b))
  <1> DEFINE failed == [p EXCEPT !.fetchBase = FetchBase(p)]
             hooked == [p EXCEPT !.fetch = HookAround(Plain),
                                 !.fetchBase = FetchBase(p),
                                 !.closure = NextClosure,
                                 !.fatal = (@ \cap InUse) \ {NextClosure}]
  <1>1. FetchBase(p) \in Function /\ FetchBase(p).hooks = 0
    BY DEF Sound, PageType, FetchBase, Stored
  <1>2. FetchBase(p) # Unset /\ HookAround(Plain) \in Function
    BY <1>1 DEF Function, Unset, HookAround, Plain
  <1>3. Sound(failed)
    BY <1>1, <1>2 DEF Sound, PageType
  <1>4. Sound(hooked)
    BY <1>1, <1>2, ClosureLeft DEF Sound, PageType
  <1>5. InstallFetch(p, force, b) \in {p, EnableSafeMode(failed), StartProbe(hooked)}
    BY DEF InstallFetch
  <1> QED
    BY <1>3, <1>4, <1>5, SafeModeSound, LoopsSound

LEMMA InstallSound ==
  ASSUME NEW p, Sound(p), NEW force, NEW b, Flying
  PROVE  Sound(Install(p, force, b))
  BY InstallXhrSound, InstallFetchSound DEF Install

LEMMA InitializeSound ==
  ASSUME NEW m \in Modes, NEW realm \in Realms, NEW b, Flying
  PROVE  Sound(Initialize(Fresh(m, realm), b))
  <1>1. Sound(Fresh(m, realm))
    BY HookAssumption DEF Sound, PageType, Fresh, Modes, Function, Plain, Unset, HookAssumption
  <1> QED
    BY <1>1, InstallSound, LoopsSound DEF Initialize

LEMMA ApplyModesSound ==
  ASSUME NEW p, Sound(p), NEW m \in Modes, NEW b, Flying
  PROVE  Sound(ApplyModes(p, m, b))
  <1> DEFINE changed == [p EXCEPT !.safe = m.safe, !.mode = m.mode, !.repair = m.repair]
             stopped == ClearProbe(ClearRepairLoop(Uninstall(changed)))
             active == Install(changed, TRUE, b)
  <1>1. Sound(changed)
    BY DEF Sound, PageType, Modes
  <1>2. Sound(stopped) /\ Sound(active)
    BY <1>1, UninstallSound, TimersSound, InstallSound
  <1>3. Sound(Install(stopped, TRUE, b))
    BY <1>2, InstallSound
  <1>4. Sound(StartProbe(IF active.repair THEN StartRepairLoop(active) ELSE ClearRepairLoop(active)))
    BY <1>2, LoopsSound, TimersSound
  <1> HIDE DEF changed
  <1>5. ApplyModes(p, m, b) \in
          {p, stopped, Install(stopped, TRUE, b),
           StartProbe(IF active.repair THEN StartRepairLoop(active) ELSE ClearRepairLoop(active))}
    BY DEF ApplyModes, changed
  <1> QED
    BY <1>2, <1>3, <1>4, <1>5

LEMMA FailuresSound ==
  ASSUME NEW p, Sound(p), NEW n \in 0..FailureLimit
  PROVE  Sound([p EXCEPT !.failures = n])
  BY DEF Sound, PageType

LEMMA RepairSound ==
  ASSUME NEW p, Sound(p), NEW b, Flying
  PROVE  Sound(Repaired(p, b)) /\ Sound(RepairFailed(p))
  <1> DEFINE counted == [p EXCEPT !.failures = LeastOf(@ + 1, FailureLimit)]
             reset == [Install(p, TRUE, b) EXCEPT !.failures = 0]
  <1>1. Sound(counted)
    BY HookAssumption DEF Sound, PageType, LeastOf, HookAssumption
  <1>2. Sound(reset)
    <2>1. Sound(Install(p, TRUE, b))
      BY InstallSound
    <2>2. 0 \in 0..FailureLimit
      BY HookAssumption DEF HookAssumption
    <2> QED
      BY <2>1, <2>2, FailuresSound
  <1> QED
    BY <1>1, <1>2, SafeModeSound, TimersSound DEF Repaired, RepairFailed

LEMMA HookFailedSound ==
  ASSUME NEW p, Sound(p), NEW n \in Closures
  PROVE  Sound(HookFailed(p, n))
  <1>1. Sound([p EXCEPT !.fatal = @ \cup {n}])
    BY DEF Sound, PageType
  <1> QED
    BY <1>1, SafeModeSound DEF HookFailed

-----------------------------------------------------------------------------
(* The inductive invariant.                                                  *)
Inv == Sound(page) /\ Flying

(* The constructor and initialize() leave a sound page, for every stored mode. *)
THEOREM InitSound == Init => Inv
  <1> SUFFICES ASSUME Init PROVE Inv
    OBVIOUS
  <1>1. Flying
    BY DEF Init, Flying
  <1>2. StoredModes \subseteq Modes
    BY HookAssumption DEF HookAssumption, Modes, HookModes
  <1>3. PICK m \in StoredModes, realm \in Realms, b \in SUBSET Targets :
           page = Initialize(Fresh(m, realm), b)
    BY DEF Init
  <1> QED
    BY <1>1, <1>2, <1>3, InitializeSound DEF Inv

LEMMA FetchReplaced ==
  ASSUME NEW p, Sound(p), NEW f \in Function,
         p.fetchBase = Unset => f.hooks = 0,
         f.hooks > 0 => p.closure \in Closures
  PROVE  Sound([p EXCEPT !.fetch = f])
  BY DEF Sound, PageType

LEMMA XhrSound ==
  ASSUME NEW p, Sound(p), NEW g \in Function
  PROVE  Sound([p EXCEPT !.xhr = g])
  BY DEF Sound, PageType

(* Every turn of the page keeps it sound.                                    *)
THEOREM StepSound == Inv /\ [Next]_vars => Inv'
  <1> SUFFICES ASSUME Inv, [Next]_vars PROVE Inv'
    OBVIOUS
  <1> USE DEF Inv
  <1>1. ASSUME Sound(page'), Flying' PROVE Inv'
    BY <1>1
  <1>2. CASE UNCHANGED vars
    BY <1>2 DEF vars, Flying, Sound
  <1>3. CASE SetOption
    <2>1. PICK m \in Modes, b \in SUBSET Targets : page' = ApplyModes(page, m, b)
      BY <1>3 DEF SetOption
    <2>2. UNCHANGED inflight
      BY <1>3 DEF SetOption
    <2> QED
      BY <2>1, <2>2, ApplyModesSound DEF Flying
  <1>4. CASE Reload
    <2>1. PICK b \in SUBSET Targets : page' = Initialize(Fresh(ModesOf(page), page.realm), b)
      BY <1>4 DEF Reload
    <2>2. ModesOf(page) \in Modes /\ page.realm \in Realms
      BY DEF ModesOf, Modes, Sound, PageType
    <2>3. Flying'
      BY <1>4 DEF Reload, Flying
    <2> QED
      BY <2>1, <2>2, <2>3, InitializeSound
  <1>5. CASE PageWraps
    <2>1. Flying' /\ Plain \in Function /\ Plain.hooks = 0
      BY <1>5 DEF PageWraps, Flying, Plain, Function
    <2>2. /\ Around(page.fetch) \in Function /\ Around(page.fetch).hooks = page.fetch.hooks
          /\ Around(page.xhr) \in Function
      BY DEF Around, Function, Sound, PageType
    <2>3. /\ page.fetchBase = Unset => page.fetch.hooks = 0
          /\ page.fetch.hooks > 0 => page.closure \in Closures
      BY DEF Sound
    <2>4. \/ page' = [page EXCEPT !.fetch = Around(page.fetch)]
          \/ page' = [page EXCEPT !.xhr = Around(page.xhr)]
          \/ page' = [page EXCEPT !.fetch = Plain]
          \/ page' = [page EXCEPT !.xhr = Plain]
      BY <1>5 DEF PageWraps
    <2>5. ASSUME NEW g \in Function PROVE Sound([page EXCEPT !.xhr = g])
      BY XhrSound
    <2>6. Sound([page EXCEPT !.fetch = Around(page.fetch)])
      BY <2>2, <2>3, FetchReplaced
    <2>7. Sound([page EXCEPT !.fetch = Plain])
      BY <2>1, FetchReplaced
    <2> QED
      BY <2>1, <2>2, <2>4, <2>5, <2>6, <2>7
  <1>6. CASE Watchdog
    <2> DEFINE due == [page EXCEPT !.armed = page.armed - 1, !.handle = FALSE]
    <2>1. Sound(due)
      <3>1. page.armed \in Nat /\ page.armed > 0
        BY <1>6 DEF Watchdog, Sound, PageType
      <3>2. page.armed - 1 \in Nat
        BY <3>1
      <3>3. due \in PageType
        BY <3>2 DEF Sound, PageType
      <3>4. due.handle = FALSE /\ due.fetchBase = page.fetchBase /\ due.fetch = page.fetch
          /\ due.closure = page.closure
        BY DEF Sound, PageType
      <3> QED
        BY <3>3, <3>4 DEF Sound
    <2>2. UNCHANGED inflight
      BY <1>6 DEF Watchdog
    <2>3. \/ page' = due
          \/ \E b \in SUBSET Targets : page' = Repaired(due, b)
          \/ page' = RepairFailed(due)
      BY <1>6 DEF Watchdog
    <2> HIDE DEF due
    <2> QED
      BY <2>1, <2>2, <2>3, RepairSound DEF Flying
  <1>7. CASE ProbeFires
    <2>1. Sound(ClearProbe(page))
      BY TimersSound
    <2>2. PICK x \in BOOLEAN : page' = [ClearProbe(page) EXCEPT !.probing = x]
      BY <1>7 DEF ProbeFires, ClearProbe, Sound, PageType
    <2> QED
      BY <1>7, <2>1, <2>2, ProbingSound DEF ProbeFires, Flying
  <1>8. CASE ProbeSettles
    <2>1. Sound([page EXCEPT !.probing = FALSE])
      BY ProbingSound
    <2> QED
      BY <1>8, <2>1, SafeModeSound DEF ProbeSettles, Flying
  <1>9. CASE SendFetch
    <2>1. page.closure \in Closures
      BY <1>9 DEF SendFetch, Sound, PageType, Function
    <2>2. Flying'
      BY <1>9, <2>1 DEF SendFetch, Flying
    <2> QED
      BY <1>9, <2>1, <2>2, HookFailedSound DEF SendFetch
  <1>10. CASE XhrThrows
    BY <1>10, SafeModeSound DEF XhrThrows, Flying
  <1>11. ASSUME NEW i \in Slots, Settle(i) PROVE Inv'
    <2>1. inflight[i] \in Closures
      BY <1>11 DEF Settle, Flying
    <2>2. Flying'
      BY <1>11 DEF Settle, Flying
    <2> QED
      BY <1>11, <2>1, <2>2, HookFailedSound DEF Settle
  <1> QED
    BY <1>2, <1>3, <1>4, <1>5, <1>6, <1>7, <1>8, <1>9, <1>10, <1>11 DEF Next

-----------------------------------------------------------------------------
(* A page is sound at all times.                                             *)
THEOREM Invariance == Spec => []Inv
  BY InitSound, StepSound, PTL DEF Spec

(* Every state has its type.                                                 *)
THEOREM TypeCorrect == Spec => []TypeOK
  <1>1. Inv => TypeOK
    BY DEF Inv, Sound, PageType, TypeOK, Flying, ModesOf, Modes
  <1> QED
    BY <1>1, Invariance, PTL

(* What the fetch hook calls is never a hook, whatever the page's scripts,   *)
(* the options and the watchdog do (installFetchHooks, manager.ts:2949).     *)
THEOREM FetchSafe == Spec => []FetchReachesNative
  <1>1. Inv => FetchReachesNative
    BY DEF Inv, Sound, FetchReachesNative
  <1> QED
    BY <1>1, Invariance, PTL

-----------------------------------------------------------------------------
(* The exports of a table: what a run has and what it has yet to take make,  *)
(* of the rows at the click, what was wanted then.                           *)
RunType ==
    [kind : {"none", "data", "bundle", "companion"}, todo : SUBSET Rows, skip : SUBSET Rows,
     got : SUBSET Rows, of : SUBSET Rows, want : SUBSET Rows, aborted : BOOLEAN]

ExportTyped ==
    /\ runs \in [Runs -> RunType]
    /\ result \subseteq Rows /\ loaded \subseteq result /\ picked \subseteq Rows
    /\ mode \in {"all", "explicit"}
    /\ modal \in [open : BOOLEAN, scope : {"result_set", "selected"}]

Whole(run) ==
    run.kind # "companion" => (run.got \cup (run.todo \ run.skip)) \cap run.of = run.want

ExportInv ==
    /\ ExportTyped
    /\ \A n \in Runs : Whole(runs[n])
    /\ SavedIsWhole

LEMMA NoRunFacts == NoRun \in RunType /\ Whole(NoRun)
BY DEF NoRun, RunType, Whole

LEMMA NothingSaved ==
    ASSUME file' = NoRun
    PROVE  SavedIsWhole'
BY DEF SavedIsWhole, NoRun

(* A step that leaves every run as it was, or ends it.                       *)
LEMMA RunsEnd ==
    ASSUME ExportInv, UNCHANGED <<table, selection>>, SavedIsWhole',
           modal' \in [open : BOOLEAN, scope : {"result_set", "selected"}],
           runs' = [n \in Runs |-> runs'[n]],
           \A n \in Runs : \/ runs'[n] = runs[n] \/ runs'[n] = NoRun
                           \/ runs'[n] = [runs[n] EXCEPT !.aborted = TRUE]
    PROVE  ExportInv'
<1>1. ASSUME NEW n \in Runs PROVE runs'[n] \in RunType /\ Whole(runs'[n])
  <2>1. runs[n] \in RunType /\ Whole(runs[n])  BY DEF ExportInv, ExportTyped
  <2>2. CASE runs'[n] = [runs[n] EXCEPT !.aborted = TRUE]
    <3>1. [runs[n] EXCEPT !.aborted = TRUE] \in RunType  BY <2>1 DEF RunType
    <3>2. Whole([runs[n] EXCEPT !.aborted = TRUE])  BY <2>1 DEF RunType, Whole
    <3> QED  BY <2>2, <3>1, <3>2
  <2> QED  BY <2>1, <2>2, NoRunFacts
<1>2. runs' \in [Runs -> RunType]  BY <1>1
<1> QED  BY <1>1, <1>2 DEF ExportInv, ExportTyped, table, selection, Whole

LEMMA StartWhole ==
    ASSUME ExportInv, NEW n \in Runs, NEW kind \in {"data", "bundle", "companion"}, Start(n, kind)
    PROVE  ExportInv'
<1> DEFINE run == [kind |-> kind, aborted |-> FALSE, got |-> {}, of |-> result,
                   todo |-> IF kind = "companion" THEN {} ELSE Source,
                   skip |-> IF kind = "companion" THEN {} ELSE Skipped,
                   want |-> IF mode = "all" \/ modal.scope = "selected"
                              THEN {r \in result : Shown(r)} ELSE result]
<1>1. /\ runs' = [runs EXCEPT ![n] = run]
      /\ kind # "companion" => canExport
      /\ file' = NoRun /\ UNCHANGED <<table, selection, modal>>
  BY DEF Start
<1>2. /\ result \subseteq Rows /\ picked \subseteq Rows /\ mode \in {"all", "explicit"}
      /\ modal.scope \in {"result_set", "selected"} /\ runs \in [Runs -> RunType]
  BY DEF ExportInv, ExportTyped
<1>3. Source \subseteq Rows /\ Skipped \subseteq Rows  BY <1>2 DEF Source, Skipped
<1>4. run \in RunType  BY <1>2, <1>3 DEF RunType
<1>5. Whole(run)
  <2> SUFFICES ASSUME kind # "companion"
               PROVE  (Source \ Skipped) \cap result = run.want
    BY DEF Whole
  <2>1. CASE modal.scope = "selected"
    <3>1. mode = "explicit"  BY <1>1, <2>1 DEF canExport
    <3> QED  BY <2>1, <3>1 DEF Source, Skipped, Shown
  <2>2. CASE modal.scope = "result_set" /\ mode = "all"
    BY <2>2 DEF Source, Skipped, Shown
  <2>3. CASE modal.scope = "result_set" /\ mode # "all"
    BY <2>3 DEF Source, Skipped
  <2> QED  BY <1>2, <2>1, <2>2, <2>3
<1> HIDE DEF run
<1>6. /\ runs' \in [Runs -> RunType]
      /\ \A m \in Runs : runs'[m] = run \/ runs'[m] = runs[m]
  BY <1>1, <1>2, <1>4
<1>7. \A m \in Runs : Whole(runs'[m])  BY <1>5, <1>6 DEF ExportInv
<1>8. SavedIsWhole'  BY <1>1, NothingSaved
<1> QED  BY <1>1, <1>6, <1>7, <1>8 DEF ExportInv, ExportTyped, table, selection, Whole

LEMMA ReadWhole ==
    ASSUME ExportInv, NEW n \in Runs, Read(n)
    PROVE  ExportInv'
<1>1. runs[n] \in RunType /\ Whole(runs[n]) /\ runs \in [Runs -> RunType]
  BY DEF ExportInv, ExportTyped
<1>2. PICK r \in runs[n].todo :
        IF r \notin runs[n].skip /\ runs[n].aborted
          THEN ReturnOnAbort(n)
          ELSE /\ runs' = [runs EXCEPT ![n].todo = @ \ {r}, ![n].got = @ \cup ({r} \ runs[n].skip)]
               /\ file' = NoRun /\ UNCHANGED <<loading, ref>>
  BY DEF Read
<1>3. CASE ReturnOnAbort(n)
  <2>1. runs' = [runs EXCEPT ![n] = NoRun] /\ file' = NoRun
    BY <1>3 DEF ReturnOnAbort, SettleExport
  <2>2. \A m \in Runs : runs'[m] = runs[m] \/ runs'[m] = NoRun  BY <1>1, <2>1
  <2>3. runs' = [m \in Runs |-> runs'[m]]  BY <1>1, <2>1
  <2>4. modal' \in [open : BOOLEAN, scope : {"result_set", "selected"}]
        /\ UNCHANGED <<table, selection>>
    BY DEF Read, ExportInv, ExportTyped
  <2> QED  BY <2>1, <2>2, <2>3, <2>4, NothingSaved, RunsEnd
<1>4. CASE /\ runs' = [runs EXCEPT ![n].todo = @ \ {r}, ![n].got = @ \cup ({r} \ runs[n].skip)]
           /\ file' = NoRun
  <2> DEFINE run == [runs[n] EXCEPT !.todo = @ \ {r}, !.got = @ \cup ({r} \ runs[n].skip)]
  <2>1. run \in RunType
    BY <1>1 DEF RunType
  <2>2. /\ run.todo = runs[n].todo \ {r} /\ run.got = runs[n].got \cup ({r} \ runs[n].skip)
        /\ run.kind = runs[n].kind /\ run.skip = runs[n].skip
        /\ run.of = runs[n].of /\ run.want = runs[n].want
    BY <1>1 DEF RunType
  <2>3. Whole(run)
    <3> HIDE DEF run
    <3>1. run.got \cup (run.todo \ run.skip) = runs[n].got \cup (runs[n].todo \ runs[n].skip)
      BY <1>2, <2>2
    <3> QED  BY <1>1, <2>2, <3>1 DEF Whole
  <2>4. runs' = [runs EXCEPT ![n] = run]  BY <1>1, <1>4
  <2> HIDE DEF run
  <2>5. /\ runs' \in [Runs -> RunType]
        /\ \A m \in Runs : runs'[m] = run \/ runs'[m] = runs[m]
    BY <1>1, <2>1, <2>4
  <2>6. \A m \in Runs : Whole(runs'[m])  BY <2>3, <2>5 DEF ExportInv
  <2> QED  BY <1>4, <2>5, <2>6, NothingSaved
           DEF Read, ExportInv, ExportTyped, table, selection, Whole
<1> QED  BY <1>2, <1>3, <1>4

LEMMA EndWhole ==
    ASSUME ExportInv, NEW n \in Runs, End(n) \/ Fail(n)
    PROVE  ExportInv'
<1>1. runs[n] \in RunType /\ Whole(runs[n]) /\ runs \in [Runs -> RunType]
  BY DEF ExportInv, ExportTyped
<1>2. /\ runs' = [runs EXCEPT ![n] = NoRun] /\ UNCHANGED <<table, selection, modal>>
      /\ \/ file' = NoRun
         \/ file' = runs[n] /\ runs[n].todo = {} /\ SavesAtEnd(n)
  BY DEF End, Fail, SettleExport, Save
<1>3. SavedIsWhole'
  <2>1. CASE file' = runs[n] /\ runs[n].todo = {} /\ SavesAtEnd(n)
    <3>1. /\ file'.kind # "companion" => file'.got \cap file'.of = file'.want
          /\ file'.kind # "data" => ~ file'.aborted
      BY <1>1, <2>1 DEF Whole, SavesAtEnd
    <3> QED  BY <3>1 DEF SavedIsWhole
  <2> QED  BY <1>2, <2>1, NothingSaved
<1>4. \A m \in Runs : runs'[m] = runs[m] \/ runs'[m] = NoRun  BY <1>1, <1>2
<1>5. runs' = [m \in Runs |-> runs'[m]]  BY <1>1, <1>2
<1>6. modal' \in [open : BOOLEAN, scope : {"result_set", "selected"}]
  BY <1>2 DEF ExportInv, ExportTyped
<1> QED  BY <1>2, <1>3, <1>4, <1>5, <1>6, RunsEnd

LEMMA SelectionWhole ==
    ASSUME ExportInv, file' = NoRun, UNCHANGED runs,
           result' \subseteq Rows, loaded' \subseteq result', picked' \subseteq Rows,
           mode' \in {"all", "explicit"},
           modal' \in [open : BOOLEAN, scope : {"result_set", "selected"}]
    PROVE  ExportInv'
BY NothingSaved DEF ExportInv, ExportTyped, Whole

LEMMA ExportStep == ExportInv /\ [ExportNext]_exportVars => ExportInv'
<1> SUFFICES ASSUME ExportInv, [ExportNext]_exportVars PROVE ExportInv'  OBVIOUS
<1>1. /\ result \subseteq Rows /\ loaded \subseteq result /\ picked \subseteq Rows
      /\ mode \in {"all", "explicit"} /\ runs \in [Runs -> RunType]
      /\ modal \in [open : BOOLEAN, scope : {"result_set", "selected"}]
  BY DEF ExportInv, ExportTyped
<1> USE DEF table, selection
<1>2. CASE Changes  BY <1>1, <1>2, SelectionWhole DEF Changes
<1>3. CASE \E r \in Rows : toggleResultRowSelected(r)
  BY <1>1, <1>3, SelectionWhole DEF toggleResultRowSelected, Toggled
<1>4. CASE toggleAllResultRowsSelected
  <2>1. /\ picked' = {} /\ mode' \in {"all", "explicit"}
        /\ file' = NoRun /\ UNCHANGED <<table, modal, runs>>
    BY <1>4 DEF toggleAllResultRowsSelected
  <2> QED  BY <1>1, <2>1, SelectionWhole
<1>5. CASE Open \/ Close
  <2>1. modal' \in [open : BOOLEAN, scope : {"result_set", "selected"}]
    <3>1. CASE Open  BY <3>1 DEF Open
    <3>2. CASE Close  BY <3>2 DEF Close, Closed
    <3> QED  BY <1>5, <3>1, <3>2
  <2>2. file' = NoRun /\ UNCHANGED <<table, selection, runs>>
    BY <1>5 DEF Open, Close
  <2> QED  BY <1>1, <2>1, <2>2, SelectionWhole
<1>6. CASE ChooseScope
  <2>1. modal' \in [open : BOOLEAN, scope : {"result_set", "selected"}]
    BY <1>1, <1>6 DEF ChooseScope
  <2> QED  BY <1>1, <1>6, <2>1, SelectionWhole DEF ChooseScope
<1>7. CASE Cancel
  <2>1. PICK s \in {"data", "bundle"} : runs' = Cancelled(s)  BY <1>7 DEF Cancel
  <2>2. runs' = [n \in Runs |-> runs'[n]]  BY <2>1 DEF Cancelled
  <2>3. \A n \in Runs : \/ runs'[n] = runs[n] \/ runs'[n] = NoRun
                        \/ runs'[n] = [runs[n] EXCEPT !.aborted = TRUE]
    BY <2>1 DEF Cancelled
  <2> QED  BY <1>1, <1>7, <2>2, <2>3, NothingSaved, RunsEnd DEF Cancel
<1>8. CASE \E n \in Runs : \/ \E kind \in {"data", "bundle", "companion"} : Start(n, kind)
                           \/ Read(n) \/ End(n) \/ Fail(n)
  BY <1>8, StartWhole, ReadWhole, EndWhole
<1>9. CASE UNCHANGED exportVars
  BY <1>9 DEF exportVars, ExportInv, ExportTyped, Whole, SavedIsWhole
<1> QED  BY <1>2, <1>3, <1>4, <1>5, <1>6, <1>7, <1>8, <1>9 DEF ExportNext

(* Whatever is selected, changed, exported at once and cancelled, a file     *)
(* that is saved has the rows whose boxes were on at the click, and a bundle *)
(* that was cancelled is not saved; for any rows and number of exports.      *)
(* (export-data.tsx:347, shouldSkipResultSetRow; exporter.ts:147)            *)
THEOREM ExportsAreWhole == ExportSpec => []SavedIsWhole
<1>1. ExportInit => ExportInv
  BY NoRunFacts DEF ExportInit, ExportInv, ExportTyped, Closed, SavedIsWhole, NoRun
<1>2. ExportInv => SavedIsWhole  BY DEF ExportInv
<1> QED  BY <1>1, <1>2, ExportStep, PTL DEF ExportSpec

-----------------------------------------------------------------------------
(* The viewer of bundles.  As long as no load is due and no write has still  *)
(* to signal, nothing was written since the last load began, and what is     *)
(* loaded, on its way or shown is of the rows that are stored.               *)
WrittenRows == UNION {f.rows : f \in Files}
WriterType ==
    [at : {"idle", "put", "told", "delete", "deleted", "mark"},
     bundle : Bundles \cup {NoBundle}, rows : {s \in SUBSET WrittenRows : IsFiniteSet(s)}]

LibraryTyped ==
    /\ stored \in [Bundles -> {s \in SUBSET WrittenRows : IsFiniteSet(s)}]
    /\ writer \in [Writers -> WriterType]
    /\ selected \in Bundles \cup {NoBundle}
    /\ stale \in BOOLEAN /\ crossed \in BOOLEAN /\ load.on \in BOOLEAN /\ more.on \in BOOLEAN
    /\ load = [on |-> load.on, bundle |-> load.bundle, total |-> load.total, page |-> load.page]
    /\ more = [on |-> more.on, bundle |-> more.bundle, offset |-> more.offset, page |-> more.page]

Signalled == ~ stale /\ \A w \in Writers : writer[w].at \notin {"told", "deleted"}

RowsOf(b) == Cardinality(stored[b])

ShowsPrefix ==
    \E n \in 0..RowsOf(selected) :
        /\ shown.records = Page(selected, 0, n) /\ shown.offset = n
        /\ shown.hasMore \/ n = RowsOf(selected)

LoadsSelected ==
    load.on => /\ load.bundle = selected /\ ~ more.on
               /\ load.total \subseteq {RowsOf(selected)}
               /\ load.page \subseteq {Page(selected, 0, InitialPage)}

MoreOfSelected ==
    more.on => /\ more.bundle = selected /\ more.offset = shown.offset
               /\ more.page \subseteq {Page(selected, shown.offset, NextPage)}

ViewerSound ==
    IF selected = NoBundle THEN shown = NothingShown /\ ~ load.on /\ ~ more.on
    ELSE LoadsSelected /\ MoreOfSelected /\ (~ load.on => ShowsPrefix)

LibraryInv ==
    /\ LibraryTyped
    /\ Signalled /\ ~ crossed => ViewerSound

(* A page has the rows that are left, up to its limit, in the order of all.  *)
PageLength(b, o, l) == IF o + l < RowsOf(b) THEN l ELSE RowsOf(b) - o

LEMMA PageRows ==
    ASSUME NEW b, RowsOf(b) \in Nat, NEW o \in 0..RowsOf(b), NEW l \in Nat
    PROVE  /\ PageLength(b, o, l) \in 0..l /\ o + PageLength(b, o, l) \in 0..RowsOf(b)
           /\ PageLength(b, o, l) = l \/ o + PageLength(b, o, l) = RowsOf(b)
           /\ Page(b, o, l) = [i \in 1..PageLength(b, o, l) |-> <<b, Newest(b)[o + i]>>]
           /\ Len(Page(b, o, l)) = PageLength(b, o, l)
<1>1. Len(Newest(b)) = RowsOf(b)  BY DEF Newest, RowsOf
<1>2. /\ PageLength(b, o, l) \in 0..l /\ o + PageLength(b, o, l) \in 0..RowsOf(b)
      /\ PageLength(b, o, l) = l \/ o + PageLength(b, o, l) = RowsOf(b)
  BY DEF PageLength
<1>3. Page(b, o, l) = [i \in 1..PageLength(b, o, l) |-> <<b, Newest(b)[o + i]>>]
  <2> DEFINE to == IF o + l < RowsOf(b) THEN o + l ELSE RowsOf(b)
  <2>1. (IF o < to THEN to - o ELSE 0) = PageLength(b, o, l)  BY DEF PageLength
  <2> QED  BY <1>1, <2>1 DEF Page
<1>4. \A n \in Nat : Len([i \in 1..n |-> <<b, Newest(b)[o + i]>>]) = n  OBVIOUS
<1> QED  BY <1>2, <1>3, <1>4

LEMMA PrefixRows ==
    ASSUME NEW b, RowsOf(b) \in Nat, NEW m \in 0..RowsOf(b)
    PROVE  Page(b, 0, m) = [i \in 1..m |-> <<b, Newest(b)[i]>>]
<1>1. m \in Nat /\ 0 \in 0..RowsOf(b)  OBVIOUS
<1>2. PageLength(b, 0, m) = m  BY DEF PageLength
<1>3. Page(b, 0, m) = [i \in 1..PageLength(b, 0, m) |-> <<b, Newest(b)[0 + i]>>]
  BY <1>1, PageRows
<1>4. \A i \in 1..m : 0 + i = i  OBVIOUS
<1> QED  BY <1>2, <1>3, <1>4

(* The first pages of a bundle's rows, one after another, are one page.      *)
LEMMA PagesJoin ==
    ASSUME NEW b, RowsOf(b) \in Nat, NEW o \in 0..RowsOf(b), NEW l \in Nat
    PROVE  Page(b, 0, o) \o Page(b, o, l) = Page(b, 0, o + Len(Page(b, o, l)))
<1> DEFINE Entry(i) == <<b, Newest(b)[i]>>
           entries == {Entry(i) : i \in Nat}
           s == Page(b, 0, o)
           t == Page(b, o, l)
           n == Len(t)
           u == Page(b, 0, o + n)
<1>1. n \in 0..l /\ o + n \in 0..RowsOf(b) /\ t = [i \in 1..n |-> Entry(o + i)]
  <2>1. /\ Len(t) = PageLength(b, o, l) /\ o + PageLength(b, o, l) \in 0..RowsOf(b)
        /\ PageLength(b, o, l) \in 0..l
        /\ t = [i \in 1..PageLength(b, o, l) |-> Entry(o + i)]
    BY PageRows
  <2> QED  BY <2>1
<1>2. s = [i \in 1..o |-> Entry(i)]  BY PrefixRows
<1>3. u = [i \in 1..(o + n) |-> Entry(i)]  BY <1>1, PrefixRows
<1> HIDE DEF s, t, n, u
<1>4. s \in Seq(entries) /\ Len(s) = o /\ \A i \in 1..o : s[i] = Entry(i)
  BY <1>2
<1>5. t \in Seq(entries) /\ Len(t) = n /\ \A i \in 1..n : t[i] = Entry(o + i)
  BY <1>1 DEF n
<1>6. u \in Seq(entries) /\ Len(u) = o + n /\ \A i \in 1..(o + n) : u[i] = Entry(i)
  BY <1>1, <1>3
<1> HIDE DEF Entry, entries
<1>7. /\ s \o t \in Seq(entries) /\ Len(s \o t) = o + n
      /\ \A i \in 1..(o + n) : (s \o t)[i] = IF i <= o THEN s[i] ELSE t[i - o]
  BY <1>4, <1>5, ConcatProperties
<1>8. ASSUME NEW i \in 1..(o + n) PROVE (s \o t)[i] = u[i]
  <2>1. CASE i <= o
    <3>1. i \in 1..o  BY <2>1
    <3> QED  BY <1>4, <1>6, <1>7, <2>1, <3>1
  <2>2. CASE ~ (i <= o)
    <3>1. i - o \in 1..n /\ o + (i - o) = i  BY <1>1, <2>2
    <3> QED  BY <1>5, <1>6, <1>7, <2>2, <3>1
  <2> QED  BY <2>1, <2>2
<1>9. s \o t = u  BY <1>6, <1>7, <1>8, SeqEqual
<1> QED  BY <1>9 DEF s, t, n, u

LEMMA StoredRows ==
    ASSUME LibraryTyped, NEW b \in Bundles
    PROVE  RowsOf(b) \in Nat
BY FS_CardinalityType DEF LibraryTyped, RowsOf

(* Before a signal nothing is promised.                                      *)
LEMMA Unsignalled ==
    ASSUME LibraryTyped', stale' \/ \E w \in Writers : writer'[w].at \in {"told", "deleted"}
    PROVE  LibraryInv'
BY DEF LibraryInv, Signalled

LEMMA WritesBegin ==
    ASSUME LibraryInv, NEW w \in Writers,
           \/ \E f \in Files : Import(w, f) \/ ImportLegacy(w, f.rows)
           \/ \E b \in Bundles : Delete(w, b)
    PROVE  LibraryInv'
<1>1. UNCHANGED <<stored, viewer>> /\ writer[w] = Idle
  BY DEF Import, ImportLegacy, Delete
<1>2. PICK r \in WriterType :
        /\ writer' = [writer EXCEPT ![w] = r] /\ r.at \notin {"told", "deleted"}
  <2>1. CASE \E f \in Files : Import(w, f)
    <3>1. PICK f \in Files : Import(w, f)  BY <2>1
    <3>2. f.rows \in SUBSET WrittenRows /\ IsFiniteSet(f.rows) /\ f.bundle \in Bundles
      BY LibraryAssumption DEF WrittenRows
    <3>3. [at |-> "put", bundle |-> f.bundle, rows |-> f.rows] \in WriterType
      BY <3>2 DEF WriterType
    <3> QED  BY <3>1, <3>3 DEF Import
  <2>2. CASE \E f \in Files : ImportLegacy(w, f.rows)
    <3>1. PICK f \in Files : ImportLegacy(w, f.rows)  BY <2>2
    <3>2. f.rows \in SUBSET WrittenRows /\ IsFiniteSet(f.rows)
      BY LibraryAssumption DEF WrittenRows
    <3>3. PICK b \in Bundles :
            writer' = [writer EXCEPT ![w] = [at |-> "put", bundle |-> b, rows |-> f.rows]]
      BY <3>1 DEF ImportLegacy
    <3>4. [at |-> "put", bundle |-> b, rows |-> f.rows] \in WriterType
      BY <3>2 DEF WriterType
    <3> QED  BY <3>3, <3>4
  <2>3. CASE \E b \in Bundles : Delete(w, b)
    <3>1. PICK b \in Bundles : Delete(w, b)  BY <2>3
    <3>2. Idle \in WriterType  BY FS_EmptySet DEF Idle, WriterType
    <3>3. [Idle EXCEPT !.at = "delete", !.bundle = b] \in WriterType
      BY <3>2 DEF WriterType
    <3>4. [Idle EXCEPT !.at = "delete", !.bundle = b].at = "delete"  BY DEF Idle
    <3> QED  BY <3>1, <3>3, <3>4 DEF Delete
  <2> QED  BY <2>1, <2>2, <2>3
<1>3. LibraryTyped'  BY <1>1, <1>2 DEF LibraryInv, LibraryTyped, viewer
<1>4. Signalled' => Signalled
  BY <1>1, <1>2 DEF Signalled, viewer, LibraryInv, LibraryTyped, Idle
<1>5. ViewerSound' <=> ViewerSound
  BY <1>1 DEF viewer, ViewerSound, LoadsSelected, MoreOfSelected, ShowsPrefix, RowsOf, Page, Newest
<1>6. UNCHANGED crossed  BY <1>1 DEF viewer
<1> QED  BY <1>3, <1>4, <1>5, <1>6 DEF LibraryInv

LEMMA WritesGoOn ==
    ASSUME LibraryInv, NEW w \in Writers, Put(w) \/ Deletes(w) \/ Emit(w) \/ Mark(w)
    PROVE  LibraryInv'
<1>1. /\ writer \in [Writers -> WriterType] /\ writer[w] \in WriterType
      /\ stored \in [Bundles -> {s \in SUBSET WrittenRows : IsFiniteSet(s)}]
      /\ selected \in Bundles \cup {NoBundle} /\ LibraryTyped
  BY DEF LibraryInv, LibraryTyped
<1>2. CASE Put(w) \/ Deletes(w)
  <2>1. \E v \in {"told", "deleted"} : writer' = [writer EXCEPT ![w].at = v]
    BY <1>2 DEF Put, Deletes
  <2>2. writer' \in [Writers -> WriterType] /\ writer'[w].at \in {"told", "deleted"}
    BY <1>1, <2>1 DEF WriterType
  <2>3. stored' \in [Bundles -> {s \in SUBSET WrittenRows : IsFiniteSet(s)}]
    <3>1. CASE Put(w)
      <4>1. \A b \in Bundles : /\ IsFiniteSet(stored[b] \cup writer[w].rows)
                               /\ stored[b] \cup writer[w].rows \in SUBSET WrittenRows
        BY <1>1, FS_Union DEF WriterType
      <4> QED  BY <1>1, <3>1, <4>1 DEF Put
    <3>2. CASE Deletes(w)  BY <1>1, <3>2, FS_EmptySet DEF Deletes
    <3> QED  BY <1>2, <3>1, <3>2
  <2>4. UNCHANGED viewer  BY <1>2 DEF Put, Deletes
  <2>5. LibraryTyped'  BY <1>1, <2>2, <2>3, <2>4 DEF LibraryTyped, viewer
  <2> QED  BY <2>2, <2>5, Unsignalled
<1>3. CASE Emit(w) \/ Mark(w)
  <2>1. stale' = TRUE /\ UNCHANGED <<stored, load, more, crossed>>
    BY <1>3 DEF Emit, Mark, Tells
  <2>2. selected' \in Bundles \cup {NoBundle}
    BY <1>1, <1>3 DEF Emit, Mark, Selects, WriterType
  <2>3. Idle \in WriterType  BY FS_EmptySet DEF Idle, WriterType
  <2>4. [writer[w] EXCEPT !.at = "mark"] \in WriterType  BY <1>1 DEF WriterType
  <2>5. \/ writer' = [writer EXCEPT ![w] = Idle]
        \/ writer' = [writer EXCEPT ![w] = [writer[w] EXCEPT !.at = "mark"]]
    BY <1>3 DEF Emit, Mark
  <2>6. writer' \in [Writers -> WriterType]  BY <1>1, <2>3, <2>4, <2>5
  <2>7. LibraryTyped'  BY <1>1, <2>1, <2>2, <2>6 DEF LibraryTyped
  <2> QED  BY <2>1, <2>7, Unsignalled
<1> QED  BY <1>2, <1>3

(* What the reads of the viewer have in common: the archive is as it was.    *)
LEMMA ViewerTyped ==
    ASSUME LibraryInv, UNCHANGED library, UNCHANGED selected, stale' \in BOOLEAN,
           crossed' \in BOOLEAN, load'.on \in BOOLEAN, more'.on \in BOOLEAN,
           load' = [on |-> load'.on, bundle |-> load'.bundle, total |-> load'.total,
                    page |-> load'.page],
           more' = [on |-> more'.on, bundle |-> more'.bundle, offset |-> more'.offset,
                    page |-> more'.page]
    PROVE  LibraryTyped'
BY DEF LibraryInv, LibraryTyped, library

LEMMA EffectSound == LibraryInv /\ Effect => LibraryInv'
<1> SUFFICES ASSUME LibraryInv, Effect PROVE LibraryInv'  OBVIOUS
<1>1. /\ UNCHANGED <<library, selected, more>> /\ stale' = FALSE
      /\ shown' = NothingShown /\ crossed' = (crossed \/ more.on)
  BY DEF Effect
<1>2. load' = [on |-> selected # NoBundle, total |-> {}, page |-> {},
               bundle |-> IF selected = NoBundle THEN NoBundle ELSE selected]
  BY DEF Effect, NoLoad
<1>3. LibraryTyped'
  <2>1. /\ more = [on |-> more.on, bundle |-> more.bundle, offset |-> more.offset, page |-> more.page]
        /\ crossed \in BOOLEAN /\ more.on \in BOOLEAN
    BY DEF LibraryInv, LibraryTyped
  <2> QED  BY <1>1, <1>2, <2>1, ViewerTyped
<1>4. ASSUME ~ crossed' PROVE ViewerSound'
  <2>1. ~ more'.on  BY <1>1, <1>4
  <2> QED  BY <1>1, <1>2, <2>1 DEF ViewerSound, LoadsSelected, MoreOfSelected
<1> QED  BY <1>3, <1>4 DEF LibraryInv

LEMMA SameRows ==
    ASSUME UNCHANGED library
    PROVE  Signalled' = (~ stale' /\ \A w \in Writers : writer[w].at \notin {"told", "deleted"})
BY DEF library, Signalled

LEMMA SamePages ==
    ASSUME UNCHANGED stored
    PROVE  \A b, o, l : Page(b, o, l)' = Page(b, o, l) /\ RowsOf(b)' = RowsOf(b)
BY DEF Page, Newest, RowsOf

LEMMA ReadSound == LibraryInv /\ (ReadCount \/ ReadPage) => LibraryInv'
<1> SUFFICES ASSUME LibraryInv, ReadCount \/ ReadPage PROVE LibraryInv'  OBVIOUS
<1>1. /\ UNCHANGED <<library, selected, stale, more, shown, crossed>> /\ load.on
      /\ \/ load' = [load EXCEPT !.total = {RowsOf(load.bundle)}]
         \/ load' = [load EXCEPT !.page = {Page(load.bundle, 0, InitialPage)}]
  BY DEF ReadCount, ReadPage, RowsOf
<1>2. /\ load'.on = load.on /\ load'.bundle = load.bundle
      /\ load' = [on |-> load'.on, bundle |-> load'.bundle, total |-> load'.total,
                  page |-> load'.page]
      /\ load'.total = load.total \/ load'.total = {RowsOf(load.bundle)}
      /\ load'.page = load.page \/ load'.page = {Page(load.bundle, 0, InitialPage)}
  <2>1. load = [on |-> load.on, bundle |-> load.bundle, total |-> load.total, page |-> load.page]
    BY DEF LibraryInv, LibraryTyped
  <2> QED  BY <1>1, <2>1
<1>3. LibraryTyped'  BY <1>1, <1>2, ViewerTyped DEF LibraryInv, LibraryTyped
<1>4. ASSUME ViewerSound PROVE ViewerSound'
  <2>1. UNCHANGED stored  BY <1>1 DEF library
  <2>2. selected # NoBundle  BY <1>1, <1>4 DEF ViewerSound
  <2>3. LoadsSelected'
    BY <1>1, <1>2, <1>4, <2>1, <2>2, SamePages DEF ViewerSound, LoadsSelected
  <2>4. MoreOfSelected'
    BY <1>1, <1>2, <1>4, <2>2 DEF ViewerSound, LoadsSelected, MoreOfSelected
  <2> QED  BY <1>1, <1>2, <2>2, <2>3, <2>4 DEF ViewerSound
<1> QED  BY <1>1, <1>3, <1>4, SameRows DEF LibraryInv, Signalled

LEMMA LoadEndsSound == LibraryInv /\ LoadEnds => LibraryInv'
<1> SUFFICES ASSUME LibraryInv, LoadEnds PROVE LibraryInv'  OBVIOUS
<1>1. /\ UNCHANGED <<library, selected, stale, more, crossed>> /\ load.on /\ load' = NoLoad
  BY DEF LoadEnds
<1>2. PICK count \in load.total, first \in load.page :
        shown' = [records |-> first, offset |-> Len(first), total |-> count,
                  hasMore |-> Len(first) < count]
  BY DEF LoadEnds
<1>3. LibraryTyped'  BY <1>1, ViewerTyped DEF LibraryInv, LibraryTyped, NoLoad
<1>4. ASSUME ViewerSound PROVE ViewerSound'
  <2>1. UNCHANGED stored  BY <1>1 DEF library
  <2>2. selected # NoBundle /\ selected \in Bundles /\ LibraryTyped
    BY <1>1, <1>4 DEF ViewerSound, LibraryInv, LibraryTyped
  <2>3. /\ ~ more.on /\ count = RowsOf(selected) /\ first = Page(selected, 0, InitialPage)
    BY <1>1, <1>2, <1>4, <2>2 DEF ViewerSound, LoadsSelected
  <2> DEFINE n == PageLength(selected, 0, InitialPage)
  <2>4. RowsOf(selected) \in Nat /\ InitialPage \in Nat /\ 0 \in 0..RowsOf(selected)
    BY <2>2, StoredRows, LibraryAssumption
  <2>5. Len(first) = n /\ n \in 0..RowsOf(selected) /\ first = Page(selected, 0, n)
    <3>1. /\ n \in 0..InitialPage /\ 0 + n \in 0..RowsOf(selected) /\ Len(first) = n
          /\ first = [i \in 1..n |-> <<selected, Newest(selected)[0 + i]>>]
      BY <2>3, <2>4, PageRows
    <3>2. n \in 0..RowsOf(selected)  BY <3>1
    <3>3. Page(selected, 0, n) = [i \in 1..n |-> <<selected, Newest(selected)[i]>>]
      BY <2>4, <3>2, PrefixRows
    <3>4. \A i \in 1..n : 0 + i = i  OBVIOUS
    <3> QED  BY <3>1, <3>2, <3>3, <3>4
  <2> HIDE DEF n
  <2>6. /\ shown'.records = Page(selected, 0, n) /\ shown'.offset = n
        /\ shown'.hasMore \/ n = RowsOf(selected)
    <3>1. /\ shown'.records = first /\ shown'.offset = Len(first)
          /\ shown'.hasMore = (Len(first) < count)
      BY <1>2
    <3>2. Len(first) < count \/ n = RowsOf(selected)  BY <2>3, <2>4, <2>5
    <3> QED  BY <2>5, <3>1, <3>2
  <2>7. ShowsPrefix'
    BY <1>1, <2>1, <2>5, <2>6, SamePages DEF ShowsPrefix
  <2> QED
    BY <1>1, <2>2, <2>3, <2>7 DEF ViewerSound, LoadsSelected, MoreOfSelected, NoLoad
<1> QED  BY <1>1, <1>3, <1>4, SameRows DEF LibraryInv, Signalled

LEMMA MoreSound == LibraryInv /\ (MoreStarts \/ MoreReads) => LibraryInv'
<1> SUFFICES ASSUME LibraryInv, MoreStarts \/ MoreReads PROVE LibraryInv'  OBVIOUS
<1>1. UNCHANGED <<library, selected, stale, load, shown, crossed>>
  BY DEF MoreStarts, MoreReads
<1>2. \/ /\ MoreStarts
         /\ more' = [on |-> TRUE, bundle |-> selected, offset |-> shown.offset, page |-> {}]
      \/ /\ MoreReads
         /\ more' = [on |-> more.on, bundle |-> more.bundle, offset |-> more.offset,
                     page |-> {Page(more.bundle, more.offset, NextPage)}]
  <2>1. CASE MoreStarts  BY <2>1 DEF MoreStarts, NoMore
  <2>2. CASE MoreReads
    <3>1. more = [on |-> more.on, bundle |-> more.bundle, offset |-> more.offset,
                  page |-> more.page]
      BY DEF LibraryInv, LibraryTyped
    <3>2. more' = [more EXCEPT !.page = {Page(more.bundle, more.offset, NextPage)}]
      BY <2>2 DEF MoreReads
    <3> QED  BY <2>2, <3>1, <3>2
  <2> QED  BY <2>1, <2>2
<1>3. /\ more'.on \in BOOLEAN
      /\ more' = [on |-> more'.on, bundle |-> more'.bundle, offset |-> more'.offset,
                  page |-> more'.page]
  <2>1. more.on \in BOOLEAN  BY DEF LibraryInv, LibraryTyped
  <2>2. \A o, x, y, z : LET m == [on |-> o, bundle |-> x, offset |-> y, page |-> z]
                        IN  m.on = o /\ m.bundle = x /\ m.offset = y /\ m.page = z
    OBVIOUS
  <2>3. CASE more' = [on |-> TRUE, bundle |-> selected, offset |-> shown.offset, page |-> {}]
    BY <2>3
  <2>4. CASE more' = [on |-> more.on, bundle |-> more.bundle, offset |-> more.offset,
                      page |-> {Page(more.bundle, more.offset, NextPage)}]
    BY <2>1, <2>4
  <2> QED  BY <1>2, <2>3, <2>4
<1>4. LibraryTyped'  BY <1>1, <1>3, ViewerTyped DEF LibraryInv, LibraryTyped
<1>5. ASSUME ViewerSound PROVE ViewerSound'
  <2>1. UNCHANGED stored  BY <1>1 DEF library
  <2>2. selected # NoBundle /\ ~ load.on
    <3>1. CASE MoreStarts  BY <3>1 DEF MoreStarts
    <3>2. CASE MoreReads  BY <1>5, <3>2 DEF MoreReads, ViewerSound, LoadsSelected
    <3> QED  BY <1>2, <3>1, <3>2
  <2>3. more'.on => /\ more'.bundle = selected /\ more'.offset = shown.offset
                    /\ more'.page \subseteq {Page(selected, shown.offset, NextPage)}
    BY <1>2, <1>5, <2>2 DEF ViewerSound, MoreOfSelected, MoreReads
  <2>4. MoreOfSelected'
    BY <1>1, <2>1, <2>3, SamePages DEF MoreOfSelected
  <2>5. ShowsPrefix'
    BY <1>1, <1>5, <2>1, <2>2, SamePages DEF ViewerSound, ShowsPrefix
  <2> QED  BY <1>1, <2>2, <2>4, <2>5 DEF ViewerSound, LoadsSelected
<1> QED  BY <1>1, <1>4, <1>5, SameRows DEF LibraryInv, Signalled

LEMMA MoreEndsSound == LibraryInv /\ MoreEnds => LibraryInv'
<1> SUFFICES ASSUME LibraryInv, MoreEnds PROVE LibraryInv'  OBVIOUS
<1>1. /\ UNCHANGED <<library, selected, stale, load, crossed>> /\ more.on /\ more' = NoMore
  BY DEF MoreEnds
<1>2. PICK rest \in more.page :
        LET records == shown.records \o rest
        IN  shown' = [records |-> records, offset |-> shown.offset + Len(rest),
                      total |-> IF shown.total < Len(records) THEN Len(records)
                                ELSE shown.total,
                      hasMore |-> Len(rest) >= NextPage]
  BY DEF MoreEnds
<1>3. LibraryTyped'  BY <1>1, ViewerTyped DEF LibraryInv, LibraryTyped, NoMore
<1>4. ASSUME ViewerSound PROVE ViewerSound'
  <2>1. UNCHANGED stored  BY <1>1 DEF library
  <2>2. /\ selected # NoBundle /\ ~ load.on /\ ShowsPrefix
        /\ rest = Page(selected, shown.offset, NextPage)
    BY <1>1, <1>2, <1>4 DEF ViewerSound, LoadsSelected, MoreOfSelected
  <2>3. selected \in Bundles /\ LibraryTyped  BY <2>2 DEF LibraryInv, LibraryTyped
  <2>4. RowsOf(selected) \in Nat /\ NextPage \in Nat
    BY <2>3, StoredRows, LibraryAssumption
  <2>5. PICK n \in 0..RowsOf(selected) :
          shown.records = Page(selected, 0, n) /\ shown.offset = n
    BY <2>2 DEF ShowsPrefix
  <2> DEFINE m == Len(rest)
  <2>6. /\ m \in 0..NextPage /\ n + m \in 0..RowsOf(selected)
        /\ m = NextPage \/ n + m = RowsOf(selected)
    <3>1. /\ m = PageLength(selected, n, NextPage)
          /\ PageLength(selected, n, NextPage) \in 0..NextPage
          /\ n + PageLength(selected, n, NextPage) \in 0..RowsOf(selected)
          /\ \/ PageLength(selected, n, NextPage) = NextPage
             \/ n + PageLength(selected, n, NextPage) = RowsOf(selected)
      BY <2>2, <2>4, <2>5, PageRows
    <3> QED  BY <3>1
  <2>7. shown.records \o rest = Page(selected, 0, n + m)
    BY <2>2, <2>4, <2>5, PagesJoin
  <2> HIDE DEF m
  <2>8. /\ shown'.records = Page(selected, 0, n + m) /\ shown'.offset = n + m
        /\ shown'.hasMore = (m >= NextPage)
    BY <1>2, <2>5, <2>7 DEF m
  <2>9. shown'.hasMore \/ n + m = RowsOf(selected)
    <3>1. m >= NextPage \/ n + m = RowsOf(selected)  BY <2>4, <2>6
    <3> QED  BY <2>8, <3>1
  <2>10. ShowsPrefix'
    BY <1>1, <2>1, <2>6, <2>8, <2>9, SamePages DEF ShowsPrefix
  <2> QED
    BY <1>1, <2>2, <2>10 DEF ViewerSound, LoadsSelected, MoreOfSelected, NoMore
<1> QED  BY <1>1, <1>3, <1>4, SameRows DEF LibraryInv, Signalled

LEMMA LibraryStep == LibraryInv /\ [LibraryNext]_libraryVars => LibraryInv'
<1> SUFFICES ASSUME LibraryInv, [LibraryNext]_libraryVars PROVE LibraryInv'  OBVIOUS
<1>1. CASE \E w \in Writers : \/ \E f \in Files : Import(w, f) \/ ImportLegacy(w, f.rows)
                              \/ \E b \in Bundles : Delete(w, b)
  BY <1>1, WritesBegin
<1>2. CASE \E w \in Writers : Put(w) \/ Deletes(w) \/ Emit(w) \/ Mark(w)
  BY <1>2, WritesGoOn
<1>3. CASE \E b \in Bundles \cup {NoBundle} : Select(b)
  <2>1. /\ UNCHANGED <<library, load, more, crossed>> /\ stale' = TRUE
        /\ selected' \in Bundles \cup {NoBundle}
    BY <1>3 DEF Select
  <2>2. LibraryTyped'  BY <2>1 DEF LibraryInv, LibraryTyped, library
  <2> QED  BY <2>1, <2>2, Unsignalled
<1>4. CASE UNCHANGED libraryVars
  BY <1>4, SamePages DEF libraryVars, library, viewer, LibraryInv, LibraryTyped, Signalled,
     ViewerSound, LoadsSelected, MoreOfSelected, ShowsPrefix
<1> QED
  BY <1>1, <1>2, <1>3, <1>4, EffectSound, ReadSound, LoadEndsSound, MoreSound, MoreEndsSound
  DEF LibraryNext

LEMMA ViewerShows == LibraryInv => ViewerShowsBundle
<1> SUFFICES ASSUME LibraryInv, Quiet, ~ crossed, selected # NoBundle
             PROVE  /\ shown.records = Page(selected, 0, Len(shown.records))
                    /\ shown.hasMore \/ Len(shown.records) = Cardinality(stored[selected])
  BY DEF ViewerShowsBundle, LibraryInv, Signalled, Quiet, ViewerSound
<1>1. ShowsPrefix /\ selected \in Bundles /\ LibraryTyped
  BY DEF LibraryInv, LibraryTyped, Signalled, Quiet, ViewerSound
<1>2. PICK n \in 0..RowsOf(selected) :
        /\ shown.records = Page(selected, 0, n)
        /\ shown.hasMore \/ n = RowsOf(selected)
  BY <1>1 DEF ShowsPrefix
<1>3. RowsOf(selected) \in Nat  BY <1>1, StoredRows
<1>4. Len(shown.records) = n
  <2>1. shown.records = [i \in 1..n |-> <<selected, Newest(selected)[i]>>]
    BY <1>2, <1>3, PrefixRows
  <2> QED  BY <1>3, <2>1
<1>5. shown.records = Page(selected, 0, Len(shown.records))  BY <1>2, <1>4
<1>6. shown.hasMore \/ Len(shown.records) = Cardinality(stored[selected])
  BY <1>2, <1>4 DEF RowsOf
<1> QED  BY <1>5, <1>6

(* Whatever is imported and deleted, in this tab and in others, and whenever *)
(* it is signalled: when nothing is on its way, the viewer shows the newest  *)
(* rows of the bundle that is selected, and all of them when it says so; for *)
(* any bundles, files, writers and page sizes.  (useBundleRecords)           *)
THEOREM ViewerIsCurrent == LibrarySpec => []ViewerShowsBundle
<1>1. LibraryInit => LibraryInv
  <2> SUFFICES ASSUME LibraryInit PROVE LibraryInv  OBVIOUS
  <2>1. Idle \in WriterType  BY FS_EmptySet DEF Idle, WriterType
  <2>2. LibraryTyped
    BY <2>1, FS_EmptySet DEF LibraryInit, LibraryTyped, NoLoad, NoMore
  <2> QED  BY <2>2 DEF LibraryInit, LibraryInv, ViewerSound, NoLoad, NoMore
<1> QED  BY <1>1, LibraryStep, ViewerShows, PTL DEF LibrarySpec

-----------------------------------------------------------------------------
(* The mirror.  Of each module and target, what was said last is in the      *)
(* queue behind all else about them, or nothing about them is (Awaits): a    *)
(* call that is performed then is the last word, or there is a later one.    *)

MaybeFolders == Folders \cup {None}
MirrorRows ==
    [flags : SUBSET {"bookmarked", "favorited", "following"}, folder : MaybeFolders,
     name : MaybeFolders, kept : BOOLEAN]
Bodies == {"snapshot", "response"}
CallRecords ==
    [does : Bodies \cup {"event", "ids", "remove"},
     module : {"none", "Bookmarks", "Likes", "Following", "TweetIndex"},
     id : Tweets \cup Users \cup {None}, row : MirrorRows, n : Nat]
Words ==
    [n : Nat, state : {"none", "due", "done", "refused"}, adds : BOOLEAN, whole : BOOLEAN,
     folder : MaybeFolders]

(* A call that is no event is about a module and target, brings a folder     *)
(* only for a bookmark, and if it brings a row, brings one.                  *)
IsCall(c) ==
    /\ c \in CallRecords
    /\ c.does # "event" => Pair(c) \in Pairs
    /\ c.does = "event" => c.module = "none"
    /\ c.row.folder # None => c.module = "Bookmarks"
    /\ c.does \in Bodies => c.row.kept
    /\ c.does = "response" => c.module # "TweetIndex"

MirrorTyped ==
    /\ rows \in [Tweets \cup Users -> MirrorRows]
    /\ documents \in [Pairs -> [folder : MaybeFolders, name : MaybeFolders, kept : BOOLEAN]]
    /\ members \subseteq Pairs
    /\ answers \in Nat /\ captures \in Nat

Awaits(queue, word, pair) ==
    LET waiting == {i \in DOMAIN queue : Pair(queue[i]) = pair}
    IN  IF word.state = "due"
        THEN \E i \in waiting :
                /\ Said(queue[i]) = word
                /\ \A j \in waiting : j # i => j < i /\ queue[j].n < word.n
        ELSE waiting = {}

(* Calls are numbered as they come; a tweet is indexed under the number of   *)
(* its response, and what is said of its index comes from earlier responses. *)
Indexes(c) == c.does = "response" /\ c.module # "Following"
Numbered(queue, words, turns) ==
    /\ \A i \in DOMAIN queue : queue[i].n <= turns
    /\ \A pair \in Pairs : words[pair].n <= turns
    /\ \A i, j \in DOMAIN queue :
          i < j /\ Indexes(queue[i]) /\ Indexes(queue[j]) => queue[i].n < queue[j].n
    /\ \A i \in DOMAIN queue :
          Indexes(queue[i]) => words[<<"TweetIndex", queue[i].id>>].n < queue[i].n

Queued(queue, words, turns) ==
    /\ queue \in Seq(CallRecords) /\ \A i \in DOMAIN queue : IsCall(queue[i])
    /\ words \in [Pairs -> Words] /\ turns \in Nat
    /\ \A pair \in Pairs : Awaits(queue, words[pair], pair)
    /\ Numbered(queue, words, turns)

MirrorInv ==
    /\ MirrorTyped
    /\ Queued(calls, last, answers + captures)
    /\ \A id \in Tweets \cup Users : ~rows[id].kept => rows[id].folder = None
    /\ MirrorFollows

(* A call that comes last is the last word, and disturbs no other.           *)
LEMMA AwaitsNewest ==
  ASSUME NEW queue \in Seq(CallRecords), NEW c \in CallRecords, NEW pair, NEW word \in Words,
         Awaits(queue, word, pair), Pair(c) = pair => word.n < c.n
  PROVE  Awaits(Append(queue, c), IF Pair(c) = pair THEN Said(c) ELSE word, pair)
  <1> DEFINE longer == Append(queue, c)
  <1>1. /\ longer \in Seq(CallRecords) /\ Len(longer) = Len(queue) + 1
        /\ DOMAIN longer = 1..Len(longer) /\ DOMAIN queue = 1..Len(queue) /\ Len(queue) \in Nat
        /\ \A i \in 1..Len(queue) : longer[i] = queue[i]
        /\ longer[Len(queue) + 1] = c
    OBVIOUS
  <1>2. \A i \in DOMAIN queue : queue[i] \in CallRecords
    OBVIOUS
  <1>3. CASE Pair(c) = pair
    <2>1. Said(c).state = "due" /\ Said(c).n = c.n
      BY DEF Said
    <2>2. \A j \in DOMAIN queue : Pair(queue[j]) = pair => queue[j].n < c.n
      <3>1. SUFFICES ASSUME NEW j \in DOMAIN queue, Pair(queue[j]) = pair
                     PROVE  queue[j].n < c.n
        OBVIOUS
      <3>2. PICK i \in DOMAIN queue :
               /\ Said(queue[i]) = word
               /\ j # i => j < i /\ queue[j].n < word.n
        BY <3>1 DEF Awaits
      <3>3. queue[i].n = word.n
        BY <3>2 DEF Said
      <3>4. queue[j].n \in Nat /\ word.n \in Nat /\ c.n \in Nat
        BY <1>2 DEF CallRecords, Words
      <3> QED BY <3>2, <3>3, <3>4, <1>3
    <2>3. \A j \in DOMAIN longer : Pair(longer[j]) = pair /\ j # Len(queue) + 1 =>
            j < Len(queue) + 1 /\ longer[j].n < Said(c).n
      BY <1>1, <2>1, <2>2
    <2> QED BY <1>1, <1>3, <2>1, <2>3 DEF Awaits
  <1>4. CASE Pair(c) # pair
    <2>1. \A i \in DOMAIN longer : Pair(longer[i]) = pair <=> i \in DOMAIN queue /\ Pair(queue[i]) = pair
      BY <1>1, <1>4
    <2>2. \A i \in DOMAIN queue : longer[i] = queue[i]
      BY <1>1
    <2>3. {i \in DOMAIN longer : Pair(longer[i]) = pair} = {i \in DOMAIN queue : Pair(queue[i]) = pair}
      BY <2>1, <1>1
    <2> QED BY <1>4, <2>2, <2>3 DEF Awaits
  <1> QED BY <1>3, <1>4

(* When the first call has had its turn, it was the last word, and nothing   *)
(* waits, or the last word still does.                                       *)
LEMMA AwaitsNext ==
  ASSUME NEW queue \in Seq(CallRecords), queue # <<>>, NEW pair, NEW word \in Words,
         Awaits(queue, word, pair), NEW after, after.state # "due"
  PROVE  /\ Pair(Head(queue)) = pair /\ word.n = Head(queue).n =>
               Awaits(Tail(queue), after, pair) /\ Said(Head(queue)) = word
         /\ ~(Pair(Head(queue)) = pair /\ word.n = Head(queue).n) =>
               Awaits(Tail(queue), word, pair) /\ (Pair(Head(queue)) = pair => word.state = "due")
  <1> DEFINE rest == Tail(queue)
  <1>1. /\ rest \in Seq(CallRecords) /\ Len(rest) = Len(queue) - 1 /\ Len(queue) \in Nat \ {0}
        /\ DOMAIN rest = 1..Len(rest) /\ DOMAIN queue = 1..Len(queue)
        /\ \A i \in DOMAIN rest : rest[i] = queue[i + 1]
        /\ Head(queue) = queue[1]
    OBVIOUS
  <1>2. \A i \in DOMAIN queue : queue[i].n \in Nat
    <2>1. \A i \in DOMAIN queue : queue[i] \in CallRecords
      OBVIOUS
    <2> QED BY <2>1 DEF CallRecords
  <1>3. word.n \in Nat
    BY DEF Words
  <1>4. CASE Pair(queue[1]) = pair /\ word.n = queue[1].n
    <2>1. word.state = "due"
      BY <1>1, <1>4 DEF Awaits
    <2>2. PICK i \in DOMAIN queue :
             /\ Pair(queue[i]) = pair /\ Said(queue[i]) = word
             /\ \A j \in DOMAIN queue : Pair(queue[j]) = pair /\ j # i => j < i /\ queue[j].n < word.n
      BY <2>1 DEF Awaits
    <2>3. i = 1
      BY <1>1, <1>2, <1>3, <1>4, <2>2
    <2>4. \A j \in DOMAIN rest : Pair(rest[j]) # pair
      BY <1>1, <2>2, <2>3
    <2> QED BY <1>1, <1>4, <2>2, <2>3, <2>4 DEF Awaits
  <1>5. CASE ~(Pair(queue[1]) = pair /\ word.n = queue[1].n) /\ word.state = "due"
    <2>2. PICK i \in DOMAIN queue :
             /\ Pair(queue[i]) = pair /\ Said(queue[i]) = word
             /\ \A j \in DOMAIN queue : Pair(queue[j]) = pair /\ j # i => j < i /\ queue[j].n < word.n
      BY <1>5 DEF Awaits
    <2>3. i # 1
      BY <1>5, <2>2 DEF Said
    <2>4. i - 1 \in DOMAIN rest /\ rest[i - 1] = queue[i]
      BY <1>1, <2>3
    <2>5. \A j \in DOMAIN rest : Pair(rest[j]) = pair /\ j # i - 1 => j < i - 1 /\ rest[j].n < word.n
      BY <1>1, <2>2
    <2> QED BY <1>1, <1>5, <2>2, <2>4, <2>5 DEF Awaits
  <1>6. CASE word.state # "due"
    <2>1. \A i \in DOMAIN queue : Pair(queue[i]) # pair
      BY <1>6 DEF Awaits
    <2>2. \A i \in DOMAIN rest : Pair(rest[i]) # pair
      BY <2>1, <1>1
    <2> QED BY <1>1, <1>6, <2>1, <2>2 DEF Awaits
  <1> QED BY <1>1, <1>4, <1>5, <1>6

LEMMA SaidType ==
  ASSUME NEW c \in CallRecords
  PROVE  Said(c) \in Words
  BY DEF Said, CallRecords, MirrorRows, Words, Bodies

(* A call that is enqueued under a number above what was said of its target, *)
(* below the responses that wait if it is an index, and above all if it is a *)
(* response.                                                                 *)
LEMMA QueueGrows ==
  ASSUME NEW queue, NEW words, NEW turns, Queued(queue, words, turns),
         NEW c, IsCall(c), NEW turn \in Nat, turns <= turn, c.n <= turn,
         c.does # "event" => words[Pair(c)].n < c.n,
         Indexes(c) => turns < c.n,
         c.module = "TweetIndex" =>
            \A i \in DOMAIN queue : Indexes(queue[i]) => c.n < queue[i].n,
         NEW said, said = IF c.does = "event" THEN words ELSE [words EXCEPT ![Pair(c)] = Said(c)]
  PROVE  Queued(Append(queue, c), said, turn)
  <1> DEFINE longer == Append(queue, c)
  <1>1. queue \in Seq(CallRecords) /\ c \in CallRecords /\ turns \in Nat /\ words \in [Pairs -> Words]
    BY DEF Queued, IsCall
  <1>2. /\ longer \in Seq(CallRecords) /\ Len(longer) = Len(queue) + 1
        /\ DOMAIN longer = 1..Len(longer) /\ DOMAIN queue = 1..Len(queue) /\ Len(queue) \in Nat
        /\ \A i \in DOMAIN queue : longer[i] = queue[i]
        /\ longer[Len(queue) + 1] = c
    BY <1>1
  <1>3. \A i \in DOMAIN longer : i \in DOMAIN queue \/ i = Len(queue) + 1
    BY <1>2
  <1>4. /\ Said(c) \in Words /\ Said(c).n = c.n /\ c.n \in Nat
        /\ \A i \in DOMAIN queue : queue[i].n \in Nat
        /\ \A pair \in Pairs : words[pair].n \in Nat
    <2>1. \A i \in DOMAIN queue : queue[i] \in CallRecords
      BY <1>1
    <2> QED BY <1>1, <2>1, SaidType DEF Said, CallRecords, Words
  <1>5. c.does = "event" => Pair(c) \notin Pairs
    BY DEF IsCall, Pair, Pairs
  <1>6. /\ said \in [Pairs -> Words]
        /\ \A pair \in Pairs : said[pair] = IF Pair(c) = pair THEN Said(c) ELSE words[pair]
    BY <1>1, <1>4, <1>5 DEF IsCall
  <1>7. \A i \in DOMAIN longer : IsCall(longer[i])
    BY <1>2, <1>3 DEF Queued
  <1>8. ASSUME NEW pair \in Pairs PROVE Awaits(longer, said[pair], pair)
    <2>1. Awaits(queue, words[pair], pair) /\ words[pair] \in Words
      BY <1>1 DEF Queued
    <2>2. Pair(c) = pair => words[pair].n < c.n
      BY <1>5
    <2>3. Awaits(longer, IF Pair(c) = pair THEN Said(c) ELSE words[pair], pair)
      BY <1>1, <2>1, <2>2, AwaitsNewest
    <2> QED BY <1>6, <2>3
  <1>9. Numbered(longer, said, turn)
    <2> USE DEF Queued, Numbered
    <2>1. \A i \in DOMAIN longer : longer[i].n <= turn
      BY <1>1, <1>2, <1>3, <1>4
    <2>2. \A pair \in Pairs : said[pair].n <= turn
      BY <1>1, <1>4, <1>6
    <2>3. ASSUME NEW i \in DOMAIN longer, NEW j \in DOMAIN longer,
                 i < j, Indexes(longer[i]), Indexes(longer[j])
          PROVE  longer[i].n < longer[j].n
      <3>1. i \in DOMAIN queue
        BY <1>2, <1>3, <2>3
      <3>2. CASE j \in DOMAIN queue
        BY <1>2, <2>3, <3>1, <3>2
      <3>3. CASE j = Len(queue) + 1
        <4>1. longer[j] = c /\ longer[i] = queue[i] /\ queue[i].n <= turns /\ turns < c.n
          BY <1>2, <2>3, <3>1, <3>3
        <4> QED BY <1>1, <1>4, <3>1, <4>1
      <3> QED BY <1>3, <3>2, <3>3
    <2>4. ASSUME NEW i \in DOMAIN longer, Indexes(longer[i])
          PROVE  said[<<"TweetIndex", longer[i].id>>].n < longer[i].n
      <3>1. <<"TweetIndex", longer[i].id>> \in Pairs /\ longer[i].module # "TweetIndex"
        BY <1>7, <2>4 DEF IsCall, Indexes, Pair, Pairs
      <3>2. CASE i \in DOMAIN queue
        <4>1. words[<<"TweetIndex", queue[i].id>>].n < queue[i].n
          BY <1>2, <2>4, <3>2
        <4>2. Pair(c) = <<"TweetIndex", queue[i].id>> => c.n < queue[i].n
          BY <1>2, <2>4, <3>2 DEF Pair
        <4> QED BY <1>2, <1>4, <1>6, <3>1, <3>2, <4>1, <4>2
      <3>3. CASE i = Len(queue) + 1
        <4>1. Pair(c) # <<"TweetIndex", c.id>>
          BY <1>2, <3>1, <3>3 DEF Pair
        <4>2. words[<<"TweetIndex", c.id>>].n <= turns /\ turns < c.n
          BY <1>2, <2>4, <3>1, <3>3
        <4> QED BY <1>1, <1>2, <1>4, <1>6, <3>1, <3>3, <4>1, <4>2
      <3> QED BY <1>3, <3>2, <3>3
    <2> QED BY <2>1, <2>2, <2>3, <2>4
  <1> QED BY <1>2, <1>6, <1>7, <1>8, <1>9 DEF Queued

(* The first call has had its turn.                                          *)
Ended(words, c, end) ==
    IF Pair(c) \in Pairs /\ words[Pair(c)].n = c.n
    THEN [words EXCEPT ![Pair(c)].state = end] ELSE words

Over(c, end) == [Said(c) EXCEPT !.state = end]

LEMMA QueueShrinks ==
  ASSUME NEW queue, NEW words, NEW turns, Queued(queue, words, turns), queue # <<>>,
         NEW end \in {"done", "refused"}, NEW said, said = Ended(words, Head(queue), end)
  PROVE  /\ Queued(Tail(queue), said, turns)
         /\ \A pair \in Pairs :
              /\ said[pair].n = words[pair].n
              /\ pair # Pair(Head(queue)) => said[pair] = words[pair]
              /\ pair = Pair(Head(queue)) => \/ said[pair].state = "due"
                                            \/ said[pair] = Over(Head(queue), end)
         /\ Indexes(Head(queue)) =>
              \A i \in DOMAIN Tail(queue) : Indexes(Tail(queue)[i]) => Head(queue).n < Tail(queue)[i].n
  <1> DEFINE rest == Tail(queue)
  <1> DEFINE c == Head(queue)
  <1>1. /\ queue \in Seq(CallRecords) /\ turns \in Nat /\ words \in [Pairs -> Words]
        /\ \A pair \in Pairs : words[pair] \in Words
    BY DEF Queued
  <1>2. /\ rest \in Seq(CallRecords) /\ Len(rest) = Len(queue) - 1 /\ Len(queue) \in Nat \ {0}
        /\ DOMAIN rest = 1..Len(rest) /\ DOMAIN queue = 1..Len(queue)
        /\ \A i \in DOMAIN rest : rest[i] = queue[i + 1] /\ i + 1 \in DOMAIN queue
        /\ c = queue[1] /\ 1 \in DOMAIN queue
    BY <1>1
  <1>3. ASSUME NEW pair \in Pairs
        PROVE  /\ said[pair] \in Words /\ said[pair].n = words[pair].n
               /\ said[pair] = IF Pair(c) = pair /\ words[pair].n = c.n
                               THEN [words[pair] EXCEPT !.state = end] ELSE words[pair]
    BY <1>1, <1>3 DEF Ended, Words
  <1>4. said \in [Pairs -> Words]
    BY <1>1 DEF Ended, Words
  <1>5. ASSUME NEW pair \in Pairs
        PROVE  /\ Awaits(rest, said[pair], pair)
               /\ pair # Pair(c) => said[pair] = words[pair]
               /\ pair = Pair(c) => said[pair].state = "due" \/ said[pair] = Over(c, end)
    <2> DEFINE word == words[pair]
    <2> DEFINE after == [word EXCEPT !.state = end]
    <2>1. Awaits(queue, word, pair) /\ word \in Words
      BY <1>1 DEF Queued
    <2>2. /\ Pair(c) = pair /\ word.n = c.n =>
               Awaits(rest, after, pair) /\ Said(c) = word
          /\ ~(Pair(c) = pair /\ word.n = c.n) =>
               Awaits(rest, word, pair) /\ (Pair(c) = pair => word.state = "due")
      <3>1. after.state # "due"
        BY <2>1 DEF Words
      <3> HIDE DEF word, after
      <3> QED BY <1>1, <2>1, <3>1, AwaitsNext
    <2> QED BY <1>3, <2>2 DEF Over
  <1>6. \A i \in DOMAIN rest : IsCall(rest[i])
    BY <1>2 DEF Queued
  <1>7. Numbered(rest, said, turns)
    <2>1. \A i \in DOMAIN rest : rest[i].n <= turns
      BY <1>2 DEF Queued, Numbered
    <2>2. \A pair \in Pairs : said[pair].n <= turns
      BY <1>3 DEF Queued, Numbered
    <2>3. ASSUME NEW i \in DOMAIN rest, NEW j \in DOMAIN rest,
                 i < j, Indexes(rest[i]), Indexes(rest[j])
          PROVE  rest[i].n < rest[j].n
      <3>1. i + 1 < j + 1
        BY <1>2, <2>3
      <3> QED BY <1>2, <2>3, <3>1 DEF Queued, Numbered
    <2>4. ASSUME NEW i \in DOMAIN rest, Indexes(rest[i])
          PROVE  said[<<"TweetIndex", rest[i].id>>].n < rest[i].n
      <3>1. <<"TweetIndex", rest[i].id>> \in Pairs
        BY <1>6, <2>4 DEF IsCall, Indexes, Pair, Pairs
      <3>2. words[<<"TweetIndex", rest[i].id>>].n < rest[i].n
        BY <1>2, <2>4 DEF Queued, Numbered
      <3> QED BY <1>3, <3>1, <3>2
    <2> QED BY <2>1, <2>2, <2>3, <2>4 DEF Numbered
  <1>8. ASSUME Indexes(c), NEW i \in DOMAIN rest, Indexes(rest[i])
        PROVE  c.n < rest[i].n
    <2>1. 1 < i + 1
      BY <1>2
    <2> QED BY <1>2, <1>8, <2>1 DEF Queued, Numbered
  <1> QED BY <1>1, <1>2, <1>3, <1>4, <1>5, <1>6, <1>7, <1>8 DEF Queued

LEMMA RowOfType ==
  ASSUME NEW flags \in SUBSET {"bookmarked", "favorited", "following"}, NEW folder \in MaybeFolders
  PROVE  /\ Row(flags, folder) \in MirrorRows
         /\ Row(flags, folder).folder = folder /\ Row(flags, folder).kept
         /\ Row(flags, folder).flags = flags
  BY DEF Row, MirrorRows, MaybeFolders

LEMMA MirrorCallFacts ==
  ASSUME NEW request \in Requests, Module(Kind(request.operation)) # "none",
         Target(request) # None, answers \in Nat, captures \in Nat
  PROVE  LET c == MirrorCall(request)
         IN  /\ IsCall(c) /\ c.n = Turn
             /\ c.does \in {"snapshot", "ids", "remove"} /\ c.module # "TweetIndex"
  <1> DEFINE kind == Kind(request.operation)
  <1> DEFINE c == MirrorCall(request)
  <1>1. /\ request.tweet \in Tweets \cup {None} /\ request.user \in Users \cup {None}
        /\ request.folder \in MaybeFolders
    BY MirrorAssumption DEF MaybeFolders
  <1>2. Module(kind) \in {"Bookmarks", "Likes", "Following"}
    BY DEF Module
  <1>3. Target(request) \in IF Module(kind) = "Following" THEN Users ELSE Tweets
    BY <1>1 DEF Target
  <1>4. FolderOf(request) \in MaybeFolders
    BY <1>1 DEF FolderOf, MaybeFolders
  <1>5. /\ Snapshot(request) \in MirrorRows /\ Snapshot(request).folder = FolderOf(request)
        /\ Snapshot(request).kept
    BY <1>4, RowOfType DEF Snapshot
  <1>6. FolderOf(request) # None => Module(kind) = "Bookmarks"
    BY DEF FolderOf, Module
  <1>7. /\ c.does \in {"snapshot", "ids", "remove"} /\ c.module = Module(kind)
        /\ c.id = Target(request) /\ c.row = Snapshot(request) /\ c.n = Turn
        /\ c = Call(c.does, Module(kind), Target(request), Snapshot(request), Turn)
    BY DEF MirrorCall, Call
  <1>8. Turn \in Nat
    BY DEF Turn
  <1>9. c \in CallRecords
    BY <1>2, <1>3, <1>5, <1>7, <1>8 DEF Call, CallRecords, Bodies
  <1>10. Pair(c) \in Pairs
    BY <1>2, <1>3, <1>7 DEF Pair, Pairs
  <1> HIDE DEF c
  <1> QED BY <1>2, <1>5, <1>6, <1>7, <1>9, <1>10 DEF IsCall, Bodies, c

LEMMA EventFacts ==
  ASSUME answers \in Nat, captures \in Nat
  PROVE  LET c == Call("event", "none", None, NoRow, Turn)
         IN  IsCall(c) /\ c.n = Turn /\ c.does = "event" /\ c.module = "none"
  BY DEF Call, NoRow, Turn, IsCall, CallRecords, MirrorRows, MaybeFolders, Bodies, Pair

(* What is due is not followed yet: all that is said anew is due.            *)
LEMMA DueFollows ==
  ASSUME MirrorFollows, NEW said, UNCHANGED tables, last' = said,
         \A pair \in Pairs : said[pair] = last[pair] \/ said[pair].state # "done"
  PROVE  MirrorFollows'
  BY DEF MirrorFollows, tables

LEMMA AnswerKeeps ==
  ASSUME MirrorInv, NEW request \in Requests, Answer(request)
  PROVE  MirrorInv'
  <1> DEFINE event == Call("event", "none", None, NoRow, Turn)
  <1> DEFINE mirrored == MirrorCalls(request)
  <1> DEFINE c == MirrorCall(request)
  <1>1. /\ answers \in Nat /\ captures \in Nat /\ answers' = answers + 1 /\ captures' = captures
        /\ Turn = answers + captures + 1 /\ Queued(calls, last, answers + captures)
        /\ last \in [Pairs -> Words]
    BY DEF MirrorInv, MirrorTyped, Answer, Turn, Queued
  <1>2. \A pair \in Pairs : last[pair].n < Turn /\ last[pair].n \in Nat
    <2>1. \A pair \in Pairs : last[pair] \in Words
      BY <1>1
    <2> QED BY <1>1, <2>1 DEF Queued, Numbered, Words
  <1>3. IsCall(event) /\ event.n = Turn /\ event.does = "event" /\ event.module = "none"
    BY <1>1, EventFacts
  <1>4. Queued(Append(calls, event), last, Turn)
    <2> HIDE DEF event
    <2>1. ~Indexes(event)
      BY <1>3 DEF Indexes
    <2>2. /\ Turn \in Nat /\ answers + captures <= Turn /\ event.n <= Turn
          /\ event.module # "TweetIndex"
      BY <1>1, <1>3
    <2>3. last = IF event.does = "event" THEN last ELSE [last EXCEPT ![Pair(event)] = Said(event)]
      BY <1>3
    <2> QED BY <1>1, <1>3, <2>1, <2>2, <2>3, QueueGrows
  <1>5. CASE mirrored = <<>>
    <2>1. calls' = Append(calls, event) /\ last' = last
      BY <1>1, <1>3, <1>5 DEF Answer, Enqueued, Noted, Queued, IsCall
    <2>2. Queued(calls', last', answers' + captures')
      BY <1>1, <1>4, <2>1
    <2>3. MirrorFollows'
      BY <2>1, DueFollows DEF MirrorInv, Answer
    <2> QED BY <1>1, <2>2, <2>3 DEF MirrorInv, MirrorTyped, Answer, tables
  <1>6. CASE mirrored = <<c>> /\ Module(Kind(request.operation)) # "none" /\ Target(request) # None
    <2>1. /\ IsCall(c) /\ c.n = Turn /\ c.module # "TweetIndex"
          /\ c.does \in {"snapshot", "ids", "remove"}
      BY <1>1, <1>6, MirrorCallFacts
    <2>2. /\ calls' = Append(Append(calls, event), c)
          /\ last' = [last EXCEPT ![Pair(c)] = Said(c)]
      <3>1. calls' = calls \o (<<event>> \o <<c>>) /\ last' = Noted(last, <<c>>)
        BY <1>6 DEF Answer, Enqueued
      <3>2. calls \in Seq(CallRecords) /\ event \in CallRecords /\ c \in CallRecords
        BY <1>1, <1>3, <2>1 DEF Queued, IsCall
      <3> HIDE DEF c, event
      <3>3. calls \o (<<event>> \o <<c>>) = Append(Append(calls, event), c)
        BY <3>2
      <3> QED BY <3>1, <3>3 DEF Noted
    <2>3. Pair(c) \in Pairs /\ c.does # "event" /\ ~Indexes(c)
      BY <2>1 DEF IsCall, Indexes
    <2>4. Queued(Append(Append(calls, event), c), [last EXCEPT ![Pair(c)] = Said(c)], Turn)
      <3> HIDE DEF c, event
      <3>1. Turn \in Nat /\ Turn <= Turn /\ c.n <= Turn
        BY <1>1, <2>1
      <3> QED BY <1>2, <1>4, <2>1, <2>3, <3>1, QueueGrows
    <2>5. Queued(calls', last', answers' + captures')
      BY <1>1, <2>2, <2>4
    <2>6. MirrorFollows'
      <3>1. \A pair \in Pairs : last'[pair] = last[pair] \/ last'[pair].state # "done"
        BY <1>1, <2>2, <2>3 DEF Said
      <3> QED BY <3>1, DueFollows DEF MirrorInv, Answer
    <2> QED BY <1>1, <2>5, <2>6 DEF MirrorInv, MirrorTyped, Answer, tables
  <1> QED BY <1>5, <1>6 DEF MirrorCalls

LEMMA CapturedKeeps ==
  ASSUME MirrorInv, NEW pair \in Pairs, NEW folder \in Folders \cup {None}, Captured(pair, folder)
  PROVE  MirrorInv'
  <1> DEFINE c == Call("response", pair[1], pair[2], Row({Flag(pair[1])}, folder), Turn)
  <1>1. /\ answers \in Nat /\ captures \in Nat /\ answers' = answers /\ captures' = captures + 1
        /\ Turn = answers + captures + 1 /\ Queued(calls, last, answers + captures)
        /\ last \in [Pairs -> Words]
    BY DEF MirrorInv, MirrorTyped, Captured, Turn, Queued
  <1>2. last[pair].n < Turn /\ last[pair].n \in Nat
    BY <1>1 DEF Queued, Numbered, Words
  <1>3. /\ IsCall(c) /\ c.n = Turn /\ c.does = "response" /\ c.module # "TweetIndex" /\ Pair(c) = pair
    <2>1. /\ pair[1] \in {"Bookmarks", "Likes", "Following"} /\ pair[2] \in Tweets \cup Users
          /\ pair = <<pair[1], pair[2]>> /\ (folder # None => pair[1] = "Bookmarks")
      BY DEF Pairs, Captured
    <2>2. {Flag(pair[1])} \in SUBSET {"bookmarked", "favorited", "following"} /\ folder \in MaybeFolders
      BY DEF Flag, MaybeFolders
    <2> DEFINE row == Row({Flag(pair[1])}, folder)
    <2>3. row \in MirrorRows /\ row.folder = folder /\ row.kept
      BY <2>2, RowOfType
    <2> HIDE DEF row
    <2>4. Turn \in Nat
      BY <1>1
    <2>5. /\ c.n = Turn /\ c.does = "response" /\ c.module = pair[1] /\ c.row = row
          /\ c \in CallRecords /\ Pair(c) = pair
      BY <2>1, <2>3, <2>4 DEF Call, CallRecords, Bodies, Pair, row
    <2> HIDE DEF c
    <2> QED BY <2>1, <2>3, <2>5 DEF IsCall
  <1>4. calls' = Append(calls, c) /\ last' = [last EXCEPT ![Pair(c)] = Said(c)]
    <2>1. calls' = calls \o <<c>> /\ last' = Noted(last, <<c>>)
      BY DEF Captured, Enqueued
    <2>2. calls \in Seq(CallRecords) /\ c \in CallRecords
      BY <1>1, <1>3 DEF Queued, IsCall
    <2> HIDE DEF c
    <2> QED BY <2>1, <2>2 DEF Noted
  <1>5. Queued(calls', last', answers' + captures')
    <2> HIDE DEF c
    <2>1. /\ Turn \in Nat /\ answers + captures <= Turn /\ c.n <= Turn /\ answers + captures < c.n
          /\ Turn = answers' + captures'
      BY <1>1, <1>3
    <2>2. Queued(Append(calls, c), [last EXCEPT ![Pair(c)] = Said(c)], Turn)
      BY <1>1, <1>2, <1>3, <2>1, QueueGrows
    <2> QED BY <1>4, <2>1, <2>2
  <1>6. MirrorFollows'
    <2>1. \A other \in Pairs : last'[other] = last[other] \/ last'[other].state # "done"
      BY <1>1, <1>3, <1>4 DEF Said
    <2> QED BY <2>1, DueFollows DEF MirrorInv, Captured
  <1> QED BY <1>1, <1>5, <1>6 DEF MirrorInv, MirrorTyped, Captured, tables

(* The call that has its turn does what was said last of its target, or the  *)
(* last word is still due; and it changes no folder of another's bookmark.   *)
LEMMA TurnFollows ==
  ASSUME MirrorTyped, MirrorFollows,
         \A id \in Tweets \cup Users : ~rows[id].kept => rows[id].folder = None,
         NEW c, IsCall(c), AddRows(c) \/ AddIds(c) \/ RemoveIds(c),
         \A pair \in Pairs :
            /\ pair # Pair(c) => last'[pair] = last[pair] \/ last'[pair].state # "done"
            /\ pair = Pair(c) => \/ last'[pair].state # "done"
                                \/ last'[pair] = Over(c, "done")
  PROVE  /\ MirrorFollows'
         /\ rows' \in [Tweets \cup Users -> MirrorRows]
         /\ documents' \in [Pairs -> [folder : MaybeFolders, name : MaybeFolders, kept : BOOLEAN]]
         /\ members' \subseteq Pairs
         /\ \A id \in Tweets \cup Users : ~rows'[id].kept => rows'[id].folder = None
  <1> DEFINE key == Pair(c)
  <1> DEFINE Ids == Tweets \cup Users
  <1> DEFINE Documents == [folder : MaybeFolders, name : MaybeFolders, kept : BOOLEAN]
  <1>1. /\ c \in CallRecords /\ key \in Pairs /\ key = <<c.module, c.id>> /\ c.id \in Ids
        /\ c.row \in MirrorRows /\ (c.row.folder # None => c.module = "Bookmarks")
        /\ (c.does \in Bodies => c.row.kept)
        /\ c.module \in {"Bookmarks", "Likes", "Following", "TweetIndex"}
    <2>1. c.does # "event"
      BY DEF AddRows, AddIds, RemoveIds
    <2> QED BY <2>1 DEF IsCall, Pair, Pairs, CallRecords
  <1>2. \A id \in Ids : rows[id] \in MirrorRows
    BY DEF MirrorTyped
  <1>3. /\ rows \in [Ids -> MirrorRows] /\ documents \in [Pairs -> Documents] /\ members \subseteq Pairs
    BY DEF MirrorTyped
  <1>4. \A row \in MirrorRows : Document(row) \in Documents /\ Document(row).folder = row.folder
                               /\ Document(row).kept = row.kept
    BY DEF MirrorRows, Document
  <1>5. NoDocument \in Documents /\ ~NoDocument.kept
    BY DEF NoDocument, NoRow, Document, MaybeFolders
  <1>6. \A row \in MirrorRows :
          /\ Patched(row, c) \in MirrorRows
          /\ c.module # "Bookmarks" => Patched(row, c).folder = row.folder
          /\ Patched(row, c).kept = row.kept \/ Patched(row, c).kept
          /\ c.module = "Bookmarks" /\ c.does = "remove" => Patched(row, c).folder = None
    <2>1. TAKE row \in MirrorRows
    <2> DEFINE flag == {Flag(c.module)}
    <2>2. /\ flag \in SUBSET {"bookmarked", "favorited", "following"} /\ None \in MaybeFolders
          /\ row.flags \in SUBSET {"bookmarked", "favorited", "following"}
          /\ c.row.folder \in MaybeFolders
      BY <1>1 DEF Flag, MaybeFolders, MirrorRows
    <2>3. row.flags \ flag \in SUBSET {"bookmarked", "favorited", "following"}
          /\ row.flags \cup flag \in SUBSET {"bookmarked", "favorited", "following"}
      BY <2>2
    <2> HIDE DEF flag
    <2>4. /\ [row EXCEPT !.flags = @ \ flag] \in MirrorRows /\ [row EXCEPT !.flags = @ \cup flag] \in MirrorRows
          /\ [row EXCEPT !.flags = @ \ flag].folder = row.folder
          /\ [row EXCEPT !.flags = @ \cup flag].folder = row.folder
          /\ [row EXCEPT !.flags = @ \ flag].kept = row.kept
          /\ [row EXCEPT !.flags = @ \cup flag].kept = row.kept
      BY <2>3 DEF MirrorRows
    <2>5. /\ Row(row.flags \ flag, None) \in MirrorRows /\ Row(row.flags \ flag, None).folder = None
          /\ Row(row.flags \ flag, None).kept
          /\ Row(row.flags \cup flag, c.row.folder) \in MirrorRows
          /\ Row(row.flags \cup flag, c.row.folder).kept
      BY <2>2, <2>3, RowOfType
    <2> QED BY <1>1, <2>4, <2>5 DEF Patched, flag
  <1>7. CASE AddRows(c)
    <2> DEFINE row == Merged(rows[c.id], c.row)
    <2>1. /\ row \in MirrorRows /\ row.kept
          /\ c.row.folder # None => row.folder = c.row.folder
          /\ c.row.folder = None => row.folder = rows[c.id].folder
      <3>1. c.row.kept
        BY <1>1, <1>7 DEF AddRows, Bodies
      <3> QED BY <1>1, <1>2, <3>1 DEF Merged, MirrorRows, FirstOf
    <2> HIDE DEF row
    <2>2. /\ rows' = [rows EXCEPT ![c.id] = row] /\ members' = members \cup {key}
          /\ documents' = [documents EXCEPT ![key] = Document(rows'[c.id])]
          /\ c.does \in Bodies
      BY <1>7 DEF AddRows, row, Bodies
    <2>3. /\ rows'[c.id] = row /\ documents'[key] = Document(row)
          /\ \A id \in Ids : id # c.id => rows'[id] = rows[id]
          /\ \A pair \in Pairs : pair # key => documents'[pair] = documents[pair]
          /\ key \in members' /\ \A pair \in Pairs : pair # key => (pair \in members' <=> pair \in members)
      BY <1>1, <1>3, <2>2
    <2>4. /\ rows' \in [Ids -> MirrorRows] /\ documents' \in [Pairs -> Documents] /\ members' \subseteq Pairs
      BY <1>1, <1>3, <1>4, <2>1, <2>2, <2>3
    <2>5. \A id \in Ids : ~rows'[id].kept => rows'[id].folder = None
      BY <2>1, <2>3
    <2>6. ASSUME NEW pair \in Pairs, last'[pair].state = "done"
          PROVE  /\ pair \in members' <=> last'[pair].adds
                 /\ last'[pair].whole => documents'[pair].kept
                 /\ last'[pair].whole /\ last'[pair].folder # None =>
                       documents'[pair].folder = last'[pair].folder
                 /\ pair[1] = "Bookmarks" /\ ~last'[pair].adds => rows'[pair[2]].folder = None
      <3>1. CASE pair = key
        <4>1. last'[pair].adds /\ last'[pair].folder = c.row.folder
          BY <2>2, <2>6, <3>1 DEF Over, Said, Bodies
        <4> QED BY <1>4, <2>1, <2>3, <3>1, <4>1
      <3>2. CASE pair # key
        <4>1. last'[pair] = last[pair]
          BY <2>6, <3>2
        <4>2. pair[1] = "Bookmarks" => rows'[pair[2]].folder = rows[pair[2]].folder
          <5>1. SUFFICES ASSUME pair[1] = "Bookmarks", pair[2] = c.id
                         PROVE  rows'[pair[2]].folder = rows[pair[2]].folder
            BY <2>3 DEF Pairs
          <5>2. c.module # "Bookmarks"
            BY <1>1, <3>2, <5>1 DEF Pairs
          <5> QED BY <1>1, <2>1, <2>3, <5>1, <5>2
        <4> QED BY <2>3, <2>6, <3>2, <4>1, <4>2 DEF MirrorFollows
      <3> QED BY <3>1, <3>2
    <2>7. \A pair \in Pairs : documents'[pair].kept => pair \in members'
      BY <2>3 DEF MirrorFollows
    <2> QED BY <2>4, <2>5, <2>6, <2>7 DEF MirrorFollows
  <1>8. CASE AddIds(c) \/ RemoveIds(c)
    <2> DEFINE row == IF rows[c.id].kept THEN Patched(rows[c.id], c) ELSE rows[c.id]
    <2>1. /\ row \in MirrorRows /\ (~row.kept => row.folder = None)
          /\ c.module # "Bookmarks" => row.folder = rows[c.id].folder
          /\ c.module = "Bookmarks" /\ c.does = "remove" => row.folder = None
      BY <1>1, <1>2, <1>6
    <2> HIDE DEF row
    <2>2. /\ rows' = [rows EXCEPT ![c.id] = row]
          /\ c.does = "ids" \/ c.does = "remove"
          /\ members' = IF c.does = "ids" THEN members \cup {key} ELSE members \ {key}
      BY <1>8 DEF AddIds, RemoveIds, row
    <2>3. /\ documents' \in [Pairs -> Documents]
          /\ \A pair \in Pairs : pair # key => documents'[pair] = documents[pair]
          /\ c.does = "remove" => ~documents'[key].kept
      <3>1. CASE AddIds(c)
        BY <1>1, <1>2, <1>3, <1>4, <3>1 DEF AddIds
      <3>2. CASE RemoveIds(c)
        BY <1>1, <1>3, <1>5, <3>2 DEF RemoveIds
      <3> QED BY <1>8, <3>1, <3>2
    <2>4. /\ rows'[c.id] = row
          /\ \A id \in Ids : id # c.id => rows'[id] = rows[id]
          /\ key \in members' <=> c.does = "ids"
          /\ \A pair \in Pairs : pair # key => (pair \in members' <=> pair \in members)
      BY <1>1, <1>3, <2>2
    <2>5. rows' \in [Ids -> MirrorRows] /\ members' \subseteq Pairs
      BY <1>1, <1>3, <2>1, <2>2
    <2>6. \A id \in Ids : ~rows'[id].kept => rows'[id].folder = None
      BY <2>1, <2>4
    <2>7. ASSUME NEW pair \in Pairs, last'[pair].state = "done"
          PROVE  /\ pair \in members' <=> last'[pair].adds
                 /\ last'[pair].whole => documents'[pair].kept
                 /\ last'[pair].whole /\ last'[pair].folder # None =>
                       documents'[pair].folder = last'[pair].folder
                 /\ pair[1] = "Bookmarks" /\ ~last'[pair].adds => rows'[pair[2]].folder = None
      <3>1. CASE pair = key
        <4>1. /\ last'[pair].adds <=> c.does # "remove"
              /\ ~last'[pair].whole
          BY <2>2, <2>7, <3>1 DEF Over, Said
        <4>2. pair[1] = c.module /\ pair[2] = c.id
          BY <1>1, <3>1
        <4> QED BY <2>1, <2>2, <2>4, <3>1, <4>1, <4>2
      <3>2. CASE pair # key
        <4>1. last'[pair] = last[pair]
          BY <2>7, <3>2
        <4>2. pair[1] = "Bookmarks" => rows'[pair[2]].folder = rows[pair[2]].folder
          <5>1. SUFFICES ASSUME pair[1] = "Bookmarks", pair[2] = c.id
                         PROVE  rows'[pair[2]].folder = rows[pair[2]].folder
            BY <2>4 DEF Pairs
          <5>2. c.module # "Bookmarks"
            BY <1>1, <3>2, <5>1 DEF Pairs
          <5> QED BY <1>1, <2>1, <2>4, <5>1, <5>2
        <4> QED BY <2>3, <2>4, <2>7, <3>2, <4>1, <4>2 DEF MirrorFollows
      <3> QED BY <3>1, <3>2
    <2>8. \A pair \in Pairs : documents'[pair].kept => pair \in members'
      BY <2>2, <2>3, <2>4 DEF MirrorFollows
    <2> QED BY <2>3, <2>5, <2>6, <2>7, <2>8 DEF MirrorFollows
  <1> QED BY <1>7, <1>8

LEMMA PerformKeeps ==
  ASSUME MirrorInv, Perform
  PROVE  MirrorInv'
  <1> DEFINE c == Head(calls)
  <1> DEFINE turns == answers + captures
  <1> DEFINE said == Settled(c, "done")
  <1>1. /\ Queued(calls, last, turns) /\ calls # <<>> /\ calls \in Seq(CallRecords)
        /\ last \in [Pairs -> Words] /\ answers' = answers /\ captures' = captures
        /\ answers \in Nat /\ captures \in Nat /\ turns \in Nat
    BY DEF MirrorInv, MirrorTyped, Perform, Queued
  <1>2. IsCall(c) /\ c \in CallRecords /\ c.n \in Nat /\ c.n <= turns
    <2>1. 1 \in DOMAIN calls /\ c = calls[1]
      BY <1>1
    <2> QED BY <1>1, <2>1 DEF Queued, Numbered, IsCall, CallRecords
  <1>3. said = Ended(last, c, "done") /\ "done" \in {"done", "refused"}
    BY DEF Settled, Ended
  <1>4. /\ Queued(Tail(calls), said, turns)
        /\ \A pair \in Pairs :
              /\ said[pair].n = last[pair].n
              /\ pair # Pair(c) => said[pair] = last[pair]
              /\ pair = Pair(c) => \/ said[pair].state = "due"
                                  \/ said[pair] = Over(c, "done")
        /\ Indexes(c) =>
              \A i \in DOMAIN Tail(calls) : Indexes(Tail(calls)[i]) => c.n < Tail(calls)[i].n
    <2> HIDE DEF said, turns
    <2> QED BY <1>1, <1>3, QueueShrinks
  <1>5. /\ rows \in [Tweets \cup Users -> MirrorRows]
        /\ MirrorTyped /\ MirrorFollows
        /\ \A id \in Tweets \cup Users : ~rows[id].kept => rows[id].folder = None
    BY DEF MirrorInv, MirrorTyped
  <1>6. CASE Event(c)
    <2>1. /\ calls' = Tail(calls) /\ last' = last /\ said = last
          /\ UNCHANGED <<rows, members, documents>>
      <3>1. Indexed(c) = <<>> /\ Pair(c) \notin Pairs /\ Tail(calls) \in Seq(CallRecords)
        BY <1>1, <1>2, <1>6 DEF Event, Indexed, IsCall, Pair, Pairs
      <3>2. Tail(calls) \o <<>> = Tail(calls)
        BY <3>1
      <3> QED BY <1>3, <1>6, <3>1, <3>2 DEF Ended, Perform, Enqueued, Event
    <2>2. MirrorFollows'
      BY <1>5, <2>1 DEF MirrorFollows
    <2> QED BY <1>1, <1>4, <1>5, <2>1, <2>2 DEF MirrorInv, MirrorTyped
  <1>7. CASE AddRows(c) \/ AddIds(c) \/ RemoveIds(c)
    <2>1. c.does # "event" /\ Pair(c) \in Pairs
      BY <1>2, <1>7 DEF AddRows, AddIds, RemoveIds, IsCall
    <2>2. CASE Indexes(c)
      <3> DEFINE index == Call("ids", "TweetIndex", c.id, NoRow, c.n)
      <3>1. /\ IsCall(index) /\ index.does = "ids" /\ index.n = c.n /\ Pair(index) = <<"TweetIndex", c.id>>
            /\ ~Indexes(index) /\ Pair(index) # Pair(c)
        <4>1. c.module # "TweetIndex" /\ c.id \in Tweets
          BY <1>2, <2>1, <2>2 DEF IsCall, Indexes, Pair, Pairs
        <4>2. NoRow \in MirrorRows /\ NoRow.folder = None
          BY DEF NoRow, MirrorRows, MaybeFolders
        <4>3. /\ index \in CallRecords /\ index.does = "ids" /\ index.module = "TweetIndex" /\ index.id = c.id
              /\ index.row = NoRow /\ index.n = c.n
          BY <1>2, <4>1, <4>2 DEF Call, CallRecords, Bodies
        <4>4. Pair(index) = <<"TweetIndex", c.id>> /\ Pair(index) \in Pairs
          BY <4>1, <4>3 DEF Pair, Pairs
        <4> HIDE DEF index
        <4> QED BY <4>1, <4>2, <4>3, <4>4 DEF IsCall, Indexes, Bodies, Pair
      <3>2. /\ calls' = Append(Tail(calls), index)
            /\ last' = [said EXCEPT ![Pair(index)] = Said(index)]
        <4>1. Indexed(c) = <<index>> /\ AddRows(c)
          BY <1>7, <2>2 DEF Indexed, Indexes, AddRows, AddIds, RemoveIds
        <4>2. Tail(calls) \in Seq(CallRecords) /\ index \in CallRecords
          BY <1>1, <3>1 DEF IsCall
        <4> HIDE DEF index, said
        <4>3. Tail(calls) \o <<index>> = Append(Tail(calls), index)
          BY <4>2
        <4>4. Noted(said, <<index>>) = [said EXCEPT ![Pair(index)] = Said(index)]
          BY DEF Noted
        <4>5. calls' = Tail(calls) \o Indexed(c) /\ last' = Noted(said, Indexed(c))
          BY <4>1 DEF Perform, Enqueued, AddRows, said
        <4> QED BY <4>1, <4>3, <4>4, <4>5
      <3>3. Queued(calls', last', turns)
        <4>1. said[Pair(index)].n < index.n
          <5>1. 1 \in DOMAIN calls /\ c = calls[1]
            BY <1>1
          <5>2. last[<<"TweetIndex", c.id>>].n < c.n
            BY <1>1, <2>2, <5>1 DEF Queued, Numbered
          <5>3. Pair(index) \in Pairs
            BY <3>1 DEF IsCall
          <5> QED BY <1>4, <3>1, <5>2, <5>3
        <4>2. turns <= turns /\ c.n <= turns
          BY <1>1, <1>2
        <4> HIDE DEF index, said, turns
        <4>3. \A i \in DOMAIN Tail(calls) : Indexes(Tail(calls)[i]) => index.n < Tail(calls)[i].n
          BY <1>4, <2>2, <3>1
        <4>4. Queued(Append(Tail(calls), index), [said EXCEPT ![Pair(index)] = Said(index)], turns)
          BY <1>1, <1>4, <3>1, <4>1, <4>2, <4>3, QueueGrows
        <4> QED BY <3>2, <4>4
      <3>4. \A pair \in Pairs :
              /\ pair # Pair(c) => last'[pair] = last[pair] \/ last'[pair].state # "done"
              /\ pair = Pair(c) => \/ last'[pair].state # "done"
                                  \/ last'[pair] = Over(c, "done")
        <4>1. \A pair \in Pairs : last'[pair] = IF pair = Pair(index) THEN Said(index) ELSE said[pair]
          BY <1>4, <3>2 DEF Queued
        <4>2. Said(index).state = "due"
          BY DEF Said
        <4> HIDE DEF index, said
        <4> QED BY <1>4, <3>1, <4>1, <4>2
      <3>5. /\ MirrorFollows'
            /\ rows' \in [Tweets \cup Users -> MirrorRows]
            /\ documents' \in [Pairs -> [folder : MaybeFolders, name : MaybeFolders, kept : BOOLEAN]]
            /\ members' \subseteq Pairs
            /\ \A id \in Tweets \cup Users : ~rows'[id].kept => rows'[id].folder = None
        BY <1>2, <1>5, <1>7, <3>4, TurnFollows
      <3> QED BY <1>1, <3>3, <3>5 DEF MirrorInv, MirrorTyped
    <2>3. CASE ~Indexes(c)
      <3>1. calls' = Tail(calls) /\ last' = said
        <4>1. Indexed(c) = <<>> /\ Tail(calls) \in Seq(CallRecords)
          BY <1>1, <2>3 DEF Indexed, Indexes
        <4>2. Tail(calls) \o <<>> = Tail(calls)
          BY <4>1
        <4> QED BY <1>7, <4>1, <4>2 DEF Perform, Enqueued, AddRows, AddIds, RemoveIds, Noted
      <3>2. \A pair \in Pairs :
              /\ pair # Pair(c) => last'[pair] = last[pair] \/ last'[pair].state # "done"
              /\ pair = Pair(c) => \/ last'[pair].state # "done"
                                  \/ last'[pair] = Over(c, "done")
        <4> HIDE DEF said
        <4> QED BY <1>4, <3>1
      <3>3. /\ MirrorFollows'
            /\ rows' \in [Tweets \cup Users -> MirrorRows]
            /\ documents' \in [Pairs -> [folder : MaybeFolders, name : MaybeFolders, kept : BOOLEAN]]
            /\ members' \subseteq Pairs
            /\ \A id \in Tweets \cup Users : ~rows'[id].kept => rows'[id].folder = None
        BY <1>2, <1>5, <1>7, <3>2, TurnFollows
      <3> QED BY <1>1, <1>4, <3>1, <3>3 DEF MirrorInv, MirrorTyped
    <2> QED BY <2>2, <2>3
  <1> QED BY <1>6, <1>7 DEF Perform

LEMMA RefuseKeeps ==
  ASSUME MirrorInv, Refuse
  PROVE  MirrorInv'
  <1> DEFINE c == Head(calls)
  <1> DEFINE said == Settled(c, "refused")
  <1>1. /\ Queued(calls, last, answers + captures) /\ calls # <<>>
        /\ calls' = Tail(calls) /\ last' = said
        /\ UNCHANGED <<tables, answers, captures>>
    BY DEF MirrorInv, Refuse
  <1>2. said = Ended(last, c, "refused") /\ "refused" \in {"done", "refused"}
    BY DEF Settled, Ended
  <1>3. /\ Queued(Tail(calls), said, answers + captures)
        /\ \A pair \in Pairs :
              /\ pair # Pair(c) => said[pair] = last[pair]
              /\ pair = Pair(c) => \/ said[pair].state = "due"
                                  \/ said[pair] = Over(c, "refused")
    <2> HIDE DEF said
    <2> QED BY <1>1, <1>2, QueueShrinks
  <1>4. \A pair \in Pairs : said[pair] = last[pair] \/ said[pair].state # "done"
    <2> HIDE DEF said
    <2> QED BY <1>3 DEF Over, Said
  <1>5. MirrorFollows'
    <2> HIDE DEF said
    <2> QED BY <1>1, <1>4, DueFollows DEF MirrorInv
  <1> HIDE DEF said
  <1> QED BY <1>1, <1>3, <1>5 DEF MirrorInv, MirrorTyped, tables

(* Whatever X answers, the modules capture, and is refused or not: once what *)
(* was said last of a tweet or user is done, the tables follow it            *)
(* (interaction-events/api.ts:369, buildMirrorTasks).                        *)
THEOREM TablesFollowPage == MirrorSpec => []MirrorFollows
  <1>1. MirrorInit => MirrorInv
    <2> SUFFICES ASSUME MirrorInit PROVE MirrorInv
      OBVIOUS
    <2>1. NoRow \in MirrorRows /\ NoRow.folder = None /\ NothingSaid \in Words
          /\ NothingSaid.state = "none" /\ NothingSaid.n = 0
      BY DEF NoRow, MirrorRows, MaybeFolders, NothingSaid, Words
    <2>2. NoDocument \in [folder : MaybeFolders, name : MaybeFolders, kept : BOOLEAN] /\ ~NoDocument.kept
      BY DEF NoDocument, NoRow, Document, MaybeFolders
    <2>3. MirrorTyped
      BY <2>1, <2>2 DEF MirrorInit, MirrorTyped
    <2>4. Queued(calls, last, answers + captures)
      <3>1. /\ calls = <<>> /\ DOMAIN calls = {} /\ last = [pair \in Pairs |-> NothingSaid]
            /\ answers + captures = 0
        BY DEF MirrorInit
      <3>2. \A pair \in Pairs : Awaits(calls, last[pair], pair)
        BY <2>1, <3>1 DEF Awaits
      <3>3. Numbered(calls, last, answers + captures)
        BY <2>1, <3>1 DEF Numbered
      <3> QED BY <2>1, <3>1, <3>2, <3>3 DEF Queued
    <2>5. MirrorFollows
      BY <2>1, <2>2 DEF MirrorFollows, MirrorInit
    <2> QED BY <2>1, <2>3, <2>4, <2>5 DEF MirrorInv, MirrorInit
  <1>2. MirrorInv /\ [MirrorNext]_mirrorVars => MirrorInv'
    <2> SUFFICES ASSUME MirrorInv, [MirrorNext]_mirrorVars PROVE MirrorInv'
      OBVIOUS
    <2>1. CASE Scroll
      BY <2>1 DEF Scroll, MirrorInv, MirrorTyped, MirrorFollows, tables
    <2>2. CASE Perform
      BY <2>2, PerformKeeps
    <2>3. CASE Refuse
      BY <2>3, RefuseKeeps
    <2>4. CASE \E request \in Requests : Answer(request)
      BY <2>4, AnswerKeeps
    <2>5. CASE \E pair \in Pairs, folder \in Folders \cup {None} : Captured(pair, folder)
      BY <2>5, CapturedKeeps
    <2>6. CASE UNCHANGED mirrorVars
      BY <2>6 DEF mirrorVars, MirrorInv, MirrorTyped, MirrorFollows, tables
    <2> QED BY <2>1, <2>2, <2>3, <2>4, <2>5, <2>6 DEF MirrorNext
  <1>3. MirrorInv => MirrorFollows
    BY DEF MirrorInv
  <1> QED BY <1>1, <1>2, <1>3, PTL DEF MirrorSpec
=============================================================================

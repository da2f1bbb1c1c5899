--------------------------- MODULE MCMonitorLease ---------------------------
(* Two modules that capture.  The parts share no state; a behaviour follows  *)
(* one of them while the other rests:                                        *)
(*   monitors   two pages, one of which leads;                               *)
(*   bookmarks  two folders and one request in flight, in a page loaded on a *)
(*              folder or elsewhere, there in safe mode too, and one of the  *)
(*              folders may be strict.                                       *)
EXTENDS MonitorLease, BookmarkContext

CONSTANTS t1, t2, f1, f2, r1

TwoTabs == {t1, t2}
TwoFolders == {f1, f2}
LoadedOn == {NoFolder, f1}
MayBeStrict ==
    {[mode |-> "on", page |-> NoFolder, stored |-> NoFolder],
     [mode |-> "on", page |-> NoFolder, stored |-> f2],
     [mode |-> "stored off", page |-> f2, stored |-> f1],
     [mode |-> "off", page |-> f1, stored |-> f2]}
ThreeHints ==
    {[folder |-> NoFolder, addressed |-> FALSE], [folder |-> f1, addressed |-> TRUE],
     [folder |-> f2, addressed |-> FALSE]}
FourWays ==
    {[folder |-> NoFolder, in |-> "variables"], [folder |-> f1, in |-> "variables"],
     [folder |-> f2, in |-> "query"], [folder |-> f1, in |-> "form"]}

VARIABLE part

CaptureInit ==
    /\ Init /\ BookmarksInit
    /\ \/ part = "monitors" /\ entry = NoFolder /\ ~tracking
       \/ part = "bookmarks" /\ (tracking \/ entry = NoFolder) /\ \A t \in Tabs : ~wanted[t] /\ ~hidden[t]

CaptureNext ==
    /\ UNCHANGED part
    /\ \/ part = "monitors" /\ Next /\ UNCHANGED bookmarkVars
       \/ part = "bookmarks" /\ BookmarksNext /\ UNCHANGED vars

(* The fairness of each part is that of its module, in its own behaviours.   *)
Monitors(A) == part = "monitors" /\ A
CaptureSpec ==
    /\ CaptureInit /\ [][CaptureNext]_<<part, vars, bookmarkVars>>
    /\ \A t \in Tabs :
         /\ WF_vars(Monitors(Refresh(t))) /\ WF_vars(Monitors(Stop(t)))
         /\ WF_vars(Monitors(Left(t))) /\ SF_vars(Monitors(Heartbeat(t)))
         /\ WF_vars(Monitors(OnStorage(t)))
    /\ WF_vars(Monitors(GoesStale))
    /\ WF_bookmarkVars(part = "bookmarks" /\ RefreshContext)
=============================================================================

-------------------------- MODULE BookmarkContext --------------------------
(* Which bookmark folder a captured response is stamped with.  X's bookmark  *)
(* requests name their folder, or do not, and the page's address names one,  *)
(* or does not; in between stand the contexts the extension manager keeps    *)
(* (core/extensions/manager.ts): the active one, a lock of three minutes and *)
(* a sticky one of 45 seconds.  A request takes its context with it when it  *)
(* is sent; its answer comes later, when the user may be elsewhere, and goes *)
(* through the message bridge to the interceptor (modules/bookmarks/api.ts). *)
(*                                                                           *)
(* An address is a folder, the bookmarks' root or elsewhere.  The hook and   *)
(* the interceptor each look for the request's folder, and see it in         *)
(* different places.  An age is 0 up to 45 seconds (the limit of the active  *)
(* and the sticky context), 1 up to three minutes (the limit of the lock),   *)
(* and 2 beyond.                                                             *)
EXTENDS Naturals, FiniteSets

CONSTANTS
    Folders,      \* bookmark folders
    NoFolder,
    Root,         \* /i/bookmarks
    Elsewhere,    \* any other page
    Requests,     \* places for bookmark requests in flight
    Entries,      \* folders, or NoFolder, that the page may be loaded on
    Stricts,      \* settings of the strict folder, of the page and in localStorage
    Hints,        \* what the page may show: a folder, and whether with its address
    Ways          \* folders a request may name, and the place where it does

ASSUME PlacesAssumption ==
    /\ {NoFolder, Root, Elsewhere} \cap Folders = {}
    /\ Entries \subseteq Folders \cup {NoFolder}
    /\ Stricts \subseteq [mode : {"on", "off", "stored off"},
                          page : Folders \cup {NoFolder}, stored : Folders \cup {NoFolder}]
    /\ Hints \subseteq [folder : Folders \cup {NoFolder}, addressed : BOOLEAN]
    /\ Ways \subseteq [folder : Folders \cup {NoFolder}, in : {"variables", "query", "form"}]

VARIABLES
    location,     \* the page's address
    entry,        \* the folder of the navigation entry: where the page was loaded
    hint,         \* the folder the page's tabs, links or state name
    tracking,     \* whether the context tracking has been installed
    active,       \* activeBookmarkContext
    lock,         \* bookmarkContextLock
    sticky,       \* lastStickyBookmarkContext
    request,      \* the requests in flight
    captured      \* what the last step stamped, if it did

bookmarkVars == <<location, entry, hint, tracking, active, lock, sticky, request, captured>>
contexts == <<active, lock>>
pageVars == <<location, entry, hint, tracking>>

Places == Folders \cup {Root, Elsewhere}
MaybeFolder == Folders \cup {NoFolder}
IsBookmarks(place) == place # Elsewhere                     \* isBookmarksRoute
FolderOf(place) == IF place \in Folders THEN place ELSE NoFolder
FirstOf(f, g) == IF f # NoFolder THEN f ELSE g

Context(f, place) == [folder |-> f, at |-> place, age |-> 0]
NoContext == Context(NoFolder, Elsewhere)
Fresh(c) == c.age = 0
Locked == lock.folder # NoFolder /\ lock.age < 2            \* getBookmarkContextLock

-----------------------------------------------------------------------------
(* captureBookmarkRouteFromPage(): the entry of the navigation has more      *)
(* confidence than the states of the history and of X, these more than tabs  *)
(* and links, and all more than the address.  A state may name a folder      *)
(* without its address.                                                      *)
NoHint == [folder |-> NoFolder, addressed |-> FALSE]
FromEntry == Context(entry, entry)
FromTabs == Context(hint.folder, hint.folder)
FromState == Context(hint.folder, location)
FromPage ==
    CASE entry # NoFolder -> FromEntry
      [] entry = NoFolder /\ hint.folder # NoFolder /\ hint.addressed -> FromTabs
      [] entry = NoFolder /\ hint.folder # NoFolder /\ ~hint.addressed -> FromState
      [] OTHER -> Context(FolderOf(location), location)

(* Where a request's folder is looked for.  The hook looks at the variables  *)
(* and the parameters of the address, and scans a body; the interceptor's    *)
(* explicit folder is one of the variables or the body, of the fields of a   *)
(* form too; its stamp takes one from anywhere.  Each scan is of keys.       *)
FoundIn(way, place) == IF way.in = place THEN way.folder ELSE NoFolder
HookSees(way) == FirstOf(FoundIn(way, "query"), FoundIn(way, "variables"))
VariablesFolder(way) == FoundIn(way, "variables")
QueryFolder(way) == FoundIn(way, "query")
BodyFolder(way) == FoundIn(way, "form")
Explicit(way) == FirstOf(VariablesFolder(way), BodyFolder(way))
StampSees(way) == FirstOf(VariablesFolder(way), FirstOf(QueryFolder(way), BodyFolder(way)))

(* normalizeBookmarkContextValue(): the folder of a context's address goes   *)
(* before the one it names.                                                  *)
Normalized(c) ==
    CASE FolderOf(c.at) # NoFolder -> [c EXCEPT !.folder = FolderOf(c.at)]
      [] FolderOf(c.at) = NoFolder /\ c.folder # NoFolder -> c
      [] OTHER -> FromPage

(* resolveRequestBookmarkContext() of a bookmark request that names folder f *)
Resolved(f) ==
    CASE f # NoFolder -> Context(f, location)
      [] f = NoFolder /\ location \in Folders -> Context(location, location)
      [] f = NoFolder /\ location = Root /\ Locked -> Context(lock.folder, lock.at)
      [] f = NoFolder /\ location \notin Folders /\ ~(location = Root /\ Locked)
           /\ active.folder # NoFolder /\ Fresh(active) -> Context(active.folder, active.at)
      [] OTHER -> IF FromPage.folder # NoFolder THEN FromPage ELSE Normalized(active)

(* A variant that forgets to clear the lock where no folder is known.        *)
SetContextLocked(c) ==
    /\ active' = Normalized(c)
    /\ lock' = IF Normalized(c).folder # NoFolder THEN Normalized(c) ELSE lock

SetContext(c) ==                                            \* setBookmarkContext
    LET n == Normalized(c)
    IN  /\ active' = n
        /\ lock' = CASE n.folder # NoFolder -> n
                     [] n.folder = NoFolder /\ IsBookmarks(n.at) -> lock
                     [] OTHER -> NoContext

-----------------------------------------------------------------------------
NoRequest == [stage |-> "none", folder |-> NoFolder, explicit |-> NoFolder, due |-> NoFolder,
              context |-> NoContext]
NoCapture == [folder |-> NoFolder, due |-> NoFolder, chosen |-> FALSE]

BookmarksInit ==
    /\ entry \in Entries
    /\ location = IF entry = NoFolder THEN Elsewhere ELSE entry
    /\ hint = NoHint
    /\ tracking \in BOOLEAN
    /\ active = NoContext /\ lock = NoContext /\ sticky = NoContext
    /\ request = [r \in Requests |-> NoRequest]
    /\ captured = NoCapture

(* applyBookmarkRouteCandidate().  The candidate of a page always has an     *)
(* address.                                                                  *)
Apply(c) ==
    LET kept == c.folder = NoFolder /\ IsBookmarks(location)
                  /\ sticky.folder # NoFolder /\ Fresh(sticky)
    IN  CASE ~IsBookmarks(c.at) -> sticky' = NoContext /\ SetContext(Context(NoFolder, c.at))
          [] IsBookmarks(c.at) /\ c.folder # NoFolder -> sticky' = c /\ SetContext(c)
          [] IsBookmarks(c.at) /\ kept ->
               sticky' = sticky /\ SetContext(Context(sticky.folder, c.at))
          [] OTHER -> sticky' = NoContext /\ SetContext(Context(NoFolder, c.at))

(* installBookmarkContextTracking().  A page loaded in safe mode has hooks   *)
(* and no tracking, until safe mode is left; once installed it stays.        *)
InstallTracking ==
    /\ ~tracking /\ tracking' = TRUE
    /\ Apply(FromPage)
    /\ UNCHANGED <<location, entry, hint, request>>
    /\ captured' = NoCapture

(* updateBookmarkRouteContext(): every 1200 ms, on popstate, hashchange and  *)
(* changes of the document.                                                  *)
RefreshContext ==
    /\ tracking
    /\ Apply(FromPage)
    /\ UNCHANGED <<pageVars, request>>
    /\ captured' = NoCapture

ClickFolder ==
    /\ tracking
    /\ \E f \in Folders : Apply(Context(f, f))
    /\ UNCHANGED <<pageVars, request>>
    /\ captured' = NoCapture

(* The application changes the address; nothing of the extension runs.       *)
Navigate ==
    /\ location' \in Places
    /\ hint' \in Hints
    /\ <<location', hint'>> # <<location, hint>>
    /\ UNCHANGED <<entry, tracking, active, lock, sticky, request>>
    /\ captured' = NoCapture

(* The age of a context without a folder is never looked at.                 *)
Older(c, n) ==
    [c EXCEPT !.age = CASE c.folder = NoFolder -> 0
                        [] c.folder # NoFolder /\ @ + n > 2 -> 2
                        [] OTHER -> @ + n]

TimePasses ==
    /\ \E n \in {1, 2} :
         /\ active' = Older(active, n)
         /\ lock' = Older(lock, n)
         /\ sticky' = Older(sticky, n)
         /\ request' = [r \in Requests |-> [request[r] EXCEPT !.context = Older(@, n)]]
    /\ UNCHANGED <<pageVars>>
    /\ captured' = NoCapture

(* A bookmark request is sent through a hook.                                *)
Send(r) ==
    /\ request[r].stage = "none"
    /\ \E way \in Ways :
         /\ request' = [request EXCEPT ![r] =
                          [stage |-> "sent", folder |-> StampSees(way), explicit |-> Explicit(way),
                           due |-> FirstOf(way.folder, FolderOf(location)),
                           context |-> Resolved(HookSees(way))]]
         /\ SetContext(Resolved(HookSees(way)))
    /\ UNCHANGED <<pageVars, sticky>>
    /\ captured' = NoCapture

(* The answer is posted to the bridge, its context normalized.  The load     *)
(* listener of an XHR sets the request's context before; a fetch does not.   *)
Loaded(r) ==
    /\ request[r].stage = "sent"
    /\ request' = [request EXCEPT ![r].stage = "posted", ![r].context = Normalized(@)]
    /\ SetContext(request[r].context) \/ UNCHANGED contexts
    /\ UNCHANGED <<pageVars, sticky>>
    /\ captured' = NoCapture

(* BookmarksInterceptor, with the request q, its context c and the folder    *)
(* that the answer or the document name inline.                              *)
CrossFolder(q) == q.explicit # NoFolder /\ location \in Folders /\ q.explicit # location

ContextFolder(c) == FirstOf(c.folder, FolderOf(c.at))       \* resolveFolderFromContext

(* A variant that looks at the page before the request's context.            *)
FolderFromPageFirst(q, c, inline) ==
    FirstOf(q.folder, FirstOf(FolderOf(location), FirstOf(ContextFolder(c), inline)))

StampFolder(q, c, inline) ==                                \* getBookmarkFolderContext
    FirstOf(q.folder, FirstOf(ContextFolder(c), FirstOf(FolderOf(location), inline)))

(* A mode that is off in localStorage only does not touch the page's folder. *)
StrictFolder(s) ==                                          \* resolveStrictBookmarkFolderId
    CASE s.mode = "off" -> NoFolder
      [] s.mode = "stored off" -> s.page
      [] OTHER -> FirstOf(s.page, s.stored)

Evidence(q, c, inline) ==
    FirstOf(q.explicit, FirstOf(FolderOf(location), StampFolder(q, c, inline)))
Admitted(q, c, inline, strict) ==
    ~CrossFolder(q) /\ (strict = NoFolder \/ Evidence(q, c, inline) = strict)

(* The message of an answer arrives: the bridge normalizes and sets its      *)
(* context, and the interceptor stamps or drops the response.  The strict    *)
(* folder is the user's to set and clear; it is read with every answer.      *)
Deliver(r) ==
    LET q == request[r]
        c == Normalized(q.context)
    IN  /\ q.stage = "posted"
        /\ SetContext(c)
        /\ \E inline \in MaybeFolder, setting \in Stricts :
             LET strict == StrictFolder(setting)
             IN  captured' = IF Admitted(q, c, inline, strict)
                               THEN [folder |-> FirstOf(strict, StampFolder(q, c, inline)),
                                     due |-> q.due,
                                     chosen |-> strict # NoFolder /\ q.explicit = NoFolder]
                               ELSE NoCapture
        /\ request' = [request EXCEPT ![r] = NoRequest]
        /\ UNCHANGED <<pageVars, sticky>>

(* A response of another API goes through the bridge too, with what the page *)
(* says when it is posted; the page is taken not to move before it arrives.  *)
DeliverOther ==
    /\ SetContext(FromPage)
    /\ UNCHANGED <<pageVars, sticky, request>>
    /\ captured' = NoCapture

BookmarksNext ==
    \/ InstallTracking \/ RefreshContext \/ ClickFolder
    \/ Navigate \/ TimePasses \/ DeliverOther
    \/ \E r \in Requests : Send(r) \/ Loaded(r) \/ Deliver(r)

(* Where it is tracked, an interval refreshes the context as long as the     *)
(* page lives.                                                               *)
BookmarksSpec == BookmarksInit /\ [][BookmarksNext]_bookmarkVars /\ WF_bookmarkVars(RefreshContext)

-----------------------------------------------------------------------------
ContextType == [folder : MaybeFolder, at : Places, age : 0..2]

(* Every context has its type, and a lock always names a folder.             *)
ContextTypeOK ==
    /\ location \in Places /\ entry \in MaybeFolder /\ hint \in Hints \cup {NoHint}
    /\ tracking \in BOOLEAN
    /\ {active, lock, sticky} \subseteq ContextType
    /\ lock.folder = NoFolder => lock = NoContext
    /\ \A r \in Requests : request[r].context \in ContextType

(* A response is stamped with the folder its request named; where it named   *)
(* none, with that of the page it was sent from, whatever page, context and  *)
(* lock the answer meets.  The strict folder is the user's own override, of  *)
(* all but an explicit folder.                                               *)
(* (bookmarks/api.ts:572, getBookmarkFolderContext)                          *)
RequestDecides ==
    captured.due # NoFolder /\ ~captured.chosen => captured.folder = captured.due

(* A user who stays away from the bookmarks, on a page that tracks the       *)
(* context, shows no folder and was not loaded on one, is rid of the lock    *)
(* again and again, however late answers come.  In a page that was loaded in *)
(* safe mode and not taken out of it, nothing clears a lock.                 *)
(* (manager.ts:1552, setBookmarkContext)                                     *)
Away == location = Elsewhere /\ hint.folder = NoFolder /\ entry = NoFolder
LockIsReleased == <>[](tracking /\ Away) => []<>(lock.folder = NoFolder)
=============================================================================

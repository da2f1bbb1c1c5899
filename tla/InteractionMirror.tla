------------------------- MODULE InteractionMirror -------------------------
(* What the user does on the page, mirrored into the tables                  *)
(* (modules/interaction-events/api.ts).  The interceptor recognises X's      *)
(* answers to bookmarks, likes, follows and retweets by their operation,     *)
(* records an event, and adds the target to the captures of a module or      *)
(* removes it, as the module's own responses do.  A bookmarked tweet whose   *)
(* article is on the page is captured as the page shows it                   *)
(* (utils/dom-tweet-snapshot.ts).                                            *)
(*                                                                           *)
(* All of this are calls of the database, which go through the delivery      *)
(* coordinator one after the other; each is one transaction (manager.ts), or *)
(* is refused, and then nothing is written.  X's requests name at most one   *)
(* tweet, user and folder.  Answers that are no success, or not recognised,  *)
(* do nothing.  Tweets with media are indexed once more, in the same way.    *)
EXTENDS Naturals, FiniteSetsExt, Sequences, SequencesExt

CONSTANTS
    Tweets, Users, Folders,
    None,         \* no tweet, user or folder
    Cached,       \* folders whose names are in localStorage
    Requests,     \* operations with what their requests name
    MaxAnswers,   \* bounds on the interactions
    MaxCaptures   \* and on the responses that modules capture

ASSUME MirrorAssumption ==
    /\ Tweets \cap Users = {} /\ None \notin Tweets \cup Users \cup Folders
    /\ Requests \subseteq [operation : STRING, tweet : Tweets \cup {None},
                            user : Users \cup {None}, folder : Folders \cup {None}]

VARIABLES
    onPage,       \* tweets that have an article in the page
    calls,        \* calls of the database that wait for their turn
    rows,         \* the tables tweets and users
    members,      \* captures: module and target
    documents,    \* the search documents, of each module and target
    events,       \* interactions recorded
    last,         \* the last that was said of each module and target, and its call
    answers, captures

mirrorVars == <<onPage, calls, rows, members, documents, events, last, answers, captures>>
tables == <<rows, members, documents, events>>

Pairs == ({"Bookmarks", "Likes", "TweetIndex"} \X Tweets) \cup ({"Following"} \X Users)

-----------------------------------------------------------------------------
(* detectInteraction(): the first pattern that is found in the operation or  *)
(* the address.  The patterns of additions are found in the names of some    *)
(* removals too.                                                             *)
Pattern(kind, found) == [kind |-> kind, found |-> found]
Patterns == <<
    Pattern("bookmark_folder_add", {"bookmarkTweetToFolder"}),
    Pattern("bookmark_add", {"CreateBookmark"}),
    Pattern("bookmark_remove", {"DeleteBookmark"}),
    Pattern("like_add", {"FavoriteTweet", "UnfavoriteTweet"}),
    Pattern("like_remove", {"UnfavoriteTweet", "DeleteFavorite"}),
    Pattern("follow_add", {"FollowUser", "UnfollowUser", "friendships/create"}),
    Pattern("follow_remove", {"UnfollowUser", "friendships/destroy"}),
    Pattern("retweet_add", {"CreateRetweet"}),
    Pattern("retweet_remove", {"DeleteRetweet"})>>
Kind(operation) == Patterns[Min({i \in DOMAIN Patterns : operation \in Patterns[i].found})].kind

Module(kind) ==
    CASE kind \in {"bookmark_add", "bookmark_folder_add", "bookmark_remove"} -> "Bookmarks"
      [] kind \in {"like_add", "like_remove"} -> "Likes"
      [] kind \in {"follow_add", "follow_remove"} -> "Following"
      [] OTHER -> "none"
Adds(kind) == kind \in {"bookmark_add", "bookmark_folder_add", "like_add", "follow_add"}

Target(request) ==
    IF Module(Kind(request.operation)) = "Following" THEN request.user ELSE request.tweet

-----------------------------------------------------------------------------
(* A row is what the mirror changes of it: the flags, and the folder with    *)
(* the folder its name is of.                                                *)
NoRow == [flags |-> {}, folder |-> None, name |-> None, kept |-> FALSE]
Row(flags, folder) ==
    [flags |-> flags, folder |-> folder,
     name |-> IF folder \in Cached THEN folder ELSE None, kept |-> TRUE]

FolderOf(request) ==
    IF Kind(request.operation) = "bookmark_folder_add" THEN request.folder ELSE None
Snapshot(request) == Row({"bookmarked"}, FolderOf(request))

(* patchTweetFlags(), patchUserFollowing()                                   *)
Flag(module) ==
    CASE module = "Bookmarks" -> "bookmarked" [] module = "Likes" -> "favorited"
      [] OTHER -> "following"
Patched(row, call) ==
    LET flag == {Flag(call.module)}
    IN  IF call.module = "TweetIndex" THEN row
        ELSE IF call.does = "remove" /\ call.module = "Bookmarks" THEN Row(row.flags \ flag, None)
        ELSE IF call.does = "remove" THEN [row EXCEPT !.flags = @ \ flag]
        ELSE IF call.row.folder # None THEN Row(row.flags \cup flag, call.row.folder)
        ELSE [row EXCEPT !.flags = @ \cup flag]

(* buildTweetSearchDocuments(), buildUserSearchDocuments(): a document is    *)
(* found by the folder its row had, and by that name.                        *)
Document(row) == [folder |-> row.folder, name |-> row.name, kept |-> row.kept]
NoDocument == Document(NoRow)

(* mergeTweetMetadata(): what a row has of a folder and its name stays, each *)
(* by itself, when the row that comes has none.                              *)
FirstOf(a, b) == IF a # None THEN a ELSE b
Merged(old, row) ==
    [row EXCEPT !.folder = FirstOf(@, old.folder), !.name = FirstOf(@, old.name)]

-----------------------------------------------------------------------------
Call(does, module, id, row, n) ==
    [does |-> does, module |-> module, id |-> id, row |-> row, n |-> n]
Pair(call) == <<call.module, call.id>>

NothingSaid == [n |-> 0, state |-> "none", adds |-> FALSE, whole |-> FALSE, folder |-> None]
Said(call) ==
    [n |-> call.n, state |-> "due", adds |-> call.does # "remove",
     whole |-> call.does \in {"snapshot", "response"}, folder |-> call.row.folder]
Noted(said, more) ==
    IF more = <<>> THEN said ELSE [said EXCEPT ![Pair(more[1])] = Said(more[1])]

MirrorInit ==
    /\ onPage = {} /\ calls = <<>>
    /\ rows = [id \in Tweets \cup Users |-> NoRow]
    /\ members = {} /\ documents = [pair \in Pairs |-> NoDocument] /\ events = {}
    /\ last = [pair \in Pairs |-> NothingSaid]
    /\ answers = 0 /\ captures = 0

(* The articles the page has change as it is scrolled and left.              *)
Scroll ==
    /\ onPage' \in SUBSET Tweets
    /\ UNCHANGED <<calls, tables, last, answers, captures>>

(* buildMirrorTasks(), buildBookmarkHydrationTasks()                         *)
Turn == answers + captures + 1
Hydrates(request) ==
    /\ Kind(request.operation) \in {"bookmark_add", "bookmark_folder_add"}
    /\ request.tweet \in onPage
MirrorCall(request) ==
    LET kind == Kind(request.operation)
    IN  Call(IF Hydrates(request) THEN "snapshot" ELSE IF Adds(kind) THEN "ids" ELSE "remove",
             Module(kind), Target(request), Snapshot(request), Turn)
MirrorCalls(request) ==
    IF Module(Kind(request.operation)) = "none" \/ Target(request) = None THEN <<>>
    ELSE <<MirrorCall(request)>>

(* A variant: removals do not wait for their turn.                           *)
EnqueuedAhead(queue, more) ==
    IF more # <<>> /\ Last(more).does = "remove" THEN more \o queue ELSE queue \o more

Enqueued(queue, more) == queue \o more                      \* withOperationLease

Answer(request) ==                                          \* InteractionEventsInterceptor
    /\ answers < MaxAnswers
    /\ answers' = answers + 1
    /\ LET mirrored == MirrorCalls(request)
       IN  /\ calls' = Enqueued(calls, <<Call("event", "none", None, NoRow, Turn)>> \o mirrored)
           /\ last' = Noted(last, mirrored)
    /\ UNCHANGED <<onPage, tables, captures>>

(* A response of the module itself, its bookmarks stamped with a folder.     *)
Captured(pair, folder) ==
    /\ captures < MaxCaptures
    /\ captures' = captures + 1
    /\ pair[1] # "TweetIndex" /\ (folder # None => pair[1] = "Bookmarks")
    /\ LET call == Call("response", pair[1], pair[2], Row({Flag(pair[1])}, folder), Turn)
       IN  calls' = Enqueued(calls, <<call>>) /\ last' = Noted(last, <<call>>)
    /\ UNCHANGED <<onPage, tables, answers>>

-----------------------------------------------------------------------------
(* extAddTweets(), extAddUsers(); extAdd...CaptureIds(), whose documents are *)
(* built from the rows as they were before; extRemove...CaptureIds().        *)
Settled(call, state) ==
    IF Pair(call) \in Pairs /\ last[Pair(call)].n = call.n
    THEN [last EXCEPT ![Pair(call)].state = state] ELSE last

(* The tweets of a response are indexed in a call of its own after it.       *)
Indexed(call) ==
    IF call.does = "response" /\ call.module # "Following"
    THEN <<Call("ids", "TweetIndex", call.id, NoRow, call.n)>> ELSE <<>>

Event(call) ==
    /\ call.does = "event"
    /\ events' = events \cup {call.n}
    /\ UNCHANGED <<rows, members, documents, last>>

AddRows(call) ==
    /\ call.does \in {"snapshot", "response"}
    /\ rows' = [rows EXCEPT ![call.id] = Merged(@, call.row)]
    /\ members' = members \cup {Pair(call)}
    /\ documents' = [documents EXCEPT ![Pair(call)] = Document(rows'[call.id])]
    /\ last' = Noted(Settled(call, "done"), Indexed(call)) /\ UNCHANGED events

AddIds(call) ==
    /\ call.does = "ids"
    /\ rows' = [rows EXCEPT ![call.id] = IF @.kept THEN Patched(@, call) ELSE @]
    /\ members' = members \cup {Pair(call)}
    /\ documents' = IF rows[call.id].kept
                    THEN [documents EXCEPT ![Pair(call)] = Document(rows[call.id])] ELSE documents
    /\ last' = Settled(call, "done") /\ UNCHANGED events

RemoveIds(call) ==
    /\ call.does = "remove"
    /\ rows' = [rows EXCEPT ![call.id] = IF @.kept THEN Patched(@, call) ELSE @]
    /\ members' = members \ {Pair(call)}
    /\ documents' = [documents EXCEPT ![Pair(call)] = NoDocument]
    /\ last' = Settled(call, "done") /\ UNCHANGED events

Perform ==
    /\ calls # <<>>
    /\ calls' = Enqueued(Tail(calls), Indexed(Head(calls)))
    /\ \/ Event(Head(calls)) \/ AddRows(Head(calls))
       \/ AddIds(Head(calls)) \/ RemoveIds(Head(calls))
    /\ UNCHANGED <<onPage, answers, captures>>

(* route() refuses the call, or its transaction fails.                       *)
Refuse ==
    /\ calls # <<>>
    /\ calls' = Tail(calls)
    /\ last' = Settled(Head(calls), "refused")
    /\ UNCHANGED <<onPage, tables, answers, captures>>

MirrorNext ==
    \/ Scroll \/ Perform \/ Refuse
    \/ \E request \in Requests : Answer(request)
    \/ \E pair \in Pairs, folder \in Folders \cup {None} : Captured(pair, folder)

MirrorSpec == MirrorInit /\ [][MirrorNext]_mirrorVars

-----------------------------------------------------------------------------
(* Once the call of the last that was said of a tweet or user is done, by an *)
(* interaction or a response, whatever waited before it, was refused, or was *)
(* on the page: the module has it if that was an addition and not otherwise; *)
(* what came with its row has a document, in the folder it named; a tweet    *)
(* that is no bookmark any more is in no folder; and a search finds none     *)
(* that was removed.  (interaction-events/api.ts:369, buildMirrorTasks)      *)
MirrorFollows ==
    \A pair \in Pairs :
        /\ last[pair].state = "done" =>
              /\ pair \in members <=> last[pair].adds
              /\ last[pair].whole => documents[pair].kept
              /\ last[pair].whole /\ last[pair].folder # None =>
                    documents[pair].folder = last[pair].folder
              /\ pair[1] = "Bookmarks" /\ ~last[pair].adds => rows[pair[2]].folder = None
        /\ documents[pair].kept => pair \in members
=============================================================================

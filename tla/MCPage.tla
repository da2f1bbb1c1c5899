------------------------------- MODULE MCPage -------------------------------
(* What goes on in a page: how responses are caught, what leaves the table in *)
(* files, what comes back in bundles and what the user does to tweets.  The   *)
(* parts share no state; a behaviour follows one of them while the others     *)
(* rest:                                                                      *)
(*   hooks    a fetch in flight, and a page whose scripts wrap or replace its *)
(*            functions once, in each of the realms a userscript may run in;  *)
(*   rows     the selection and exports of a table of two rows, one at once;  *)
(*   worker   the export of a bundle of up to five rows in batches of two;    *)
(*   media    four media, two of them videos, on two hosts, by two workers,   *)
(*            one download at once from a host and one of a video, with one   *)
(*            retry; by one pattern of names two media have the same;         *)
(*   library  two bundles, the files of one of which differ, pages of one     *)
(*            row and two writes;                                             *)
(*   mirror   a tweet, a user, two folders, two interactions and a response.  *)
EXTENDS HookRuntime, ResultExport, BundleLibrary, InteractionMirror

MCStoredModes == {[safe |-> s, mode |-> "both", repair |-> TRUE] : s \in BOOLEAN}
MCRealms == {"exported", "same", "foreign"}

FileOf(bundle, those) == [bundle |-> bundle, rows |-> those]
TwoBundles == {"b", "c"}
ThreeFiles == {FileOf("b", {1, 2}), FileOf("b", {2, 3}), FileOf("c", {1})}

OfTweet(operation, folder) ==
    [operation |-> operation, tweet |-> "t", user |-> None, folder |-> folder]
OfUser(operation) == [operation |-> operation, tweet |-> None, user |-> "u", folder |-> None]
XRequests ==
    {OfTweet(operation, None) : operation \in {"CreateBookmark", "DeleteBookmark",
        "FavoriteTweet", "UnfavoriteTweet", "DeleteFavorite", "CreateRetweet"}}
    \cup {OfTweet("bookmarkTweetToFolder", folder) : folder \in {"f", "g"}}
    \cup {OfUser("friendships/create"), OfUser("friendships/destroy"), OfUser("DeleteBookmark")}

VARIABLES
    part,
    total, sender, ready, job, toWorker, toPage, outcome, saved,
    pattern, scan, list, next, files, workers, active, blobs, ended, archive

worker == <<total, sender, ready, job, toWorker, toPage, outcome, saved>>
media == <<pattern, scan, list, next, files, workers, active, blobs, ended, archive>>

Bundle == INSTANCE BundleJob WITH Totals <- {0, 1, 2, 5}, BatchSize <- 2

Medium(id, host, video) == [id |-> id, host |-> host, video |-> video]
MediaRows == <<<<Medium(1, "img", FALSE), Medium(3, "vid", TRUE)>>,
               <<Medium(2, "vid", FALSE)>>, <<Medium(4, "img", TRUE)>>>>
NameOf(same) == [medium \in UNION {{row[i] : i \in DOMAIN row} :
                                      row \in {MediaRows[i] : i \in DOMAIN MediaRows}} |->
                    IF medium.id = 3 THEN same ELSE medium.id]

Download == INSTANCE MediaDownload WITH
              Rows <- MediaRows, Names <- [id |-> NameOf(3), post |-> NameOf(1)],
              Globally <- 2, PerHost <- 1, Videos <- 1, MaxRetries <- 1, MaxScans <- 2,
              outcome <- ended

Resting == Initialize(Fresh(CHOOSE m \in MCStoredModes : ~m.safe, "exported"), {})

PageInit ==
    /\ Init /\ ExportInit /\ Bundle!Init /\ Download!Init /\ LibraryInit /\ MirrorInit
    /\ part \in {"hooks", "rows", "worker", "media", "library", "mirror"}
    /\ part # "hooks" => page = Resting
    /\ part # "rows" => result = {} /\ loaded = {}
    /\ part # "worker" => total = 0
    /\ part # "media" => pattern = "id"

PageNext ==
    /\ UNCHANGED part
    /\ part # "mirror" => UNCHANGED mirrorVars
    /\ \/ part = "hooks" /\ Next /\ UNCHANGED <<exportVars, worker, media, libraryVars>>
       \/ part = "rows" /\ ExportNext /\ UNCHANGED <<vars, worker, media, libraryVars>>
       \/ part = "worker" /\ Bundle!Next /\ UNCHANGED <<vars, exportVars, media, libraryVars>>
       \/ part = "media" /\ Download!Next /\ UNCHANGED <<vars, exportVars, worker, libraryVars>>
       \/ part = "library" /\ LibraryNext /\ UNCHANGED <<vars, exportVars, worker, media>>
       \/ /\ part = "mirror" /\ MirrorNext
          /\ UNCHANGED <<vars, exportVars, worker, media, libraryVars>>

(* The fairness of each part is that of its module, in its own behaviours.    *)
PageSpec ==
    /\ PageInit /\ [][PageNext]_<<part, vars, exportVars, worker, media, libraryVars, mirrorVars>>
    /\ WF_vars(part = "hooks" /\ Watchdog)
    /\ WF_worker(part = "worker" /\ Bundle!Works)
    /\ WF_media(part = "media" /\ Download!Saves)
    /\ \A w \in 1..2 : WF_media(part = "media" /\ Download!Works(w))

JobEndsWhole == part = "worker" => Bundle!JobEndsWhole
DownloadEndsWhole == Download!DownloadEndsWhole
=============================================================================

--------------------------- MODULE MediaDownload ---------------------------
(* The export of the media of a result set (modals/export-media.tsx,         *)
(* utils/media.ts, utils/download.ts).  The modal scans the rows of the      *)
(* result for their media, again whenever the pattern of the file names      *)
(* changes; a click downloads the list by several workers, within limits on  *)
(* the downloads at once, and saves them in one archive.  A download that    *)
(* fails is retried, but one that is refused ends the export, while the      *)
(* other workers go on to the end of the list.                               *)
(*                                                                           *)
(* The delay between two starts and between two attempts is time that passes.*)
EXTENDS Naturals, FiniteSets, SequencesExt

CONSTANTS
    Rows,         \* the rows of the result: sequences of media [id, host, video]
    Names,        \* for each pattern the file name of each medium
    Globally, PerHost, Videos,  \* the limits: globalConcurrency, ...
    MaxRetries,
    MaxScans      \* bound: scans

VARIABLES
    pattern,      \* filenamePattern
    scan,         \* the scan that is not cancelled: rows seen, media by name
    list,         \* sourceResultMediaList
    next,         \* nextIndex of the export, 0 before the click
    files,        \* the list at the click
    workers,      \* each worker's place, file and attempt
    active,       \* activeGlobal, activeVideo, activeByHost
    blobs,        \* the files that were downloaded
    outcome, archive

modal == <<pattern, scan, list>>
export == <<next, files, workers, active, blobs, outcome, archive>>
vars == <<modal, export>>

Media == UNION {ToSet(row) : row \in ToSet(Rows)}
Hosts == {medium.host : medium \in Media}
Workers == 1..Globally
Gone == [at |-> "gone", file |-> 0, attempt |-> 0]
NoScan == [on |-> FALSE, seen |-> 0, gallery |-> <<>>, scans |-> 0]

Init ==
    /\ pattern \in DOMAIN Names
    /\ scan = NoScan /\ list = <<>>
    /\ next = 0 /\ files = <<>>
    /\ workers = [w \in Workers |-> Gone]
    /\ active = [all |-> 0, video |-> 0, host |-> [h \in Hosts |-> 0]]
    /\ blobs = {} /\ outcome = "none" /\ archive = <<>>

-----------------------------------------------------------------------------
(* The scan.  A medium takes the place of one with its name.                 *)
SameName(a, b) == Names[pattern][a] = Names[pattern][b]

Put(gallery, medium) ==
    IF \E i \in DOMAIN gallery : SameName(gallery[i], medium)
    THEN [i \in DOMAIN gallery |-> IF SameName(gallery[i], medium) THEN medium ELSE gallery[i]]
    ELSE Append(gallery, medium)

ScanStarts ==
    /\ scan.scans < MaxScans
    /\ pattern' \in DOMAIN Names
    /\ scan' = [NoScan EXCEPT !.on = TRUE, !.scans = scan.scans + 1]
    /\ list' = <<>>
    /\ UNCHANGED export

(* The modal is closed; an export that runs goes on.                         *)
Close ==
    /\ scan' = [NoScan EXCEPT !.scans = scan.scans]
    /\ list' = <<>>
    /\ UNCHANGED <<pattern, export>>

(* A row; now and then the list so far is published.                         *)
ScanRow ==
    /\ scan.on /\ scan.seen < Len(Rows)
    /\ LET gallery == FoldLeft(Put, scan.gallery, Rows[scan.seen + 1])
       IN  /\ scan' = [scan EXCEPT !.seen = @ + 1, !.gallery = gallery]
           /\ list' \in {list, gallery}
    /\ UNCHANGED <<pattern, export>>

ScanEnds ==
    /\ scan.on /\ scan.seen = Len(Rows)
    /\ list' = scan.gallery
    /\ scan' = [scan EXCEPT !.on = FALSE]
    /\ UNCHANGED <<pattern, export>>

(* The source throws: what was published stays, and can be exported.         *)
ScanFails ==
    /\ scan.on
    /\ scan' = [scan EXCEPT !.on = FALSE]
    /\ UNCHANGED <<pattern, list, export>>

-----------------------------------------------------------------------------
(* onExport(), zipStreamDownload().                                          *)
Click ==
    /\ outcome = "none" /\ ~scan.on /\ list # <<>>
    /\ files' = list /\ next' = 1 /\ outcome' = "running"
    /\ workers' = [w \in Workers |-> IF w <= Len(list) THEN [Gone EXCEPT !.at = "idle"] ELSE Gone]
    /\ UNCHANGED <<modal, active, blobs, archive>>

TakeFile(w) ==
    /\ workers[w].at = "idle"
    /\ IF next > Len(files)
         THEN workers' = [workers EXCEPT ![w] = Gone] /\ UNCHANGED next
         ELSE /\ workers' = [workers EXCEPT ![w] = [at |-> "slot", file |-> next, attempt |-> 0]]
              /\ next' = next + 1
    /\ UNCHANGED <<modal, files, active, blobs, outcome, archive>>

MediumOf(w) == files[workers[w].file]

Free(medium) ==
    /\ active.all < Globally
    /\ active.host[medium.host] < PerHost
    /\ medium.video => active.video < Videos

Video(medium) == IF medium.video THEN 1 ELSE 0

Acquire(w) ==
    /\ workers[w].at = "slot" /\ Free(MediumOf(w))
    /\ active' = [all |-> active.all + 1, video |-> active.video + Video(MediumOf(w)),
                  host |-> [active.host EXCEPT ![MediumOf(w).host] = @ + 1]]
    /\ workers' = [workers EXCEPT ![w].at = "fetch"]
    /\ UNCHANGED <<modal, next, files, blobs, outcome, archive>>

(* A variant that forgets the video.                                         *)
ReleaseButVideo(w) ==
    active' = [active EXCEPT !.all = @ - 1, !.host[MediumOf(w).host] = @ - 1]

Release(w) ==
    active' = [all |-> active.all - 1, video |-> active.video - Video(MediumOf(w)),
               host |-> [active.host EXCEPT ![MediumOf(w).host] = @ - 1]]

Fetched(w) ==
    /\ workers[w].at = "fetch"
    /\ blobs' = blobs \union {workers[w].file}
    /\ workers' = [workers EXCEPT ![w].at = "idle"]
    /\ Release(w)
    /\ UNCHANGED <<modal, next, files, outcome, archive>>

(* fetchBlobWithRetry() keeps its slot between two attempts.                 *)
Retry(w) ==
    /\ workers[w].at = "fetch" /\ workers[w].attempt < MaxRetries
    /\ workers' = [workers EXCEPT ![w].attempt = @ + 1]
    /\ UNCHANGED <<modal, next, files, active, blobs, outcome, archive>>

(* Refused with 403 or 404, or the last attempt failed.                      *)
Throws(w) ==
    /\ workers[w].at = "fetch"
    /\ workers' = [workers EXCEPT ![w] = Gone]
    /\ outcome' = "failed"
    /\ Release(w)
    /\ UNCHANGED <<modal, next, files, blobs, archive>>

(* zipBlobFiles(): the blobs by their place in the list.                     *)
Saves ==
    /\ outcome = "running" /\ \A w \in Workers : workers[w].at = "gone"
    /\ archive' = [i \in 1..Cardinality(blobs) |-> files[SetToSortSeq(blobs, <)[i]]]
    /\ outcome' = "saved"
    /\ UNCHANGED <<modal, next, files, workers, active, blobs>>

Works(w) == TakeFile(w) \/ Acquire(w) \/ Fetched(w) \/ Retry(w) \/ Throws(w)

Next ==
    \/ ScanStarts \/ Close \/ ScanRow \/ ScanEnds \/ ScanFails \/ Click \/ Saves
    \/ \E w \in Workers : Works(w)

(* A download ends, well or not, and a worker that waits for a slot looks    *)
(* again.                                                                    *)
Spec == Init /\ [][Next]_vars /\ WF_vars(Saves) /\ \A w \in Workers : WF_vars(Works(w))

-----------------------------------------------------------------------------
Fetching(P(_)) == Cardinality({w \in Workers : workers[w].at = "fetch" /\ P(MediumOf(w))})

(* The downloads that run at once keep the limits (acquireStartSlot), also   *)
(* after the export has failed, and an export ends with an archive that has  *)
(* every file of the list, once and in its place, or it fails: no worker     *)
(* waits for a slot that nobody gives back (zipStreamDownload).              *)
DownloadEndsWhole ==
    /\ [](/\ Fetching(LAMBDA medium : medium.video) <= Videos
          /\ \A host \in Hosts : Fetching(LAMBDA medium : medium.host = host) <= PerHost
          /\ outcome = "saved" => archive = files)
    /\ outcome = "running" ~> outcome # "running"
=============================================================================

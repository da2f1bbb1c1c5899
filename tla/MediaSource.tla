---------------------------- MODULE MediaSource ----------------------------
(* The rows with media, as the gallery and its export read them              *)
(* (core/database/result-sources.ts, createMediaResultSource): windows of    *)
(* search documents by the index of their media_flag or, where that finds    *)
(* none, by the older index of their media_count.  The documents of earlier  *)
(* versions have no flag, or neither.  The sources' counts, seconds after    *)
(* they are made and after their first windows, scan the documents and have  *)
(* what both indexes miss repaired, by the queue of writes and without a     *)
(* signal; a write of a capture signals, and the gallery makes a new source. *)
(*                                                                           *)
(* Docs are the documents of the source's folders.  A window is read and its *)
(* rows hydrated at once, each has its row, and no page leaves the cache.    *)
EXTENDS Naturals, FiniteSets, FiniteSetsExt, Sequences

CONSTANTS
    Docs,         \* search documents, the newer the greater
    Photos,       \* media_count of each
    Limit,        \* rows of a window
    MaxWrites     \* bound on the writes

VARIABLES
    mark,         \* what a document tells of its media
    repair,       \* documents whose repair waits in the queue of writes
    source,       \* the gallery's source: its cache, and whether that is of before a repair
    stream,       \* the export
    writes

mediaVars == <<mark, repair, source, stream, writes>>

(* A document of this version; of one that had a media_count; of one with a  *)
(* flag among others only; of a tweet without media; or none.                *)
Marks == {"flagged", "counted", "bare", "plain", "none"}

-----------------------------------------------------------------------------
Scanned == {d \in Docs : mark[d] \in {"flagged", "counted", "bare"}}
Flagged == {d \in Docs : mark[d] = "flagged"}
Counted == {d \in Docs : mark[d] \in {"flagged", "counted"}}

Newer == [d \in Docs |-> {e \in Docs : e > d}]
MorePhotos == [d \in Docs |-> {e \in Docs : \/ Photos[e] > Photos[d]
                                            \/ Photos[e] = Photos[d] /\ e > d}]

(* ahead[d] are the documents that a row of d comes after.                   *)
Sorted(S, ahead) ==
    [i \in 1..Cardinality(S) |-> CHOOSE d \in S : Cardinality(S \cap ahead[d]) = i - 1]
ByFlag == Sorted(Flagged, Newer)
ByCount == Sorted(Counted, MorePhotos)

(* extGetSearchDocumentMediaCursorPage() by offset: nothing asks by cursor.  *)
Rest(rows, start) == SubSeq(rows, start + 1, Len(rows))
Rows(start) == IF Rest(ByFlag, start) # <<>> THEN Rest(ByFlag, start) ELSE Rest(ByCount, start)
Page(start) == [ids |-> SubSeq(Rows(start), 1, Min({Len(Rows(start)), Limit})),
                more |-> Len(Rows(start)) > Limit, kept |-> TRUE]

NoPage == [ids |-> <<>>, more |-> FALSE, kept |-> FALSE]
NewSource == [cache |-> [i \in 0..Cardinality(Docs) |-> NoPage], before |-> FALSE]
NoStream == [stage |-> "none", start |-> 0, out |-> <<>>, still |-> FALSE]

MediaInit ==
    /\ mark \in [Docs -> Marks] /\ repair = {}
    /\ source = NewSource /\ stream = NoStream /\ writes = 0

Load(start) ==                                              \* getWindow
    IF source.cache[start].kept THEN source
    ELSE [source EXCEPT !.cache[start] = Page(start)]

Window(start) ==
    /\ source' = Load(start)
    /\ UNCHANGED <<mark, repair, stream, writes>>

-----------------------------------------------------------------------------
(* extGetSearchDocumentMediaCount().  If the scan finds more than either     *)
(* index, all that has no flag is repaired, as it was read.                  *)
BeyondIndexes == Cardinality(Scanned) > Max({Cardinality(Flagged), Cardinality(Counted)})

Count ==
    /\ repair = {}
    /\ repair' = IF BeyondIndexes THEN Scanned \ Flagged ELSE {}
    /\ UNCHANGED <<mark, source, stream, writes>>

(* The windows the source has read keep what they show.                      *)
Repair ==
    /\ repair # {}
    /\ mark' = [d \in Docs |-> IF d \in repair THEN "flagged" ELSE mark[d]]
    /\ repair' = {}
    /\ source' = [source EXCEPT !.before = @ \/ source # NewSource]
    /\ stream' = [stream EXCEPT !.still = FALSE]
    /\ UNCHANGED writes

(* A capture puts a document of this version, a removal takes it away.  A    *)
(* running export keeps the source it has.                                   *)
Write(d, m) ==
    /\ writes < MaxWrites
    /\ writes' = writes + 1
    /\ mark' = [mark EXCEPT ![d] = m]
    /\ source' = NewSource
    /\ stream' = [stream EXCEPT !.still = FALSE, !.stage = IF @ = "reads" THEN "cut" ELSE @]
    /\ UNCHANGED repair

-----------------------------------------------------------------------------
(* streamRows(), as an export runs it.  What an export gives that a write    *)
(* overtakes is not followed.                                                *)
StreamStarts ==
    /\ stream.stage = "none"
    /\ stream' = [NoStream EXCEPT !.stage = "reads", !.still = ~source.before]
    /\ UNCHANGED <<mark, repair, source, writes>>

StreamReads ==
    /\ stream.stage = "reads"
    /\ source' = Load(stream.start)
    /\ LET page == source'.cache[stream.start]
       IN  stream' = [stream EXCEPT !.out = @ \o page.ids,
                                    !.start = @ + Len(page.ids),
                                    !.stage = IF ~page.more \/ page.ids = <<>> THEN "done" ELSE @]
    /\ UNCHANGED <<mark, repair, writes>>

MediaNext ==
    \/ \E start \in 0..Cardinality(Docs) - 1 : Window(start)
    \/ Count \/ Repair
    \/ \E d \in Docs, m \in {"flagged", "plain", "none"} : Write(d, m)
    \/ StreamStarts \/ StreamReads

MediaSpec == MediaInit /\ [][MediaNext]_mediaVars

-----------------------------------------------------------------------------
(* An export that no write and no repair overtakes, of a source that kept no *)
(* window from before a repair, gives the rows of one index, each once and   *)
(* in its order: that of the flag, newest first, if it has any, or the older *)
(* one.  Documents of earlier versions are left out beside ones of this: the *)
(* count finds them in the older index and repairs nothing.                  *)
(* (result-sources.ts:1049, streamRows)                                      *)
MediaIsWhole ==
    stream.stage = "done" /\ stream.still =>
        stream.out = IF Flagged # {} THEN ByFlag ELSE ByCount
=============================================================================

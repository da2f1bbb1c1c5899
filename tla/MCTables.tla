------------------------------ MODULE MCTables ------------------------------
(* The tables: where their rows come from, and what a search makes of them.  *)
(* The parts share no state; a behaviour follows one of them while the       *)
(* others rest:                                                              *)
(*   captures  a table of up to two captures that its own tab and another    *)
(*             one write;                                                    *)
(*   folder    three documents in two folders, windows of two rows and index *)
(*             pages of one, and an export;                                  *)
(*   gallery   three documents of any version, windows of two rows, a write  *)
(*             and an export of the rows with media;                         *)
(*   query     queries of up to MaxTokens tokens over two corpora of three   *)
(*             and four documents with four words;                           *)
(*   session   one tab and two texts; a write takes the documents from one   *)
(*             page, which is below the limit, to two, which are above it.   *)
EXTENDS ResultWindows, TableSearch

CONSTANTS c1, c2, self, other

TwoCaptures == {c1, c2}
TwoTabs == {self, other}
KeepingInvalidation == {"add", "remove"}

Doc(words, quoted, field, author, folder, flags) ==
    [words |-> words, quoted |-> quoted, field |-> field, author |-> author,
     folder |-> folder, flags |-> flags]

TwoCorpora == {
    <<Doc(<<1, 2>>, <<>>, <<>>, "ann", "f", {}),
      Doc(<<3>>, <<1>>, <<2>>, "bob", "g", {"media"}),
      Doc(<<2, 4, 3>>, <<>>, <<>>, "ann", "g", {}),
      Doc(<<4>>, <<>>, <<1>>, "bob", "f", {"media"})>>,
    <<Doc(<<3, 2, 1>>, <<>>, <<1>>, "bob", "f", {}),
      Doc(<<1, 2, 3>>, <<2>>, <<>>, "ann", "f", {"media"}),
      Doc(<<2>>, <<>>, <<>>, "ann", "g", {})>>}
TypedTokens ==
    {Term(1), Term(2), Term(3), Without(Term(2)), Phrase(<<1, 2>>, 0),
     Op("OR"), Op("AND"), Op("NOT"), Open, Close,
     FieldTerm(1), Filter("from", "ann"), Without(Filter("is", "media"))}
NoScopeOrFolder == {{}, {"f"}}
StopFour == {4}
ThreeStartsFour == [w \in 1..4 |-> IF w = 3 THEN {4} ELSE {}]

VARIABLES
    part,
    at, folder, rev, pages, step, steps, source, build2, stream,
    mark, repair, shown, reel, edits,
    asked, typed, table, written, prov, load, tab, worker

CONSTANT Empty

folderVars == <<at, folder, rev, pages, step, steps, source, build2, stream>>
mediaVars == <<mark, repair, shown, reel, edits>>
sessionVars == <<asked, typed, table, written, prov, load, tab, worker>>

Folder == INSTANCE FolderSource WITH
            Docs <- 1..3, Folders <- {"f", "h"}, Chosen <- {"f"}, Limit <- 2, PageSize <- 1,
            MaxWalk <- 1, Operations <- {"put", "clear"}, MaxWrites <- 2, MaxExports <- 1,
            revision <- rev, write <- step, writes <- steps, build <- build2

SecondHasMost == [d \in 1..3 |-> IF d = 2 THEN 2 ELSE 1]
Gallery == INSTANCE MediaSource WITH
             Docs <- 1..3, Photos <- SecondHasMost, Limit <- 2, MaxWrites <- 1,
             source <- shown, stream <- reel, writes <- edits

Session == INSTANCE SearchSession WITH
             Queries <- {"q1", "q2"}, Totals <- <<1, 2>>, Limit <- 1,
             Failing <- {"query"}, MaxTyped <- 2, MaxWrites <- 1, MaxWarms <- 1,
             query <- asked

(* The parts that rest begin in one of their initial states.                 *)
TablesInit ==
    /\ Init /\ Folder!Init /\ QueryInit /\ Gallery!MediaInit /\ Session!Init
    /\ part \in {"captures", "folder", "query", "gallery", "session"}
    /\ part # "captures" => counted = 0
    /\ part # "query" => Len(corpus) = 3
    /\ part # "gallery" => mark = [d \in 1..3 |-> "none"]
    /\ part # "session" => tab.available

TablesNext ==
    /\ UNCHANGED part
    /\ part # "session" => UNCHANGED sessionVars
    /\ \/ part = "captures" /\ Next /\ UNCHANGED <<folderVars, queryVars, mediaVars>>
       \/ part = "folder" /\ Folder!Next /\ UNCHANGED <<vars, queryVars, mediaVars>>
       \/ part = "query" /\ QueryNext /\ UNCHANGED <<vars, folderVars, mediaVars>>
       \/ part = "gallery" /\ Gallery!MediaNext /\ UNCHANGED <<vars, folderVars, queryVars>>
       \/ /\ part = "session" /\ Session!Next
          /\ UNCHANGED <<vars, folderVars, queryVars, mediaVars>>

TablesSpec ==
    TablesInit /\ [][TablesNext]_<<part, vars, folderVars, queryVars, mediaVars, sessionVars>>

(* An export of folders or of a gallery, with nothing written, is whole.     *)
StreamIsWhole == Folder!StreamIsWhole /\ Gallery!MediaIsWhole

(* A search is current when it says ready, and none is left pending.         *)
ReadyIsCurrent == Session!ReadyIsCurrent
NoneLeftPending == Session!NoneLeftPending
=============================================================================

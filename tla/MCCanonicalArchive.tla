-------------------------- MODULE MCCanonicalArchive --------------------------
(***************************************************************************)
(* The archive, what a capture is in it, and how a browser is rebuilt from *)
(* it.  A behaviour follows one part while the others rest; they share no  *)
(* state, but for the archive that is rebuilt from:                        *)
(*   archive    two client streams and a set of batches in which each      *)
(*              refusal of commit() has a batch that meets it;             *)
(*   rebuild    one tab, and the same streams; each key a row of its own;  *)
(*   writes     a tweet and a user of one id, two modules of tweets, one   *)
(*              of users and one of custom items, two of which have one    *)
(*              data_key; the page is loaded again once, by either of two  *)
(*              accounts.                                                  *)
(***************************************************************************)
EXTENDS GenerationRebuild, CapturedWrites

CONSTANTS c1, c2, k1, k2, k3, m1, m2, m3, m4, m5, m6, m7, t1

MCTabs == {t1}
MCClients == {c1, c2}
MCKeys == {k1, k2, k3}
MCMutationIds == {m1, m2, m3, m4, m5, m6, m7}

Up(m, k) == [mid |-> m, key |-> k, kind |-> "upsert"]
Del(m, k) == [mid |-> m, key |-> k, kind |-> "tombstone"]
Batch(id, c, n, ms) == [id |-> id, client |-> c, from |-> n, muts |-> ms]

\* c1's stream: an upsert, then a deletion, then batches that come after it; one
\* identity with two contents; c2's stream reuses a mutation of c1 and may write
\* the key c1 deleted.
StreamBatches ==
  {Batch("b1", c1, 1, <<Up(m1, k1)>>),
   Batch("b2", c1, 2, <<Del(m2, k1)>>),
   Batch("b2", c1, 2, <<Up(m2, k2)>>),
   Batch("b3", c1, 3, <<Up(m3, k2), Up(m4, k1)>>),
   Batch("b3", c1, 3, <<Up(m3, k2), Up(m4, k2)>>),
   Batch("b4", c2, 1, <<Up(m5, k1), Up(m6, k3)>>),
   Batch("b4", c2, 1, <<Up(m5, k2), Del(m6, k2)>>),
   Batch("b5", c2, 1, <<Up(m1, k2)>>),
   Batch("b6", c2, 3, <<Del(m7, k2), Del(m4, k1)>>)}

KeyOrder == [k \in MCKeys |-> CASE k = k1 -> 1 [] k = k2 -> 2 [] OTHER -> 3]

\* A removed like comes back: its membership sorts after its tombstone.
Likes == [of |-> "membership", kind |-> "tweet", id |-> "1", ext |-> "likes"]

CapturedKinds ==
  [bookmarks |-> "tweet", likes |-> "tweet", followers |-> "user", events |-> "custom"]
CaptureModules == DOMAIN CapturedKinds
OneTarget == [i |-> "target", j |-> "target"]
AfterItsTombstone == {Likes}

VARIABLE part

ArchivesInit ==
  /\ part \in {"archive", "rebuild", "writes"}
  /\ RebuildInit /\ WritesInit

ArchivesNext ==
  /\ UNCHANGED part
  /\ \/ part = "archive" /\ Next /\ UNCHANGED <<tabVars, storageVars, writeVars>>
     \/ part = "rebuild" /\ RebuildNext /\ UNCHANGED writeVars
     \/ part = "writes" /\ WritesNext /\ UNCHANGED rebuildVars

ArchivesSpec == ArchivesInit /\ [][ArchivesNext]_<<part, rebuildVars, writeVars>>
=============================================================================

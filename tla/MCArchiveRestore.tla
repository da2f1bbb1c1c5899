--------------------------- MODULE MCArchiveRestore ---------------------------
(***************************************************************************)
(* One client stream whose batches a snapshot can be taken between.        *)
(***************************************************************************)
EXTENDS ArchiveRestore, TLC

CONSTANTS c1, k1, k2, k3, m1, m2, m3, m4, m5, r1, b1, b2, b3

MCStreams == {c1}
MCKeys == {k1, k2, k3}
MCMutationIds == {m1, m2, m3, m4, m5}
MCRank == (k1 :> 1) @@ (k2 :> 2) @@ (k3 :> 3)
MCEpochs == {r1}
EveryFailure == {"create", "restore"}

Up(m, k) == [mid |-> m, key |-> k, kind |-> "upsert"]
Del(m, k) == [mid |-> m, key |-> k, kind |-> "tombstone"]
Batch(id, c, n, ms) == [id |-> id, client |-> c, from |-> n, muts |-> ms]

\* After the first batch a snapshot holds k1 and k2; the later ones change k1, add
\* k3 and delete k2, before the switch or between the restore's batches.
OneHistory ==
  {Batch(b1, c1, 1, <<Up(m1, k1), Up(m2, k2)>>),
   Batch(b2, c1, 3, <<Up(m3, k1), Up(m4, k3)>>),
   Batch(b3, c1, 5, <<Del(m5, k2)>>)}
=============================================================================

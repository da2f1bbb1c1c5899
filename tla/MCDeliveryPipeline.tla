------------------------- MODULE MCDeliveryPipeline -------------------------
(***************************************************************************)
(* Operations of one and of two mutations on two state keys.               *)
(***************************************************************************)
EXTENDS DeliveryPipeline

CONSTANTS t1, t2, o1, o2, o3, stream, k1, k2

OneTab == {t1}
TwoTabs == {t1, t2}
TwoOps == {o1, o2}
ThreeOps == {o1, o2, o3}

NoFailures == {}
EveryFailure == {"acknowledge", "quarantine", "add", "setMetadata", "localWrite", "usage",
                 "markAttempt", "read"}

Up(m, k) == [mid |-> m, key |-> k, kind |-> "upsert"]

MCMutationIds == {"m1", "m2", "m3", "m4", "m5", "m6"}
MCKeys == {k1, k2}

\* A restore has taken k2 back, which another browser had captured.
NoHistory == <<>>
RestoredHistory ==
  <<[id |-> "other", client |-> "other", from |-> 1,
     muts |-> <<Up("m5", k2)>>],
    [id |-> "restore", client |-> "restore-agent", from |-> 1,
     muts |-> <<[mid |-> "m6", key |-> k2, kind |-> "tombstone"]>>]>>

\* o2 observes a record and its capture membership, hence two mutations.
MCMutationsOf ==
  [o \in Ops |-> CASE o = o1 -> <<Up("m1", k1)>>
                   [] o = o2 -> <<Up("m2", k1), Up("m3", k2)>>
                   [] OTHER -> <<Up("m4", k2)>>]
=============================================================================

------------------------- MODULE MCBrowserBootstrap -------------------------
(***************************************************************************)
(* Two tabs of a browser that bootstraps two batches and then captures one *)
(* operation, in an archive that is empty or that another client has       *)
(* written to.  Journal and companion fail, and a page is closed once.     *)
(***************************************************************************)
EXTENDS BrowserBootstrap, TLC

CONSTANTS t1, t2, o1, o2, o3, stream, k1, k2

TwoTabs == {t1, t2}
Symmetry == Permutations(TwoTabs)
ThreeOps == {o1, o2, o3}
FirstTwoOps == <<o1, o2>>
TwoKeys == {k1, k2}
MCMutationIds == {"m1", "m2", "m3", "m4", "m5"}

NoFailures == {}

Up(m, k) == [mid |-> m, key |-> k, kind |-> "upsert"]

MCMutationsOf ==
  [o \in Ops |-> CASE o = o1 -> <<Up("m1", k1), Up("m2", k2)>>
                   [] o = o2 -> <<Up("m3", k2)>>
                   [] OTHER -> <<Up("m4", k1)>>]

AnotherBrowser == <<[id |-> "other", client |-> "other", from |-> 1, muts |-> <<Up("m5", k2)>>]>>
=============================================================================

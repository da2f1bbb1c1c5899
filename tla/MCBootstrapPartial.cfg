CONSTANTS
  t1 = t1
  t2 = t2
  o1 = o1
  o2 = o2
  o3 = o3
  stream = stream
  k1 = k1
  k2 = k2
  NoOp = NoOp
  NoMessage = NoMessage
  NoPointer = NoPointer
  NoRecord = NoRecord
  Stream <- stream
  History <- AnotherBrowser
  Keys <- TwoKeys
  MutationIds <- MCMutationIds
  MutationsOf <- MCMutationsOf
  Tabs <- TwoTabs
  Ops <- ThreeOps
  BootstrapOps <- FirstTwoOps
  OutboxBound = 10
  Failures <- NoFailures
  MaxSequence = 5
  MaxCrashes = 1
SPECIFICATION BootSpec
INVARIANT NoPartialBootstrapActive
SYMMETRY Symmetry

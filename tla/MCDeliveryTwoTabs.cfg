CONSTANTS
  t1 = t1
  t2 = t2
  o1 = o1
  o2 = o2
  o3 = o3
  stream = stream
  k1 = k1
  k2 = k2
  NoOp = NoOp
  NoMessage = NoMessage
  NoRecord = NoRecord
  Stream <- stream
  History <- NoHistory
  Keys <- MCKeys
  MutationIds <- MCMutationIds
  MutationsOf <- MCMutationsOf
  Tabs <- TwoTabs
  Ops <- TwoOps
  OutboxBound = 10
  Failures <- NoFailures
  MaxSequence = 4
  MaxCrashes = 0
SPECIFICATION Spec
INVARIANT SequencesAssignedOnce

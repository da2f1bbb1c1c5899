CONSTANTS
  s1 = s1
  s2 = s2
  r1 = r1
  NoTab = NoTab
  Absent = Absent
  NoName = NoName
  NoSentinel = NoSentinel
  NoPointer = NoPointer
  t1 = t1
  t2 = t2
  o1 = o1
  o2 = o2
  o3 = o3
  stream = stream
  k1 = k1
  k2 = k2
  NoOp = NoOp
  NoMessage = NoMessage
  NoRecord = NoRecord
  SafetyTabs <- TwoOthers
  Records <- OneRecord
  MaxGenerations = 1
  MaxWipes = 2
  SpoolTabs <- TwoOthers
  EventCount = 2
  Poison = {}
  MaxRows = 1
  BatchSize = 2
  Stream <- stream
  History <- RestoredHistory
  Keys <- MCKeys
  MutationIds <- MCMutationIds
  MutationsOf <- MCMutationsOf
  Tabs <- OneTab
  Ops <- ThreeOps
  OutboxBound = 3
  Failures <- EveryFailure
  MaxSequence = 5
  MaxCrashes = 1
SPECIFICATION BrowserSpec
INVARIANTS
  ResolvedIsKept
  SequencesAssignedOnce
  OutboxContinuesStream
  OnlyConflictsQuarantined
  NothingLost
  LossIsGated
CHECK_DEADLOCK FALSE
SYMMETRY Symmetry

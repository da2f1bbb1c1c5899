CONSTANTS
  c1 = c1
  k1 = k1
  k2 = k2
  k3 = k3
  m1 = m1
  m2 = m2
  m3 = m3
  m4 = m4
  m5 = m5
  r1 = r1
  b1 = b1
  b2 = b2
  b3 = b3
  NoRecord = NoRecord
  NoImage = NoImage
  NoAgent = NoAgent
  Streams <- MCStreams
  Keys <- MCKeys
  MutationIds <- MCMutationIds
  Batches <- OneHistory
  Rank <- MCRank
  Epochs <- MCEpochs
  BatchLimit = 2
  MaxSnapshots = 2
  MaxChallenges = 1
  MaxCrashes = 1
  Failures <- EveryFailure
SPECIFICATION Spec
INVARIANT HistoryStaysExact
PROPERTIES
  RestoredShowsSnapshot
  RestoreKeepsAcknowledged
CHECK_DEADLOCK FALSE

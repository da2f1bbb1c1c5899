CONSTANTS
  c1 = c1
  c2 = c2
  k1 = k1
  k2 = k2
  k3 = k3
  m1 = m1
  m2 = m2
  m3 = m3
  m4 = m4
  m5 = m5
  m6 = m6
  m7 = m7
  t1 = t1
  NoPointer = NoPointer
  NoJournal = NoJournal
  NoDatabase = NoDatabase
  NoRecord = NoRecord
  Tabs <- MCTabs
  Generations = {"g1", "g2", "g3"}
  PageSize = 1
  Rank <- KeyOrder
  TableRows = {1, 2, 3}
  RowOf <- KeyOrder
  Clients <- MCClients
  Keys <- MCKeys
  MutationIds <- MCMutationIds
  Batches <- StreamBatches
  Viewers = {"owner", "other"}
  Owner = "owner"
  NoViewer = "none"
  NoExtension = "none"
  Extensions <- CaptureModules
  KindOf <- CapturedKinds
  Ids = {"1"}
  CustomItems = {"i", "j"}
  DataKey <- OneTarget
  Edges = {"e"}
  HashedAfter <- AfterItsTombstone
  MaxWrites = 3
  MaxLoads = 1
SPECIFICATION ArchivesSpec
INVARIANTS
  MutationsJournaledOnce
  ReceiptsProveJournal
  ChainVerifies
  StateIsJournalReplayed
  ActiveShowsHistory
  RebuildRestores
PROPERTIES
  TombstonesStay
  AcknowledgedStays

CONSTANTS
  t1 = t1
  t2 = t2
  f1 = f1
  f2 = f2
  r1 = r1
  NoTab = NoTab
  NoFolder = NoFolder
  Root = Root
  Elsewhere = Elsewhere
  Tabs <- TwoTabs
  Folders <- TwoFolders
  Entries <- LoadedOn
  Stricts <- MayBeStrict
  Hints <- ThreeHints
  Ways <- FourWays
  Requests = {r1}
  EventLimit = 2
SPECIFICATION CaptureSpec
INVARIANTS
  OneLeader
  RequestDecides
PROPERTIES
  SomeoneLeads
  LockIsReleased

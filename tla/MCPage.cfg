CONSTANTS
  MaxInFlight = 1
  Realms <- MCRealms
  StoredModes <- MCStoredModes
  FailureLimit = 2
  MaxWraps = 1
  Rows = {"r", "s"}
  MaxRuns = 1
  Bundles <- TwoBundles
  Files <- ThreeFiles
  Writers = {"settings", "viewer"}
  Viewer = "viewer"
  InitialPage = 1
  NextPage = 1
  MaxWrites = 2
  Tweets = {"t"}
  Users = {"u"}
  Folders = {"f", "g"}
  None = None
  Cached = {"f"}
  Requests <- XRequests
  MaxAnswers = 2
  MaxCaptures = 1
SPECIFICATION PageSpec
INVARIANTS
  FetchReachesNative
  SavedIsWhole
  ViewerShowsBundle
  MirrorFollows
PROPERTIES
  HookComesBack
  JobEndsWhole
  DownloadEndsWhole
CHECK_DEADLOCK FALSE

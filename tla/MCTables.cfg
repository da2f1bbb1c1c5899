CONSTANTS
  c1 = c1
  c2 = c2
  self = self
  other = other
  Captures <- TwoCaptures
  Tabs <- TwoTabs
  Self <- self
  Copies = 1
  Operations <- KeepingInvalidation
  MaxChanges = 1
  MaxScrolls = 1
  Empty = {}
  Tokens <- TypedTokens
  Corpora <- TwoCorpora
  Scopes <- NoScopeOrFolder
  StopWords <- StopFour
  Longer <- ThreeStartsFour
  MaxExpansions = 128
  MaxTokens = 4
SPECIFICATION TablesSpec
INVARIANTS
  IndexPagesExact
  RowsAreCurrent
  StreamIsWhole
  ExpressionIsStandard
  PruningKeepsRows
  ReadyIsCurrent
  NoneLeftPending
CHECK_DEADLOCK FALSE

CONSTANTS
  c1 = c1
  c2 = c2
  self = self
  other = other
  Captures <- TwoCaptures
  Tabs <- TwoTabs
  Self <- self
  Copies = 1
  Operations <- KeepingInvalidation
  MaxChanges = 1
  MaxScrolls = 2
  Empty = {3}
  Tokens <- TypedTokens
  Corpora <- TwoCorpora
  Scopes <- NoScopeOrFolder
  StopWords <- StopFour
  Longer <- ThreeStartsFour
  MaxExpansions = 128
  MaxTokens = 4
SPECIFICATION TablesSpec
INVARIANT StreamIsWhole
CHECK_DEADLOCK FALSE

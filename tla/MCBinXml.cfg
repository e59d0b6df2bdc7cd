SPECIFICATION Spec
CONSTANTS
  MaxTokens = 4
  MaxDepth = 3
  MaxFields = 4
  MaxTemplateInstances = 3
  TokenCap = 12
  Truncated <- MCTruncated
  Tokens <- MCTokens
  Records <- MCRecords
  Chunks <- MCChunks
INVARIANTS
  NoTemplateReentered
  NestingKept
PROPERTIES
  PathRestored
CHECK_DEADLOCK FALSE

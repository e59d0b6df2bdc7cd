\* Elements nested one deeper than max_depth.
SPECIFICATION Spec
CONSTANTS
  MaxTokens = 6
  MaxDepth = 2
  MaxFields = 4
  MaxTemplateInstances = 1
  TokenCap = 12
  Truncated <- MCTruncated
  Tokens <- MCTokens
  Records <- MCPlainRecords
  Chunks <- MCPlainChunks
INVARIANTS
  NestingEncoded
CHECK_DEADLOCK FALSE

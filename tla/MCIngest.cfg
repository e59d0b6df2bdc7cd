SPECIFICATION Spec
CONSTANTS
  MaxEntries = 1
  Artifacts <- MCArtifacts
  MaxElements = 2
  MaxParams = 2
  MaxExtensions = 2
  Requests <- MCRequests
  \* Sizes in units of 12 bytes, rounded.
  FileHeaderSize = 1
  ChunkSize = 10
  ChunkHeaderSize = 2
  RecordMinSize = 2
  RecordFraming = 3
  MaxChunks = 3
  MaxRecords = 2
  FileSizes = {1, 2, 11, 16, 21, 43}
  FreeOffsets = {0, 8, 10, 99}
  Sizes = {0, 2, 3, 4, 6}
  Ids = {0, 1}
  Stamps <- MCStamps
INVARIANTS
  NothingDisappears
  WarningsAccounted
  RecordsFramed
  FileOrder
  LossReported
PROPERTIES
  Terminates
CHECK_DEADLOCK FALSE

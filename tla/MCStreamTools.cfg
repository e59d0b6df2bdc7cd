CONSTANTS
  MaxMicros = 7
  MicrosPerSecond = 2
  MaxBuckets = 3
  MaxGaps = 2
  bucket_width_seconds = 1
  gap_threshold_seconds = 1
  MaxKeys = 2
  MaxSessions = 3
  idle_gap_seconds = 1
  MaxEvents = 4
  Events <- MCEvents
  MaxDistinctKeys = 3
  MaxCount = 3
  TopN = 2
  KeyOrder <- MCKeyOrder
  StatusClass <- MCStatusClass
  MessageShape <- MCMessageShape
SPECIFICATION Spec
INVARIANTS
  HistogramExact
  SessionsAreRuns
  GroupingSound
  CountersExact
CHECK_DEADLOCK FALSE

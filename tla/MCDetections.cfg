SPECIFICATION Spec
CONSTANTS
  MaxMicros = 9
  MicrosPerSecond = 1
  MaxEvents = 4
  Clock = {0, 2, 3}
  Events <- MCEvents
  Names <- MCNames
  cfg <- MCConfig
INVARIANTS
  ReportTotallyOrdered
  NoBurstUnreported
  NoScanUnreported
  EvidenceIsOfTheFinding
  SprayBacked
  RareExact
CHECK_DEADLOCK FALSE

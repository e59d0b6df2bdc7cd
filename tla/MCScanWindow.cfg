SPECIFICATION ScanSpec
CONSTANTS
  MaxMicros = 2
  MicrosPerSecond = 1
  MaxLen = 4
  Targets = {t1, t2, t3, t4}
  Observations <- MCSortedLists
  Configs <- MCScanConfigs
SYMMETRY TargetSymmetry
INVARIANTS
  FreqExact
  ScanAnswered
CHECK_DEADLOCK FALSE

\* Time-ordered groups: the loop against the abstract burst report.
SPECIFICATION FairSpec
CONSTANTS
  MaxMicros = 2
  MicrosPerSecond = 1
  MaxLen = 5
  Observations <- MCSortedLists
  Configs <- MCConfigs
INVARIANTS
  TypeOK
  BestSoFar
  NoBurstMissed
PROPERTIES
  ImplementsBurst
CHECK_DEADLOCK FALSE

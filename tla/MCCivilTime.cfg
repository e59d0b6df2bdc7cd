SPECIFICATION Spec
CONSTANTS
  Hours = 2
  Minutes = 2
  Seconds = 2
  FracDigits = 1
  MicrosSpan = 800000000
  YearSpan = 40000
  AssumeYear = 1972
  Texts <- MCTexts
INVARIANTS
  WalkExact
  TimesReadBack
  DatesKept
PROPERTIES
  WalkEnds
CHECK_DEADLOCK FALSE

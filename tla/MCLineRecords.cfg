\* max_depth 2: containers may stand in one another three deep.
SPECIFICATION Spec
CONSTANTS
  MaxDepth = 2
  MaxItems = 2
  MaxMembers = 2
  MaxTotalValues = 5
  Lines <- MCLines
  Integer <- MCInteger
  Fractional <- MCFractional
  Word <- MCWord
  TimeOf <- MCTimeOf
  MicrosPerSecond = 10
  MicrosSpan = 80
  CefLines <- MCCefLines
  KeyRuns <- MCKeyRuns
  Words <- MCWords
  Times <- MCTimes
  MaxExtensions = 2
  MaxFieldBytes = 20
  MaxU32 = 99
  MaxU64 = 9999
  MaxMicros = 4000
  MicrosPerMilli = 10
  Sent <- MCSent
INVARIANTS
  AcceptsExactly
  RoundTrips
  EveryLeafHasAField
  CefReadsBack
PROPERTIES
  ParsersReturn
CHECK_DEADLOCK FALSE

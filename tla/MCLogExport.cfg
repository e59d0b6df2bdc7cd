CONSTANTS
  Texts <- MCTexts
  Lower <- MCLower
  Number <- MCNumber
  Holds <- MCHolds
  MaxPredicates = 3
  Events <- MCEvents
  MaxEvents = 2
  Expressions <- MCExpressions
  OutKinds = {"csv", "ndjson", "xml"}
  Spelling <- MCSpelling
  IsoText <- MCIsoText
SPECIFICATION Spec
INVARIANTS
  ExportsWhatWasAsked
  AcceptsTheGrammar
  OrderingsSound
  CsvReadsBack
  NdjsonReadsBack
  ReimportKeeps
CHECK_DEADLOCK FALSE

\* What the spray finding's text says of the order of events.
SPECIFICATION Spec
CONSTANTS
  MaxMicros = 9
  MicrosPerSecond = 1
  MaxEvents = 4
  Clock = {0, 2, 3}
  Events <- MCLogins
  Names <- MCNames
  cfg <- MCConfig
INVARIANTS
  SprayFollowsBurst
CHECK_DEADLOCK FALSE

\* Two days, one row, both channels, a queue of one
CONSTANTS
  Channels <- MCChannels
  QueueSize = 1
  AlertCooldown = 1
  CooldownKeys = {"daily_summary", "circuit_breaker"}
  NoCooldown = {"circuit_breaker"}
  TicksPerDay = 6
  SummaryTime = 1
  MaxRows = 1
  MaxClock = 9
SPECIFICATION Spec
INVARIANTS TypeOK SettledIsListed ClosedIsQuiet
PROPERTIES QueuedIsTaken
CHECK_DEADLOCK FALSE

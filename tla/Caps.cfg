\* Live and paper strategies, the stop-loss, every disturbance: caps, halts, settlement
CONSTANTS
  lazy = lazy
  weather = weather
  m1 = m1
  m2 = m2
  loop = loop
  daily = daily
  ExchangeLive = TRUE
  Strategies = {lazy, weather}
  Markets = {m1}
  LiveStrategies = {lazy}
  DedupStrategies = {weather}
  MaxConcurrentPositions = 2
  MaxConcurrentPerStrategy = 0
  MaxDailyPositions = 3
  MaxDailyLoss = 1
  MaxPosition = 1
  MinPosition = 0
  TierCap <- MCWideTier
  MaxMarketExposure = 0
  Category <- MCCategory
  NoCategory = "none"
  MaxCategoryPct = 100
  Reviewers = {loop}
  StopLossRuns = TRUE
  Disturbances = {"restart", "lost_reply", "fast_final", "manual_trip"}
  Stakes = {1}
  WinGain = 1
  MaxRows = 3
  MaxDay = 1
  MaxShort = 1
SPECIFICATION FairSpec
INVARIANTS TypeOK ConcurrentCap NoDuplicateHolding
PROPERTIES HaltedDayAdmitsNothing LossHalts FinalIsSettled
CHECK_DEADLOCK FALSE

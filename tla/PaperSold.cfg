\* A paper strategy on a live exchange, with the stop-loss
CONSTANTS
  lazy = lazy
  weather = weather
  m1 = m1
  m2 = m2
  loop = loop
  daily = daily
  ExchangeLive = TRUE
  Strategies = {lazy, weather}
  Markets = {m1}
  LiveStrategies = {lazy}
  DedupStrategies = {}
  MaxConcurrentPositions = 2
  MaxConcurrentPerStrategy = 0
  MaxDailyPositions = 3
  MaxDailyLoss = 9
  MaxPosition = 1
  MinPosition = 0
  TierCap <- MCWideTier
  MaxMarketExposure = 0
  Category <- MCCategory
  NoCategory = "none"
  MaxCategoryPct = 100
  Reviewers = {loop}
  StopLossRuns = TRUE
  Disturbances = {}
  Stakes = {1}
  WinGain = 1
  MaxRows = 2
  MaxDay = 1
  MaxShort = 0
SPECIFICATION Spec
PROPERTY PaperStaysOffExchange
CHECK_DEADLOCK FALSE

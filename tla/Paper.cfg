\* A paper exchange: tiers, categories, two reviewers, a new day, restarts
CONSTANTS
  lazy = lazy
  weather = weather
  m1 = m1
  m2 = m2
  loop = loop
  daily = daily
  ExchangeLive = FALSE
  Strategies = {lazy, weather}
  Markets = {m1, m2}
  LiveStrategies = {}
  DedupStrategies = {lazy}
  MaxConcurrentPositions = 3
  MaxConcurrentPerStrategy = 0
  MaxDailyPositions = 2
  MaxDailyLoss = 1
  MaxPosition = 2
  MinPosition = 1
  TierCap <- MCTierCap
  MaxMarketExposure = 2
  Category <- MCCategory
  NoCategory = "none"
  MaxCategoryPct = 70
  Reviewers = {loop, daily}
  StopLossRuns = TRUE
  Disturbances = {"restart"}
  Stakes = {2}
  WinGain = 1
  MaxRows = 3
  MaxDay = 2
  MaxShort = 0
SPECIFICATION Spec
INVARIANTS DailyEntriesCap
PROPERTIES SettledOnce
CHECK_DEADLOCK FALSE

\* Two live strategies, two markets, two days, no stop-loss: journal against account
CONSTANTS
  lazy = lazy
  weather = weather
  m1 = m1
  m2 = m2
  loop = loop
  daily = daily
  ExchangeLive = TRUE
  Strategies = {lazy, weather}
  Markets = {m1, m2}
  LiveStrategies = {lazy, weather}
  DedupStrategies = {}
  MaxConcurrentPositions = 2
  MaxConcurrentPerStrategy = 1
  MaxDailyPositions = 2
  MaxDailyLoss = 1
  MaxPosition = 2
  MinPosition = 0
  TierCap <- MCWideTier
  MaxMarketExposure = 3
  Category <- MCCategory
  NoCategory = "none"
  MaxCategoryPct = 100
  Reviewers = {loop}
  StopLossRuns = FALSE
  Disturbances = {}
  Stakes = {2}
  WinGain = 1
  MaxRows = 3
  MaxDay = 2
  MaxShort = 0
SPECIFICATION Spec
INVARIANTS MarketExposureCap AccountAgrees DailyLossBounded StrategyCap
CHECK_DEADLOCK FALSE

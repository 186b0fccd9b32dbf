\* A live and a paper strategy, a poll whose reads may fail
CONSTANTS
  lazy = lazy
  weather = weather
  Strategies = {lazy, weather}
  LiveStrategies = {lazy}
  MaxScanGap = 0
  ErrorThreshold = 1
  ErrorWindow = 0
  Cooldown = 1
  MaxErrors = 1
SPECIFICATION FairSpec
INVARIANT TypeOK
PROPERTIES ShortStopsTrading AmpleResumes StallNoticed

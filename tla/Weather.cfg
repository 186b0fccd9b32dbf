\* One city and day on each exchange, forecasts that fail, raise and expire
CONSTANTS
  gfs = gfs
  noaa = noaa
  Sources = {gfs, noaa}
  Weight <- MCWeight
  UsOnly = {noaa}
  Reach = 2
  Cdf <- MCCdf
  MinBias = 1
  MaxDeviation = 9
  Exchanges = {"kalshi", "polymarket"}
  Boards <- MCBoards
  Series <- MCSeries
  Metric = "highest"
  IsUs = TRUE
  HourlySeries <- MCHourly
  TargetDay = 1
  Biases = {0, 1}
  MinEdge = 15
  AdjacentMinEdge = 10
  MaxEdge = 30
  MinProb = 20
  TradeAdjacent = TRUE
  MinLiquidity = 0
  MinVolume = 50
  MaxSpread = 10
  MinHours = 3
  MaxHours = 9
  EndsAt = 6
  Interval = 4
  ScanOnRun = TRUE
  RunTimes = {0, 2}
  Ttl = 2
  MaxNow = 4
  MaxFlights = 3
  Offsets = {2, 4, 6}
  ReplayStart = 1
  ReplayDeviation = 1
  Readings = {0, 2, 3}
  Fills = {100}
SPECIFICATION Spec
INVARIANTS TypeOK RunScanned ScanPaced PortfolioBelowOne HindsightNeverPays
CHECK_DEADLOCK FALSE

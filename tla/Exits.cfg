SPECIFICATION Spec
CONSTANTS
  Exchanges = {"kalshi", "polymarket"}
  Asked = 4
  SignalPrice = 50
  FillPrices = {20, 45}
  Bids = {0, 1, 20, 40}
  StopPct = 50
  Tranches = 2
  OffsetPct = 1
  MaxOrderRetries = 2
CHECK_DEADLOCK FALSE
INVARIANTS
  HoldingAgrees
  PnlIsCash
  NeverShort
  TranchesBounded

\* A report and a walk through pages, between five writes of the bot
CONSTANTS
  lazy = lazy
  weather = weather
  Strategies = {lazy, weather}
  Pnls <- MCPnls
  Width = 2
  PageSize = 1
  Window = 1
  MaxClock = 5
SYMMETRY MCSymmetry
SPECIFICATION Spec
INVARIANTS BooksAgree ReportConsistent PagesCover
CHECK_DEADLOCK FALSE

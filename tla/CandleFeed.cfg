\* A load and polls over the minutes 0 to 4; two trades in a minute suffice to
\* tell a candle in progress from a closed one.
CONSTANTS
  None = None
  CandleLimit = 3
  PollLimit = 2
  MaxMinute = 4
  MaxTrades = 2
  MaxLoads = 3
SPECIFICATION Spec
INVARIANTS
  SeriesShowsCandles
  ClosedCandlesAreFinal
PROPERTIES
  NeverGoesBack
CHECK_DEADLOCK FALSE

CONSTANTS
  btc = btc
  eth = eth
  Candles <- FewCandles
  Tick = 4
  FastPeriod = 1
  SlowPeriod = 2
  SlopePeriod = 1
  TrendThreshold = 20
  RangeThreshold = 5
  Lookback = 2
  MomentumPeriod = 1
  BreakoutBuffer = 1
  BreakdownBuffer = 1
  MinMomentum = 5
  AllowShort = TRUE
  EntryRegimes <- BothWays
  ExitRegimes <- ExitsUnknown
  StopLookback = 1
  StopBuffer = 1
  MinStop = 5
  MaxStop = 40
  TakeProfit = 2
  Steps = 10
  Pairs = {btc, eth}
  Configs <- Various
  ClassConfig <- ClassDefault
  MaxFrame = 4
SPECIFICATION Spec
INVARIANTS
  EntryExcludesExit
  SizedWithinBudget
  RaisesNearTick
  HistoryIndependent
  EntryNeverOnExit

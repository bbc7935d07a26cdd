CONSTANTS
  btc = btc
  eth = eth
  doge = doge
  Symbols = {btc, eth, doge}
  AllowedSymbols = {btc, eth}
  Notionals = {2, 3}
  Drawdowns <- FourDrawdowns
  MaxOrder = 2
  MaxSymbol = 4
  MaxTotal = 6
  MaxPeak = 10
  MaxDaily = 5
  AllowFutureLive = FALSE
  MaxBatch = 2
SPECIFICATION Spec
INVARIANTS
  SymbolExposureBounded
  TotalExposureBounded
  KillHolds
  ExitsPass
  RecordsAgree

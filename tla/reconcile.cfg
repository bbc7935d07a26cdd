SPECIFICATION Spec
CONSTANTS
  usdt = usdt
  long = long
  short = short
  Assets = {usdt}
  Positions = {long, short}
  Values = {0, 2, 3}
  ListedAtZero = {usdt}
  BalanceTolerance = 0
  PositionTolerance = 1
  MaxUpdates = 2
  MaxMissed = 1
  MaxAlerts = 2
SYMMETRY Sides
CHECK_DEADLOCK FALSE
INVARIANTS MatchedHidesNothing MismatchIsOwn
  MissedPositionIsCritical AlertsAccounted

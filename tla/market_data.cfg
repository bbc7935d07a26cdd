SPECIFICATION Spec
CONSTANTS
  slash = slash
  underscore = underscore
  Symbols = {slash, underscore}
  Timeframes = {"1m", "1M"}
  PathPart <- OnePart
  Lower <- InLowerCase
  Interval <- Lengths
  ChosenNames <- CuratedName
  Responses <- Answers
  MaxRetries = 1
  MaxRows = 3
  MaxWrites = 2
CHECK_DEADLOCK FALSE
INVARIANTS QualityIsContiguity OwnOrNothing QueriesKeepQuality
PROPERTY FetchEnds

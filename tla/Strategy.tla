------------------------------ MODULE Strategy ------------------------------
(***************************************************************************)
(* The deterministic strategy of libs/strategy as operators on a frame of  *)
(* candles: regime, breakout entry, exit, stop and size.  Prices are       *)
(* integers in units of which Tick make up 0.0001, the place that prices   *)
(* are rounded to; ratios of the configuration are in thousandths.         *)
(***************************************************************************)
EXTENDS Integers, Sequences, Functions

CONSTANTS
  Candles,        \* candles a frame may hold
  Tick,           \* price units in 0.0001
  FastPeriod, SlowPeriod, SlopePeriod, TrendThreshold, RangeThreshold,
  Lookback, MomentumPeriod, BreakoutBuffer, BreakdownBuffer, MinMomentum,
  AllowShort, EntryRegimes, ExitRegimes,
  StopLookback, StopBuffer, MinStop, MaxStop, TakeProfit,
  Steps           \* quantity steps in one unit of quantity

Regimes == {"bull", "bear", "range", "unknown"}

ASSUME StrategyAssumption ==
  /\ Candles \subseteq {c \in [high : Nat \ {0}, low : Nat \ {0}, close : Nat \ {0}] :
                          c.low <= c.close /\ c.close <= c.high}
  /\ Tick \in Nat \ {0} /\ Steps \in Nat \ {0}
  /\ FastPeriod \in Nat \ {0} /\ SlowPeriod \in Nat \ {0} /\ SlopePeriod \in Nat \ {0}
  /\ FastPeriod <= SlowPeriod
  /\ TrendThreshold \in Nat /\ RangeThreshold \in Nat \ {0}
  /\ RangeThreshold < TrendThreshold
  /\ Lookback \in Nat \ {0} /\ MomentumPeriod \in Nat \ {0}
  /\ BreakoutBuffer \in Nat /\ BreakdownBuffer \in Nat /\ MinMomentum \in Nat
  /\ AllowShort \in BOOLEAN
  /\ EntryRegimes \subseteq Regimes /\ ExitRegimes \subseteq Regimes
  /\ StopLookback \in Nat \ {0} /\ StopBuffer \in Nat
  /\ MinStop \in Nat \ {0} /\ MaxStop \in Nat /\ MinStop <= MaxStop
  /\ TakeProfit \in Nat \ {0}

\* True of the default configuration, not checked by the code: no regime both
\* allows entries and forces exits, thresholds are not all zero, and stops and
\* targets stay above zero.
ASSUME ConfigAssumption ==
  /\ EntryRegimes \cap ExitRegimes = {}
  /\ BreakoutBuffer + BreakdownBuffer > 0 /\ MinMomentum > 0
  /\ StopBuffer <= 1000
  /\ MaxStop * TakeProfit + MinStop <= 1000

-----------------------------------------------------------------------------
\* The candle k places before the last.
Back(f, k) == f[Len(f) - k]
Close(f) == Back(f, 0).close

\* num / den compared with a ratio in thousandths, for den > 0.
AtLeast(num, den, ratio) == num * 1000 >= ratio * den
AtMost(num, den, ratio) == num * 1000 <= ratio * den

\* x rounded half up to a multiple of unit.
RoundTo(x, unit) == ((2 * x + unit) \div (2 * unit)) * unit

Larger(a, b) == IF a >= b THEN a ELSE b
Smaller(a, b) == IF a <= b THEN a ELSE b

RegimeCandles == Larger(SlowPeriod, SlopePeriod + 1)
SignalCandles == Larger(Lookback, MomentumPeriod) + 1
RequiredCandles == Larger(Larger(RegimeCandles, SignalCandles), StopLookback)

ClosingSum(f, n) == SumFunction([k \in 0 .. n - 1 |-> Back(f, k).close])

\* (fast average - slow average) / slow average, as a fraction.
SpreadNum(f) == ClosingSum(f, FastPeriod) * SlowPeriod - ClosingSum(f, SlowPeriod) * FastPeriod
SpreadDen(f) == ClosingSum(f, SlowPeriod) * FastPeriod

Regime(f) ==
  LET prior == Back(f, SlopePeriod).close
      slope == Close(f) - prior
  IN CASE AtLeast(SpreadNum(f), SpreadDen(f), TrendThreshold)
          /\ AtLeast(slope, prior, TrendThreshold) -> "bull"
       [] AtMost(SpreadNum(f), SpreadDen(f), -TrendThreshold)
          /\ AtMost(slope, prior, -TrendThreshold) -> "bear"
       [] /\ AtMost(SpreadNum(f), SpreadDen(f), RangeThreshold)
          /\ AtLeast(SpreadNum(f), SpreadDen(f), -RangeThreshold)
          /\ AtMost(slope, prior, RangeThreshold)
          /\ AtLeast(slope, prior, -RangeThreshold) -> "range"
       [] OTHER -> "unknown"

\* Fault: the whole history is the range.
AboveHistory(f, buffer) ==
  \A k \in 1 .. Len(f) - 1 : AtLeast(Close(f) - Back(f, k).high, Back(f, k).high, buffer)

\* The close is at least buffer above every high, or below every low, of the
\* candles before the last.
AboveRange(f, buffer) ==
  \A k \in 1 .. Lookback : AtLeast(Close(f) - Back(f, k).high, Back(f, k).high, buffer)
BelowRange(f, buffer) ==
  \A k \in 1 .. Lookback : AtMost(Close(f) - Back(f, k).low, Back(f, k).low, -buffer)

Rising(f) ==
  LET base == Back(f, MomentumPeriod).close
  IN AtLeast(Close(f) - base, base, MinMomentum)
Falling(f) ==
  LET base == Back(f, MomentumPeriod).close
  IN AtMost(Close(f) - base, base, -MinMomentum)

EntersLong(f) ==
  Regime(f) \in EntryRegimes /\ AboveRange(f, BreakoutBuffer) /\ Rising(f)
EntersShort(f) ==
  /\ Regime(f) \in EntryRegimes /\ Regime(f) = "bear" /\ AllowShort
  /\ BelowRange(f, BreakoutBuffer) /\ Falling(f)

Entry(f) == IF EntersLong(f) THEN "long" ELSE IF EntersShort(f) THEN "short" ELSE "hold"

\* Fault: the branches of the two sides are swapped.
ExitOfShort(f) ==
  \/ Regime(f) \in ExitRegimes
  \/ AboveRange(f, BreakdownBuffer)
  \/ Rising(f)

\* The exit of a long position: the builder does not say which side is held.
Exit(f) ==
  \/ Regime(f) \in ExitRegimes
  \/ BelowRange(f, BreakdownBuffer)
  \/ Falling(f)

\* The entry price is read back from the signal's text, which is rounded.
EntryPrice(f) == RoundTo(Close(f), Tick)

Recent(f) == {Back(f, k) : k \in 0 .. StopLookback - 1}
LowestLow(candles) == (CHOOSE c \in candles : \A d \in candles : c.low <= d.low).low
HighestHigh(candles) == (CHOOSE c \in candles : \A d \in candles : c.high >= d.high).high

\* From the entry to beyond the lowest low or highest high of the lookback, in
\* thousandths of a price unit.
RawDistance(f, side) ==
  IF side = "long"
  THEN EntryPrice(f) * 1000 - LowestLow(Recent(f)) * (1000 - StopBuffer)
  ELSE HighestHigh(Recent(f)) * (1000 + StopBuffer) - EntryPrice(f) * 1000

\* Fault: the minimum distance is not applied.
StopDistanceUnbounded(f, side) ==
  Smaller(RawDistance(f, side), EntryPrice(f) * MaxStop)

\* The distance within the configured bounds.
StopDistance(f, side) ==
  LET raw == RawDistance(f, side)
      e == EntryPrice(f)
  IN CASE raw < e * MinStop -> e * MinStop
       [] raw > e * MaxStop -> e * MaxStop
       [] OTHER             -> raw

\* A price given in thousandths of a unit, rounded to whole units of a tick.
RoundPrice(x) == RoundTo(x, Tick * 1000) \div 1000

StopPrice(f, side) ==
  LET e == EntryPrice(f) * 1000
      d == StopDistance(f, side)
  IN RoundPrice(IF side = "long" THEN e - d ELSE e + d)
TargetPrice(f, side) ==
  LET e == EntryPrice(f) * 1000
      d == StopDistance(f, side) * TakeProfit
  IN RoundPrice(IF side = "long" THEN e + d ELSE e - d)

\* What StopPlan and SizingInput refuse, and too short a frame.
Unusable(f) ==
  \/ Len(f) < RegimeCandles \/ Len(f) < SignalCandles
  \/ /\ Entry(f) # "hold"
     /\ \/ Len(f) < StopLookback
        \/ EntryPrice(f) <= 0
        \/ StopPrice(f, Entry(f)) <= 0
        \/ TargetPrice(f, Entry(f)) <= 0
        \/ Entry(f) = "long" /\ StopPrice(f, "long") >= EntryPrice(f)
        \/ Entry(f) = "short" /\ StopPrice(f, "short") <= EntryPrice(f)

UnitRisk(f, side) ==
  IF side = "long" THEN EntryPrice(f) - StopPrice(f, side)
                   ELSE StopPrice(f, side) - EntryPrice(f)

\* SignalSnapshotSizingConfig: what the size of a position is taken from.
Limits == [equity : Nat \ {0}, fraction : 0 .. 1000, value : Nat \ {0}]

RiskBudget(l) == l.equity * l.fraction * Steps

\* Fault: the size is limited by the risk budget alone.
QuantityByRisk(f, side, l) == RiskBudget(l) \div (1000 * UnitRisk(f, side))

\* In steps, rounded down, within the risk budget and the largest value.
Quantity(f, side, l) ==
  Smaller(RiskBudget(l) \div (1000 * UnitRisk(f, side)),
          (l.value * Steps) \div EntryPrice(f))

\* The value of a quantity, rounded as money.
Notional(f, quantity) == RoundTo(quantity * EntryPrice(f), Tick * Steps) \div Steps
=============================================================================

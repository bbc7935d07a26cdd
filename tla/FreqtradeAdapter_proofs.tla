----------------------- MODULE FreqtradeAdapter_proofs -----------------------
(* Proofs about Strategy and FreqtradeAdapter.                             *)
EXTENDS FreqtradeAdapter, WellFoundedInduction, TLAPS

\* Division rounds down.
LEMMA Quotient ==
  ASSUME NEW a \in Int, NEW q \in Nat \ {0}
  PROVE  /\ a \div q \in Int
         /\ (a \div q) * q <= a
         /\ a < (a \div q) * q + q
  BY Z3

\* Where products compare strictly, the factors do.
LEMMA Cancel ==
  ASSUME NEW x \in Int, NEW y \in Int, NEW c \in Nat \ {0}, x * c < y * c
  PROVE  x < y
  <1>1. y <= x => y * c <= x * c
    BY Z3
  <1> QED
    BY <1>1, Z3

\* Dividing a multiple gives the factor back.
LEMMA ExactQuotient ==
  ASSUME NEW p \in Int, NEW q \in Nat \ {0}
  PROVE  (p * q) \div q = p
  <1> DEFINE r == (p * q) \div q
  <1>1. /\ r \in Int /\ r * q <= p * q /\ p * q < r * q + q
    BY Quotient
  <1> HIDE DEF r
  <1>2. r * q < (p + 1) * q /\ p * q < (r + 1) * q
    BY <1>1, Z3
  <1>3. r < p + 1 /\ p < r + 1
    BY <1>1, <1>2, Cancel
  <1> QED
    BY <1>1, <1>3 DEF r

\* A product with a larger factor is larger.
LEMMA Scale ==
  ASSUME NEW x \in Int, NEW y \in Int, NEW c \in Nat, x <= y
  PROVE  x * c <= y * c
  BY Z3

LEMMA Positive ==
  ASSUME NEW x \in Nat, NEW y \in Nat
  PROVE  /\ x * y \in Nat
         /\ x > 0 /\ y > 0 => x * y > 0
  BY Z3

\* A rounded value is at most half a unit away, and no natural number is
\* rounded below zero.
LEMMA Rounding ==
  ASSUME NEW x \in Int, NEW unit \in Nat \ {0}
  PROVE  /\ RoundTo(x, unit) \in Int
         /\ 2 * RoundTo(x, unit) <= 2 * x + unit
         /\ 2 * x < 2 * RoundTo(x, unit) + unit
         /\ x \in Nat => RoundTo(x, unit) \in Nat
  <1> DEFINE n == (2 * x + unit) \div (2 * unit)
  <1>1. 2 * unit \in Nat \ {0} /\ 2 * x + unit \in Int
    OBVIOUS
  <1>2. /\ n \in Int
        /\ n * (2 * unit) <= 2 * x + unit
        /\ 2 * x + unit < n * (2 * unit) + 2 * unit
    BY <1>1, Quotient
  <1>3. RoundTo(x, unit) = n * unit
    BY DEF RoundTo
  <1> HIDE DEF n
  <1>4. n * (2 * unit) = 2 * (n * unit) /\ n * unit \in Int
    BY <1>2, Z3
  <1>5. ASSUME x \in Nat PROVE n * unit \in Nat
    <2>1. (-1) * unit < n * unit
      BY <1>2, <1>4, <1>5
    <2>2. -1 < n
      BY <1>2, <2>1, Cancel
    <2> QED
      BY <1>2, <2>2, Positive
  <1> QED
    BY <1>2, <1>3, <1>4, <1>5

-----------------------------------------------------------------------------
\* Nat is well-ordered: what replaces induction below.
LEMMA LeastNatural ==
  ASSUME NEW T \in SUBSET Nat, T # {}
  PROVE  \E x \in T : \A y \in T : x <= y
  <1> DEFINE R == {s \in Nat \X Nat : s[1] < s[2]}
  <1>1. R = OpToRel(<, Nat)
    BY DEF OpToRel
  <1>2. IsWellFoundedOn(R, Nat)
    BY <1>1, NatLessThanWellFounded
  <1>3. PICK x \in T : \A y \in T : ~(<<y, x>> \in R)
    BY <1>2, WFMin
  <1>4. \A y \in T : ~(y < x)
    BY <1>3
  <1> QED
    BY <1>4

\* Some candle of a lookback has the lowest low.
LEMMA Lowest ==
  ASSUME NEW n \in Nat \ {0}, NEW g, \A k \in 0 .. n - 1 : g[k] \in Nat
  PROVE  \E i \in 0 .. n - 1 : \A k \in 0 .. n - 1 : g[i] <= g[k]
  <1> DEFINE T == {g[k] : k \in 0 .. n - 1}
  <1>1. T \in SUBSET Nat /\ g[0] \in T
    OBVIOUS
  <1>2. PICK x \in T : \A y \in T : x <= y
    BY <1>1, LeastNatural
  <1> QED
    BY <1>2

\* Some candle of a lookback has the highest high.
LEMMA Highest ==
  ASSUME NEW n \in Nat \ {0}, NEW g, \A k \in 0 .. n - 1 : g[k] \in Nat
  PROVE  \E i \in 0 .. n - 1 : \A k \in 0 .. n - 1 : g[i] >= g[k]
  <1> DEFINE Top(m) == \E i \in 0 .. m : \A k \in 0 .. m : g[i] >= g[k]
             T == {m \in 0 .. n - 1 : ~Top(m)}
  <1>0. /\ T \in SUBSET Nat
        /\ \A m \in Nat : m \in T <=> m \in 0 .. n - 1 /\ ~Top(m)
        /\ n - 1 \in Nat /\ n - 1 \in 0 .. n - 1
    OBVIOUS
  <1> HIDE DEF T
  <1>1. CASE T = {}
    BY <1>0, <1>1
  <1>2. CASE T # {}
    <2>1. PICK m \in T : \A y \in T : m <= y
      BY <1>0, <1>2, LeastNatural
    <2>0. m \in 0 .. n - 1 /\ ~Top(m)
      BY <1>0, <2>1
    <2>2. m # 0
      <3>1. \A k \in 0 .. 0 : k = 0
        OBVIOUS
      <3>2. Top(0)
        BY <3>1
      <3> QED
        BY <2>0, <3>2
    <2>3. m - 1 \in 0 .. n - 1 /\ m - 1 \in Nat /\ ~(m <= m - 1)
      BY <2>0, <2>2
    <2>4. Top(m - 1)
      BY <1>0, <2>1, <2>3
    <2>5. PICK i \in 0 .. m - 1 : \A k \in 0 .. m - 1 : g[i] >= g[k]
      BY <2>4
    <2>6. g[i] \in Nat /\ g[m] \in Nat /\ i \in 0 .. m
      BY <2>0, <2>5
    <2>7. CASE g[i] >= g[m]
      <3>1. \A k \in 0 .. m : k \in 0 .. m - 1 \/ k = m
        BY <2>0
      <3>2. \A k \in 0 .. m : g[i] >= g[k]
        BY <2>5, <2>7, <3>1
      <3>3. Top(m)
        BY <2>6, <3>2
      <3> QED
        BY <2>0, <3>3
    <2>8. CASE g[m] > g[i]
      <3>1. \A k \in 0 .. m : k \in 0 .. m - 1 \/ k = m
        BY <2>0
      <3>2. \A k \in 0 .. m - 1 : g[k] \in Nat
        BY <2>0
      <3>3. \A k \in 0 .. m : g[m] >= g[k]
        BY <2>5, <2>6, <2>8, <3>1, <3>2
      <3>4. m \in 0 .. m
        BY <2>0
      <3>5. Top(m)
        BY <3>3, <3>4
      <3> QED
        BY <2>0, <3>5
    <2> QED
      BY <2>6, <2>7, <2>8
  <1> QED
    BY <1>1, <1>2

-----------------------------------------------------------------------------
LEMMA FrameLength ==
  ASSUME NEW f \in Frames
  PROVE  Len(f) \in Nat \ {0} /\ \A i \in 1 .. Len(f) : f[i] \in Candles
  <1>1. PICK n \in 1 .. MaxFrame : f \in [1 .. n -> Candles]
    BY DEF Frames
  <1>2. f \in Seq(Candles) /\ Len(f) = n
    BY <1>1, AdapterAssumption
  <1> QED
    BY <1>1, <1>2, AdapterAssumption

LEMMA BackIsCandle ==
  ASSUME NEW f \in Frames, NEW k \in Nat, k < Len(f)
  PROVE  /\ Back(f, k).high \in Nat \ {0}
         /\ Back(f, k).low \in Nat \ {0}
         /\ Back(f, k).close \in Nat \ {0}
         /\ Back(f, k).low <= Back(f, k).close
         /\ Back(f, k).close <= Back(f, k).high
  <1>1. Len(f) - k \in 1 .. Len(f)
    BY FrameLength
  <1>2. f[Len(f) - k] \in Candles
    BY <1>1, FrameLength
  <1> QED
    BY <1>2, StrategyAssumption DEF Back

\* An entry price is a natural number near the last close.
LEMMA EntryPriceType ==
  ASSUME NEW f \in Frames
  PROVE  EntryPrice(f) \in Nat
  <1>1. Close(f) \in Nat \ {0}
    BY BackIsCandle, FrameLength DEF Close
  <1>2. Tick \in Nat \ {0}
    BY StrategyAssumption
  <1> QED
    BY <1>1, <1>2, Rounding DEF EntryPrice

\* A frame no hook raises on is long enough for every period.
LEMMA UsableLength ==
  ASSUME NEW f \in Frames, ~Unusable(f)
  PROVE  /\ FastPeriod <= Len(f) /\ SlowPeriod <= Len(f) /\ SlopePeriod < Len(f)
         /\ Lookback < Len(f) /\ MomentumPeriod < Len(f)
         /\ Entry(f) # "hold" => StopLookback <= Len(f)
  BY FrameLength, StrategyAssumption
     DEF Unusable, RegimeCandles, SignalCandles, Larger

\* Nothing both enters a long position and leaves it.
LEMMA NoEntryWithExit ==
  ASSUME NEW f \in Frames, ~Unusable(f), Entry(f) = "long"
  PROVE  ~Exit(f)
  <1>1. /\ 1 \in 1 .. Lookback /\ 1 < Len(f)
        /\ MomentumPeriod < Len(f) /\ MomentumPeriod \in Nat
        /\ BreakoutBuffer \in Nat /\ BreakdownBuffer \in Nat /\ MinMomentum \in Nat \ {0}
        /\ BreakoutBuffer > 0 \/ BreakdownBuffer > 0
    BY UsableLength, FrameLength, StrategyAssumption, ConfigAssumption
  <1>2. Regime(f) \in EntryRegimes /\ AboveRange(f, BreakoutBuffer) /\ Rising(f)
    BY DEF Entry, EntersLong
  <1>3. Regime(f) \notin ExitRegimes
    BY <1>2, ConfigAssumption
  <1>4. Close(f) \in Nat \ {0}
    BY BackIsCandle, FrameLength DEF Close
  <1>5. ~BelowRange(f, BreakdownBuffer)
    <2> DEFINE high == Back(f, 1).high
               low == Back(f, 1).low
    <2>1. high \in Nat \ {0} /\ low \in Nat \ {0} /\ low <= high
      BY <1>1, BackIsCandle
    <2>2. (Close(f) - high) * 1000 >= BreakoutBuffer * high
      BY <1>1, <1>2 DEF AboveRange, AtLeast
    <2>3. SUFFICES ASSUME (Close(f) - low) * 1000 <= (-BreakdownBuffer) * low
                   PROVE  FALSE
      BY <1>1 DEF BelowRange, AtMost
    <2> HIDE DEF high, low
    <2>4. /\ BreakoutBuffer * high \in Nat /\ BreakdownBuffer * low \in Nat
          /\ BreakoutBuffer > 0 => BreakoutBuffer * high > 0
          /\ BreakdownBuffer > 0 => BreakdownBuffer * low > 0
      BY <1>1, <2>1, Positive
    <2>5. (-BreakdownBuffer) * low = -(BreakdownBuffer * low)
      BY <1>1, <2>1, Z3T(30)
    <2> QED
      BY <1>1, <1>4, <2>1, <2>2, <2>3, <2>4, <2>5
  <1>6. ~Falling(f)
    <2> DEFINE base == Back(f, MomentumPeriod).close
    <2>1. base \in Nat \ {0}
      BY <1>1, BackIsCandle
    <2>2. (Close(f) - base) * 1000 >= MinMomentum * base
      BY <1>2 DEF Rising, AtLeast
    <2>3. SUFFICES ASSUME (Close(f) - base) * 1000 <= (-MinMomentum) * base
                   PROVE  FALSE
      BY DEF Falling, AtMost
    <2> HIDE DEF base
    <2>4. MinMomentum * base \in Nat /\ MinMomentum * base > 0
      BY <1>1, <2>1, Positive
    <2>5. (-MinMomentum) * base = -(MinMomentum * base)
      BY <1>1, <2>1, Z3
    <2> QED
      BY <1>4, <2>1, <2>2, <2>3, <2>4, <2>5
  <1> QED
    BY <1>3, <1>5, <1>6 DEF Exit

-----------------------------------------------------------------------------
LEMMA RawDistanceType ==
  ASSUME NEW f \in Frames, NEW side \in {"long", "short"}, StopLookback <= Len(f)
  PROVE  RawDistance(f, side) \in Int
  <1> DEFINE recent == Recent(f)
  <1>1. StopLookback \in Nat \ {0} /\ StopBuffer \in Nat /\ Len(f) \in Nat
    BY StrategyAssumption, FrameLength
  <1>2. \A k \in 0 .. StopLookback - 1 : k \in Nat /\ k < Len(f)
    BY <1>1
  <1>3. \A c \in recent : c.low \in Nat /\ c.high \in Nat
    BY <1>2, BackIsCandle DEF Recent
  <1>4. EntryPrice(f) \in Nat
    BY EntryPriceType
  <1>5. CASE side = "long"
    <2> DEFINE lows == [k \in 0 .. StopLookback - 1 |-> Back(f, k).low]
    <2>1. PICK i \in 0 .. StopLookback - 1 :
            \A k \in 0 .. StopLookback - 1 : lows[i] <= lows[k]
      <3>1. \A k \in 0 .. StopLookback - 1 : lows[k] \in Nat
        BY <1>3 DEF Recent
      <3> HIDE DEF lows
      <3> QED
        BY <1>1, <3>1, Lowest
    <2>2. \E c \in recent : \A d \in recent : c.low <= d.low
      BY <2>1 DEF Recent
    <2>3. (CHOOSE c \in recent : \A d \in recent : c.low <= d.low) \in recent
      BY <2>2
    <2>4. (CHOOSE c \in recent : \A d \in recent : c.low <= d.low).low \in Nat
      BY <1>3, <2>3
    <2> QED
      BY <1>1, <1>4, <1>5, <2>4 DEF RawDistance, LowestLow
  <1>6. CASE side = "short"
    <2> DEFINE highs == [k \in 0 .. StopLookback - 1 |-> Back(f, k).high]
    <2>1. PICK i \in 0 .. StopLookback - 1 :
            \A k \in 0 .. StopLookback - 1 : highs[i] >= highs[k]
      <3>1. \A k \in 0 .. StopLookback - 1 : highs[k] \in Nat
        BY <1>3 DEF Recent
      <3> HIDE DEF highs
      <3> QED
        BY <1>1, <3>1, Highest
    <2>2. \E c \in recent : \A d \in recent : c.high >= d.high
      BY <2>1 DEF Recent
    <2>3. (CHOOSE c \in recent : \A d \in recent : c.high >= d.high) \in recent
      BY <2>2
    <2>4. (CHOOSE c \in recent : \A d \in recent : c.high >= d.high).high \in Nat
      BY <1>3, <2>3
    <2> QED
      BY <1>1, <1>4, <1>6, <2>4 DEF RawDistance, HighestHigh
  <1> QED
    BY <1>5, <1>6

\* The distance keeps to its bounds, whatever the range was.
LEMMA StopDistanceBounds ==
  ASSUME NEW f \in Frames, NEW side \in {"long", "short"}, StopLookback <= Len(f)
  PROVE  /\ StopDistance(f, side) \in Nat
         /\ EntryPrice(f) * MinStop <= StopDistance(f, side)
         /\ StopDistance(f, side) <= EntryPrice(f) * MaxStop
  <1>1. EntryPrice(f) \in Nat /\ MinStop \in Nat /\ MaxStop \in Nat /\ MinStop <= MaxStop
    BY EntryPriceType, StrategyAssumption
  <1>2. /\ EntryPrice(f) * MinStop \in Nat /\ EntryPrice(f) * MaxStop \in Nat
        /\ EntryPrice(f) * MinStop <= EntryPrice(f) * MaxStop
    BY <1>1, Positive, Z3
  <1>3. RawDistance(f, side) \in Int
    BY RawDistanceType
  <1> QED
    BY <1>2, <1>3 DEF StopDistance

\* Prices are rounded by at most half a tick.
LEMMA PriceRounding ==
  ASSUME NEW x \in Int
  PROVE  /\ RoundPrice(x) \in Int
         /\ 2 * (RoundPrice(x) * 1000) <= 2 * x + Tick * 1000
         /\ 2 * x < 2 * (RoundPrice(x) * 1000) + Tick * 1000
  <1> DEFINE unit == Tick * 1000
             n == (2 * x + unit) \div (2 * unit)
  <1>1. Tick \in Nat \ {0} /\ unit \in Nat \ {0}
    BY StrategyAssumption
  <1>2. n \in Int
    BY <1>1, Quotient
  <1>3. RoundTo(x, unit) = n * unit
    BY DEF RoundTo
  <1>4. /\ RoundTo(x, unit) \in Int
        /\ 2 * RoundTo(x, unit) <= 2 * x + unit
        /\ 2 * x < 2 * RoundTo(x, unit) + unit
    BY <1>1, Rounding
  <1> HIDE DEF n
  <1>5. n * Tick \in Int /\ n * unit = (n * Tick) * 1000
    BY <1>1, <1>2, Z3
  <1>6. ((n * Tick) * 1000) \div 1000 = n * Tick
    BY <1>5
  <1>7. RoundPrice(x) = n * Tick
    BY <1>3, <1>5, <1>6 DEF RoundPrice
  <1> QED
    BY <1>3, <1>4, <1>5, <1>7

LEMMA PriceTypes ==
  ASSUME NEW f \in Frames, NEW side \in {"long", "short"}, StopLookback <= Len(f)
  PROVE  StopPrice(f, side) \in Int /\ TargetPrice(f, side) \in Int
  <1> DEFINE e == EntryPrice(f) * 1000
             d == StopDistance(f, side)
  <1>1. e \in Int /\ d \in Int /\ d * TakeProfit \in Int
    BY EntryPriceType, StopDistanceBounds, StrategyAssumption
  <1>2. /\ e - d \in Int /\ e + d \in Int
        /\ e - d * TakeProfit \in Int /\ e + d * TakeProfit \in Int
    BY <1>1
  <1>3. /\ StopPrice(f, side) \in {RoundPrice(e - d), RoundPrice(e + d)}
        /\ TargetPrice(f, side) \in {RoundPrice(e - d * TakeProfit),
                                     RoundPrice(e + d * TakeProfit)}
    BY DEF StopPrice, TargetPrice
  <1> HIDE DEF e, d
  <1>4. /\ RoundPrice(e - d) \in Int /\ RoundPrice(e + d) \in Int
        /\ RoundPrice(e - d * TakeProfit) \in Int /\ RoundPrice(e + d * TakeProfit) \in Int
    BY <1>2, PriceRounding
  <1> QED
    BY <1>3, <1>4

\* Away from the tick the stop is on its side of the entry, and every price
\* is positive.
LEMMA PricesInOrder ==
  ASSUME NEW f \in Frames, NEW side \in {"long", "short"}, StopLookback <= Len(f),
         2 * EntryPrice(f) * MinStop > Tick * 1000
  PROVE  /\ EntryPrice(f) > 0 /\ StopPrice(f, side) > 0 /\ TargetPrice(f, side) > 0
         /\ side = "long" => StopPrice(f, side) < EntryPrice(f)
         /\ side = "short" => StopPrice(f, side) > EntryPrice(f)
  <1> DEFINE e == EntryPrice(f)
             d == StopDistance(f, side)
  <1>1. /\ e \in Nat /\ Tick \in Nat \ {0} /\ MinStop \in Nat \ {0} /\ MaxStop \in Nat
        /\ TakeProfit \in Nat \ {0} /\ MaxStop * TakeProfit + MinStop <= 1000
    BY EntryPriceType, StrategyAssumption, ConfigAssumption
  <1>2. d \in Nat /\ e * MinStop <= d /\ d <= e * MaxStop
    BY StopDistanceBounds
  <1>3. 2 * (e * MinStop) > Tick * 1000
    <2>1. 2 * e * MinStop = 2 * (e * MinStop)
      BY <1>1, Z3
    <2> QED
      BY <2>1
  <1>4. /\ side = "long" => StopPrice(f, side) = RoundPrice(e * 1000 - d)
        /\ side = "short" => StopPrice(f, side) = RoundPrice(e * 1000 + d)
    BY DEF StopPrice
  <1>5. /\ side = "long" => TargetPrice(f, side) = RoundPrice(e * 1000 + d * TakeProfit)
        /\ side = "short" => TargetPrice(f, side) = RoundPrice(e * 1000 - d * TakeProfit)
    BY DEF TargetPrice
  <1> HIDE DEF e, d
  <1>6. e > 0
    BY <1>1, <1>3, Z3
  <1>7. /\ d * TakeProfit \in Nat
        /\ d * TakeProfit <= (e * MaxStop) * TakeProfit
        /\ d <= d * TakeProfit
    BY <1>1, <1>2, Positive, Scale, Z3
  <1>8. (e * MaxStop) * TakeProfit + e * MinStop <= e * 1000
    <2>1. MaxStop * TakeProfit + MinStop \in Int /\ MaxStop * TakeProfit \in Int
      BY <1>1, Positive
    <2>2. (MaxStop * TakeProfit + MinStop) * e <= 1000 * e
      BY <1>1, <2>1, Scale
    <2>3. (MaxStop * TakeProfit + MinStop) * e = (e * MaxStop) * TakeProfit + e * MinStop
      BY <1>1, <2>1, Z3
    <2> QED
      BY <1>1, <2>2, <2>3
  <1>9. /\ (e * MaxStop) * TakeProfit \in Nat /\ e * MinStop \in Nat
    BY <1>1, Positive
  <1>10. /\ StopPrice(f, side) > 0
         /\ side = "long" => StopPrice(f, side) < e
         /\ side = "short" => StopPrice(f, side) > e
    <2>1. CASE side = "long"
      <3> DEFINE x == e * 1000 - d
      <3>1. x \in Int /\ StopPrice(f, side) = RoundPrice(x)
        BY <1>1, <1>2, <1>4, <2>1
      <3>2. 2 * x > Tick * 1000 /\ 2 * x + Tick * 1000 < 2 * (e * 1000)
        BY <1>1, <1>2, <1>3, <1>7, <1>8, <1>9
      <3> HIDE DEF x
      <3>3. /\ RoundPrice(x) \in Int
            /\ 2 * (RoundPrice(x) * 1000) <= 2 * x + Tick * 1000
            /\ 2 * x < 2 * (RoundPrice(x) * 1000) + Tick * 1000
        BY <3>1, PriceRounding
      <3> QED
        BY <1>1, <2>1, <3>1, <3>2, <3>3
    <2>2. CASE side = "short"
      <3> DEFINE x == e * 1000 + d
      <3>1. x \in Int /\ StopPrice(f, side) = RoundPrice(x)
        BY <1>1, <1>2, <1>4, <2>2
      <3>2. 2 * x > Tick * 1000 + 2 * (e * 1000)
        BY <1>1, <1>2, <1>3, <1>9
      <3> HIDE DEF x
      <3>3. /\ RoundPrice(x) \in Int
            /\ 2 * (RoundPrice(x) * 1000) <= 2 * x + Tick * 1000
            /\ 2 * x < 2 * (RoundPrice(x) * 1000) + Tick * 1000
        BY <3>1, PriceRounding
      <3> QED
        BY <1>1, <1>6, <2>2, <3>1, <3>2, <3>3
    <2> QED
      BY <2>1, <2>2
  <1>11. TargetPrice(f, side) > 0
    <2>1. CASE side = "long"
      <3> DEFINE x == e * 1000 + d * TakeProfit
      <3>1. x \in Int /\ TargetPrice(f, side) = RoundPrice(x)
        BY <1>1, <1>5, <1>7, <2>1
      <3>2. 2 * x > Tick * 1000
        BY <1>1, <1>2, <1>3, <1>7, <1>9
      <3> HIDE DEF x
      <3>3. /\ RoundPrice(x) \in Int
            /\ 2 * (RoundPrice(x) * 1000) <= 2 * x + Tick * 1000
            /\ 2 * x < 2 * (RoundPrice(x) * 1000) + Tick * 1000
        BY <3>1, PriceRounding
      <3> QED
        BY <1>1, <3>1, <3>2, <3>3
    <2>2. CASE side = "short"
      <3> DEFINE x == e * 1000 - d * TakeProfit
      <3>1. x \in Int /\ TargetPrice(f, side) = RoundPrice(x)
        BY <1>1, <1>5, <1>7, <2>2
      <3>2. 2 * x > Tick * 1000
        BY <1>1, <1>3, <1>7, <1>8, <1>9
      <3> HIDE DEF x
      <3>3. /\ RoundPrice(x) \in Int
            /\ 2 * (RoundPrice(x) * 1000) <= 2 * x + Tick * 1000
            /\ 2 * x < 2 * (RoundPrice(x) * 1000) + Tick * 1000
        BY <3>1, PriceRounding
      <3> QED
        BY <1>1, <3>1, <3>2, <3>3
    <2> QED
      BY <2>1, <2>2
  <1> QED
    BY <1>6, <1>10, <1>11 DEF e

\* A hook raises only for the reasons RaisesNearTick names.
LEMMA UnusableReasons ==
  ASSUME NEW f \in Frames, Unusable(f)
  PROVE  Len(f) < RequiredCandles \/ 2 * EntryPrice(f) * MinStop <= Tick * 1000
  <1>1. /\ Len(f) \in Nat /\ RegimeCandles \in Nat /\ SignalCandles \in Nat
        /\ StopLookback \in Nat
    BY FrameLength, StrategyAssumption DEF RegimeCandles, SignalCandles, Larger
  <1>2. /\ RegimeCandles <= RequiredCandles /\ SignalCandles <= RequiredCandles
        /\ StopLookback <= RequiredCandles /\ RequiredCandles \in Nat
    BY <1>1 DEF RequiredCandles, Larger
  <1>3. 2 * EntryPrice(f) * MinStop \in Nat /\ Tick * 1000 \in Nat
    BY EntryPriceType, StrategyAssumption, Positive
  <1>4. SUFFICES ASSUME Len(f) >= RequiredCandles, 2 * EntryPrice(f) * MinStop > Tick * 1000
                 PROVE  FALSE
    BY <1>1, <1>2, <1>3
  <1>5. Entry(f) # "hold" /\ Entry(f) \in {"long", "short"} /\ StopLookback <= Len(f)
    BY <1>1, <1>2, <1>4 DEF Unusable, Entry
  <1>6. /\ EntryPrice(f) > 0 /\ StopPrice(f, Entry(f)) > 0 /\ TargetPrice(f, Entry(f)) > 0
        /\ Entry(f) = "long" => StopPrice(f, "long") < EntryPrice(f)
        /\ Entry(f) = "short" => StopPrice(f, "short") > EntryPrice(f)
    BY <1>4, <1>5, PricesInOrder
  <1>7. /\ EntryPrice(f) \in Int /\ StopPrice(f, Entry(f)) \in Int
        /\ TargetPrice(f, Entry(f)) \in Int
    BY <1>5, EntryPriceType, PriceTypes
  <1> QED
    BY <1>1, <1>2, <1>4, <1>5, <1>6, <1>7 DEF Unusable

-----------------------------------------------------------------------------
\* A product that is a quotient times its divisor stays below the dividend.
LEMMA WithinQuotient ==
  ASSUME NEW a \in Nat, NEW b \in Nat \ {0}, NEW q \in Int, q <= a \div b
  PROVE  q * b <= a /\ a \div b \in Nat
  <1>1. a \div b \in Int /\ (a \div b) * b <= a /\ a < (a \div b) * b + b
    BY Quotient
  <1>2. q * b <= (a \div b) * b
    BY <1>1, Scale
  <1>3. (-1) * b < (a \div b) * b
    BY <1>1
  <1>4. -1 < a \div b
    BY <1>1, <1>3, Cancel
  <1>5. q * b \in Int /\ (a \div b) * b \in Int
    BY <1>1
  <1> QED
    BY <1>1, <1>2, <1>4, <1>5

\* What sizing promises of a usable entry.
LEMMA Sizing ==
  ASSUME NEW f \in Frames, ~Unusable(f), NEW side \in {"long", "short"}, Entry(f) = side,
         NEW l \in Limits
  PROVE  /\ UnitRisk(f, side) \in Nat \ {0} /\ Quantity(f, side, l) \in Nat
         /\ EntryPrice(f) \in Nat \ {0}
         /\ Quantity(f, side, l) * UnitRisk(f, side) * 1000 <= RiskBudget(l)
         /\ Quantity(f, side, l) * EntryPrice(f) <= l.value * Steps
  <1>1. /\ EntryPrice(f) \in Nat \ {0} /\ StopPrice(f, side) \in Nat \ {0}
        /\ side = "long" => StopPrice(f, side) < EntryPrice(f)
        /\ side = "short" => StopPrice(f, side) > EntryPrice(f)
    <2>1. EntryPrice(f) \in Nat /\ StopPrice(f, side) \in Int
      BY EntryPriceType, PriceTypes, UsableLength
    <2> QED
      BY <2>1 DEF Unusable
  <1>2. UnitRisk(f, side) \in Nat \ {0}
    BY <1>1 DEF UnitRisk
  <1>3. /\ RiskBudget(l) \in Nat /\ l.value * Steps \in Nat
        /\ 1000 * UnitRisk(f, side) \in Nat \ {0}
    <2>1. l.equity \in Nat /\ l.fraction \in Nat /\ Steps \in Nat /\ l.value \in Nat
      BY StrategyAssumption DEF Limits
    <2>2. l.equity * l.fraction \in Nat /\ l.value * Steps \in Nat
      BY <2>1, Positive
    <2> QED
      BY <1>2, <2>1, <2>2, Positive DEF RiskBudget
  <1> DEFINE budget == RiskBudget(l)
             value == l.value * Steps
             r == UnitRisk(f, side)
             e == EntryPrice(f)
             q == Quantity(f, side, l)
  <1>4. q = Smaller(budget \div (1000 * r), value \div e)
    BY DEF Quantity
  <1> HIDE DEF budget, value, r, e, q
  <1>5. budget \div (1000 * r) \in Nat /\ value \div e \in Nat
    <2>1. budget \in Nat /\ value \in Nat /\ 1000 * r \in Nat \ {0} /\ e \in Nat \ {0}
      BY <1>1, <1>3 DEF budget, value, r, e
    <2>2. budget \div (1000 * r) \in Int /\ value \div e \in Int
      BY <2>1, Quotient
    <2> QED
      BY <2>1, <2>2, WithinQuotient
  <1>6. q \in Nat /\ q <= budget \div (1000 * r) /\ q <= value \div e
    BY <1>4, <1>5 DEF Smaller
  <1>7. q * (1000 * r) <= budget /\ q * e <= value
    <2>1. budget \in Nat /\ value \in Nat /\ 1000 * r \in Nat \ {0} /\ e \in Nat \ {0}
      BY <1>1, <1>3 DEF budget, value, r, e
    <2> QED
      BY <1>6, <2>1, WithinQuotient
  <1>8. q * (1000 * r) = q * r * 1000
    BY <1>2, <1>6, Z3 DEF r
  <1> QED
    BY <1>1, <1>2, <1>6, <1>7, <1>8 DEF budget, value, r, e, q

\* The notional is off by at most half a tick.
LEMMA NotionalRounding ==
  ASSUME NEW f \in Frames, NEW q \in Nat
  PROVE  /\ Notional(f, q) \in Nat
         /\ 2 * (Notional(f, q) * Steps - q * EntryPrice(f)) <= Tick * Steps
         /\ 2 * (q * EntryPrice(f) - Notional(f, q) * Steps) <= Tick * Steps
  <1> DEFINE x == q * EntryPrice(f)
             unit == Tick * Steps
             n == (2 * x + unit) \div (2 * unit)
  <1>1. /\ x \in Nat /\ Tick \in Nat \ {0} /\ Steps \in Nat \ {0} /\ unit \in Nat \ {0}
    BY EntryPriceType, StrategyAssumption, Positive
  <1>2. Notional(f, q) = RoundTo(x, unit) \div Steps /\ RoundTo(x, unit) = n * unit
    BY DEF Notional, RoundTo
  <1> HIDE DEF x, unit
  <1>3. /\ RoundTo(x, unit) \in Nat
        /\ 2 * RoundTo(x, unit) <= 2 * x + unit
        /\ 2 * x < 2 * RoundTo(x, unit) + unit
    BY <1>1, Rounding
  <1>4. n \in Int
    <2>1. 2 * x + unit \in Int /\ 2 * unit \in Nat \ {0}
      BY <1>1
    <2> QED
      BY <2>1, Quotient
  <1> HIDE DEF n
  <1>5. n * unit = (n * Tick) * Steps /\ n * Tick \in Int
    BY <1>1, <1>4, Z3 DEF unit
  <1> DEFINE p == n * Tick
  <1>6. (p * Steps) \div Steps = p /\ p \in Int
    <2> HIDE DEF p
    <2>1. p \in Int
      BY <1>5 DEF p
    <2> QED
      BY <1>1, <2>1, ExactQuotient
  <1>7. Notional(f, q) = p /\ RoundTo(x, unit) = p * Steps
    BY <1>2, <1>5, <1>6
  <1> HIDE DEF p
  <1>8. p \in Nat
    <2>1. (-1) * Steps < p * Steps
      BY <1>1, <1>3, <1>7
    <2>2. -1 < p
      BY <1>1, <1>6, <2>1, Cancel
    <2> QED
      BY <1>6, <2>2
  <1>9. /\ 2 * (p * Steps - x) <= unit
        /\ 2 * (x - p * Steps) <= unit
    BY <1>1, <1>3, <1>7
  <1> QED
    BY <1>7, <1>8, <1>9 DEF x, unit

-----------------------------------------------------------------------------
\* The decision in the cells is the one for this frame, pair and
\* configuration; it was taken on a usable frame; a hook raised for a reason.
DecisionIsOwn ==
  decision # None => /\ frame \in Frames /\ ~Unusable(frame)
                     /\ decision = Decide(frame, pair, config)

FailureHasReason == failed => frame \in Frames /\ (Unusable(frame) \/ NoSymbol)

IInv ==
  /\ TypeOK
  /\ hook # "idle" => frame \in Frames
  /\ DecisionIsOwn
  /\ FailureHasReason

LEMMA DecideType ==
  ASSUME NEW f \in Frames, ~Unusable(f), NEW p, NEW c \in AdapterConfigs
  PROVE  /\ Decide(f, p, c) \in NoTrades \cup Proposals
         /\ Decide(f, p, c) # None
  <1>1. Exit(f) \in BOOLEAN
    BY DEF Exit, BelowRange, Falling, AtMost
  <1>2. CASE p \notin c.symbols
    BY <1>1, <1>2 DEF Decide, NoTrade, NoTrades, None
  <1>3. CASE p \in c.symbols /\ (Entry(f) = "hold" \/ ~Sized(f, c.limits))
    BY <1>1, <1>3 DEF Decide, NoTrade, NoTrades, None
  <1>4. CASE p \in c.symbols /\ Entry(f) # "hold" /\ Sized(f, c.limits)
    <2>1. Entry(f) \in {"long", "short"}
      BY <1>4 DEF Entry
    <2>2. /\ EntryPrice(f) \in Nat /\ Quantity(f, Entry(f), c.limits) \in Nat
          /\ Notional(f, Quantity(f, Entry(f), c.limits)) \in Nat
      <3>1. c.limits \in Limits
        BY DEF AdapterConfigs
      <3> QED
        BY <2>1, <3>1, Sizing, NotionalRounding
    <2>3. StopPrice(f, Entry(f)) \in Nat /\ TargetPrice(f, Entry(f)) \in Nat
      <3>1. StopPrice(f, Entry(f)) \in Int /\ TargetPrice(f, Entry(f)) \in Int
        BY <2>1, UsableLength, PriceTypes
      <3> QED
        BY <1>4, <3>1 DEF Unusable
    <2>4. Proposal(f, c.limits) \in Proposals /\ Proposal(f, c.limits) # None
      BY <1>1, <2>1, <2>2, <2>3 DEF Proposal, Proposals, None
    <2> QED
      BY <1>4, <2>4 DEF Decide
  <1> QED
    BY <1>2, <1>3, <1>4

LEMMA CellTypes ==
  /\ NoCells \in [long : {0, 1}, short : {0}, tag : BOOLEAN]
  /\ \A d : EntryCells(d) \in [long : {0, 1}, short : {0}, tag : BOOLEAN]
  <1>1. NoCells \in [long : {0, 1}, short : {0}, tag : BOOLEAN]
    BY DEF NoCells
  <1>2. ASSUME NEW d
        PROVE  EntryCells(d) \in [long : {0, 1}, short : {0}, tag : BOOLEAN]
    <2>1. CASE d.kind = "proposal" /\ d.side = "long"
      BY <2>1 DEF EntryCells
    <2>2. CASE d.kind = "proposal" /\ d.side # "long"
      BY <2>2 DEF EntryCells
    <2>3. CASE d.kind # "proposal"
      BY <1>1, <2>3 DEF EntryCells
    <2> QED
      BY <2>1, <2>2, <2>3
  <1> QED
    BY <1>1, <1>2

LEMMA InitInv == Init => IInv
  <1>1. Init => TypeOK
    BY CellTypes DEF Init, TypeOK
  <1> QED
    BY <1>1 DEF Init, IInv, DecisionIsOwn, FailureHasReason

LEMMA RaiseInv ==
  ASSUME IInv, Raise, hook # "idle", Unusable(frame) \/ NoSymbol
  PROVE  IInv'
  <1>1. frame \in Frames
    BY DEF IInv
  <1>2. Unusable(frame)' = Unusable(frame) /\ NoSymbol' = NoSymbol
    BY DEF Raise, NoSymbol
  <1>3. TypeOK'
    BY DEF IInv, TypeOK, Raise
  <1>4. DecisionIsOwn'
    BY DEF IInv, DecisionIsOwn, Raise
  <1>5. FailureHasReason'
    BY <1>1, <1>2 DEF Raise, FailureHasReason
  <1> QED
    BY <1>3, <1>4, <1>5 DEF IInv, Raise

LEMMA DeliverInv ==
  ASSUME IInv, NEW p \in Pairs, NEW f \in Frames, Deliver(p, f)
  PROVE  IInv'
  BY DEF IInv, TypeOK, DecisionIsOwn, FailureHasReason, Deliver, None, NoCells

LEMMA IndicatorsInv ==
  ASSUME IInv, PopulateIndicators
  PROVE  IInv'
  <1>1. CASE Unusable(frame)
    BY <1>1, RaiseInv DEF PopulateIndicators
  <1>2. CASE ~Unusable(frame)
    <2>1. /\ frame \in Frames /\ decision' = Decide(frame, pair, config)
          /\ hook' = "entry" /\ UNCHANGED <<config, pair, frame, enter, failed>>
      BY <1>2 DEF PopulateIndicators, IInv
    <2>2. decision' \in NoTrades \cup Proposals /\ decision' # None
      BY <1>2, <2>1, DecideType, AdapterAssumption DEF IInv, TypeOK
    <2>3. TypeOK'
      BY <2>1, <2>2 DEF IInv, TypeOK
    <2>4. DecisionIsOwn'
      BY <1>2, <2>1 DEF DecisionIsOwn
    <2>5. FailureHasReason'
      BY <2>1 DEF IInv, FailureHasReason, NoSymbol
    <2> QED
      BY <2>1, <2>3, <2>4, <2>5 DEF IInv
  <1> QED
    BY <1>1, <1>2

LEMMA EntryInv ==
  ASSUME IInv, PopulateEntryTrend
  PROVE  IInv'
  <1>1. CASE Unusable(frame) \/ NoSymbol
    BY <1>1, RaiseInv DEF PopulateEntryTrend
  <1>2. CASE ~(Unusable(frame) \/ NoSymbol)
    <2>1. /\ frame \in Frames /\ decision' = Decide(frame, pair, config)
          /\ hook' = "exit" /\ UNCHANGED <<config, pair, frame, failed>>
          /\ enter' \in {NoCells, EntryCells(Decide(frame, TheSymbol, ClassConfig))}
      BY <1>2 DEF PopulateEntryTrend, IInv
    <2>2. decision' \in NoTrades \cup Proposals /\ decision' # None
      BY <1>2, <2>1, DecideType, AdapterAssumption DEF IInv, TypeOK
    <2>3. enter' \in [long : {0, 1}, short : {0}, tag : BOOLEAN]
      BY <2>1, CellTypes
    <2>4. TypeOK'
      BY <2>1, <2>2, <2>3 DEF IInv, TypeOK
    <2>5. DecisionIsOwn'
      BY <1>2, <2>1 DEF DecisionIsOwn
    <2>6. FailureHasReason'
      BY <2>1 DEF IInv, FailureHasReason, NoSymbol
    <2> QED
      BY <2>1, <2>4, <2>5, <2>6 DEF IInv
  <1> QED
    BY <1>1, <1>2

LEMMA ExitInv ==
  ASSUME IInv, PopulateExitTrend
  PROVE  IInv'
  BY DEF IInv, TypeOK, DecisionIsOwn, FailureHasReason, NoSymbol, PopulateExitTrend

LEMMA NextInv ==
  ASSUME IInv, [Next]_vars
  PROVE  IInv'
  <1>1. CASE Next
    BY <1>1, DeliverInv, IndicatorsInv, EntryInv, ExitInv DEF Next
  <1>2. CASE UNCHANGED vars
    BY <1>2 DEF IInv, TypeOK, DecisionIsOwn, FailureHasReason, NoSymbol, vars
  <1> QED
    BY <1>1, <1>2

LEMMA Inductive == Spec => []IInv
  BY InitInv, NextInv, PTL DEF Spec

\* Configuration, frame, decision and entry cells keep their types.
THEOREM TypeCorrect == Spec => []TypeOK
  <1>1. IInv => TypeOK
    BY DEF IInv
  <1> QED
    BY <1>1, Inductive, PTL

LEMMA ProposalOfFrame ==
  ASSUME IInv, decision.kind = "proposal"
  PROVE  /\ frame \in Frames /\ ~Unusable(frame) /\ decision = Proposal(frame, config.limits)
         /\ Entry(frame) \in {"long", "short"}
  <1>1. decision # None
    BY DEF None
  <1>2. /\ frame \in Frames /\ ~Unusable(frame)
        /\ decision = Decide(frame, pair, config)
    BY <1>1 DEF IInv, DecisionIsOwn
  <1>3. decision = Proposal(frame, config.limits) /\ Entry(frame) # "hold"
    BY <1>2 DEF Decide, NoTrade
  <1> QED
    BY <1>2, <1>3 DEF Entry

\* The adapter never proposes a long entry on a candle on which the strategy
\* asks for the exit of a long position.
THEOREM EntriesExcludeExits == Spec => []EntryExcludesExit
  <1>1. IInv => EntryExcludesExit
    <2>1. SUFFICES ASSUME IInv, decision.kind = "proposal", decision.side = "long"
                   PROVE  ~decision.exit
      BY DEF EntryExcludesExit
    <2>2. /\ frame \in Frames /\ ~Unusable(frame) /\ decision = Proposal(frame, config.limits)
      BY <2>1, ProposalOfFrame
    <2>3. Entry(frame) = "long"
      BY <2>1, <2>2 DEF Proposal
    <2> QED
      BY <2>2, <2>3, NoEntryWithExit DEF Proposal
  <1> QED
    BY <1>1, Inductive, PTL

\* Whatever the prices and limits, a proposal keeps to the risk budget and
\* the largest value at the prices it carries.
THEOREM SizesAreWithinBudget == Spec => []SizedWithinBudget
  <1>1. IInv => SizedWithinBudget
    <2>1. SUFFICES ASSUME IInv, decision.kind = "proposal"
                   PROVE  SizedWithinBudget
      BY DEF SizedWithinBudget
    <2>2. /\ frame \in Frames /\ ~Unusable(frame) /\ decision = Proposal(frame, config.limits)
          /\ Entry(frame) \in {"long", "short"}
      BY <2>1, ProposalOfFrame
    <2> DEFINE side == Entry(frame)
               q == Quantity(frame, side, config.limits)
    <2>3. /\ decision.side = side /\ decision.entry = EntryPrice(frame)
          /\ decision.stop = StopPrice(frame, side)
          /\ decision.quantity = q /\ decision.notional = Notional(frame, q)
      BY <2>2 DEF Proposal
    <2>4. /\ UnitRisk(frame, side) \in Nat \ {0} /\ q \in Nat
          /\ q * UnitRisk(frame, side) * 1000 <= RiskBudget(config.limits)
          /\ q * EntryPrice(frame) <= config.limits.value * Steps
      <3>1. config.limits \in Limits
        BY <2>1, AdapterAssumption DEF IInv, TypeOK, AdapterConfigs
      <3> QED
        BY <2>2, <3>1, Sizing
    <2>5. /\ 2 * (Notional(frame, q) * Steps - q * EntryPrice(frame)) <= Tick * Steps
          /\ 2 * (q * EntryPrice(frame) - Notional(frame, q) * Steps) <= Tick * Steps
      BY <2>2, <2>4, NotionalRounding
    <2>6. (IF decision.side = "long" THEN decision.entry - decision.stop
                                      ELSE decision.stop - decision.entry)
            = UnitRisk(frame, side)
      BY <2>3 DEF UnitRisk
    <2> HIDE DEF side, q
    <2>7. UnitRisk(frame, side) > 0
      BY <2>4
    <2> QED
      BY <2>3, <2>4, <2>5, <2>6, <2>7 DEF SizedWithinBudget
  <1> QED
    BY <1>1, Inductive, PTL

\* Whatever the candles, no hook raises on a long enough frame away from the
\* smallest prices.
THEOREM RaisesOnlyNearTick == Spec => []RaisesNearTick
  <1>1. IInv => RaisesNearTick
    BY UnusableReasons DEF IInv, FailureHasReason, RaisesNearTick
  <1> QED
    BY <1>1, Inductive, PTL

-----------------------------------------------------------------------------
\* Frames that agree on the candles every window reaches give the same signals
\* at the same prices,
LEMMA SameSignals ==
  ASSUME NEW f, NEW g,
         \A k \in 0 .. RequiredCandles - 1 : Back(g, k) = Back(f, k)
  PROVE  /\ Entry(g) = Entry(f)
         /\ Exit(g) = Exit(f)
         /\ EntryPrice(g) = EntryPrice(f)
         /\ \A side : /\ StopPrice(g, side) = StopPrice(f, side)
                      /\ TargetPrice(g, side) = TargetPrice(f, side)
  <1>1. /\ RequiredCandles \in Nat
        /\ FastPeriod \in Nat /\ FastPeriod <= RequiredCandles
        /\ SlowPeriod \in Nat /\ SlowPeriod <= RequiredCandles
        /\ StopLookback \in Nat /\ StopLookback <= RequiredCandles
        /\ 0 \in 0 .. RequiredCandles - 1
        /\ SlopePeriod \in 0 .. RequiredCandles - 1
        /\ MomentumPeriod \in 0 .. RequiredCandles - 1
        /\ Lookback \in 0 .. RequiredCandles - 1
    BY StrategyAssumption
       DEF RequiredCandles, RegimeCandles, SignalCandles, Larger
  <1>2. Close(g) = Close(f)
    BY <1>1 DEF Close
  <1>3. /\ Back(g, SlopePeriod) = Back(f, SlopePeriod)
        /\ Back(g, MomentumPeriod) = Back(f, MomentumPeriod)
    BY <1>1
  <1>4. \A k \in 1 .. Lookback : Back(g, k) = Back(f, k)
    BY <1>1
  <1>5. ASSUME NEW n \in Nat, n <= RequiredCandles
        PROVE  ClosingSum(g, n) = ClosingSum(f, n)
    <2>1. \A k \in 0 .. n - 1 : Back(g, k) = Back(f, k)
      BY <1>1, <1>5
    <2>2. [k \in 0 .. n - 1 |-> Back(g, k).close] = [k \in 0 .. n - 1 |-> Back(f, k).close]
      BY <2>1
    <2> QED
      BY <2>2 DEF ClosingSum
  <1>6. SpreadNum(g) = SpreadNum(f) /\ SpreadDen(g) = SpreadDen(f)
    BY <1>1, <1>5 DEF SpreadNum, SpreadDen
  <1>7. Regime(g) = Regime(f)
    BY <1>2, <1>3, <1>6 DEF Regime
  <1>8. /\ \A b : AboveRange(g, b) <=> AboveRange(f, b)
        /\ \A b : BelowRange(g, b) <=> BelowRange(f, b)
    BY <1>2, <1>4 DEF AboveRange, BelowRange
  <1>9. (Rising(g) <=> Rising(f)) /\ (Falling(g) <=> Falling(f))
    BY <1>2, <1>3 DEF Rising, Falling
  <1>10. (EntersLong(g) <=> EntersLong(f)) /\ (EntersShort(g) <=> EntersShort(f))
    BY <1>7, <1>8, <1>9 DEF EntersLong, EntersShort
  <1>11. Entry(g) = Entry(f)
    BY <1>10 DEF Entry
  <1>12. Exit(g) = Exit(f)
    BY <1>7, <1>8, <1>9 DEF Exit
  <1>13. EntryPrice(g) = EntryPrice(f)
    BY <1>2 DEF EntryPrice
  <1>14. Recent(g) = Recent(f)
    <2>1. \A k \in 0 .. StopLookback - 1 : Back(g, k) = Back(f, k)
      BY <1>1
    <2> QED
      BY <2>1 DEF Recent
  <1>15. \A side : RawDistance(g, side) = RawDistance(f, side)
    BY <1>13, <1>14 DEF RawDistance
  <1>16. \A side : StopDistance(g, side) = StopDistance(f, side)
    BY <1>13, <1>15 DEF StopDistance
  <1>17. \A side : /\ StopPrice(g, side) = StopPrice(f, side)
                   /\ TargetPrice(g, side) = TargetPrice(f, side)
    BY <1>13, <1>16 DEF StopPrice, TargetPrice
  <1> QED
    BY <1>11, <1>12, <1>13, <1>17

\* ... hence the same decision,
LEMMA SameWindow ==
  ASSUME NEW f, NEW g,
         \A k \in 0 .. RequiredCandles - 1 : Back(g, k) = Back(f, k),
         NEW p, NEW c
  PROVE  Decide(g, p, c) = Decide(f, p, c)
  <1>1. /\ Entry(g) = Entry(f) /\ Exit(g) = Exit(f)
        /\ EntryPrice(g) = EntryPrice(f)
        /\ \A side : /\ StopPrice(g, side) = StopPrice(f, side)
                     /\ TargetPrice(g, side) = TargetPrice(f, side)
    BY SameSignals
  <1>2. \A side : UnitRisk(g, side) = UnitRisk(f, side)
    BY <1>1 DEF UnitRisk
  <1>3. \A side : Quantity(g, side, c.limits) = Quantity(f, side, c.limits)
    BY <1>1, <1>2 DEF Quantity
  <1>4. \A q : Notional(g, q) = Notional(f, q)
    BY <1>1 DEF Notional
  <1>5. /\ Sized(g, c.limits) <=> Sized(f, c.limits)
        /\ Proposal(g, c.limits) = Proposal(f, c.limits)
    BY <1>1, <1>3, <1>4 DEF Sized, Proposal
  <1> QED
    BY <1>1, <1>5 DEF Decide

\* ... and, when the shorter frame is long enough, the same usability.
LEMMA SameUsability ==
  ASSUME NEW f, NEW g,
         \A k \in 0 .. RequiredCandles - 1 : Back(g, k) = Back(f, k),
         ~Unusable(f), Len(g) = RequiredCandles
  PROVE  ~Unusable(g)
  <1>1. /\ Entry(g) = Entry(f)
        /\ EntryPrice(g) = EntryPrice(f)
        /\ \A side : /\ StopPrice(g, side) = StopPrice(f, side)
                     /\ TargetPrice(g, side) = TargetPrice(f, side)
    BY SameSignals
  <1>2. /\ ~(Len(g) < RegimeCandles) /\ ~(Len(g) < SignalCandles)
        /\ ~(Len(g) < StopLookback)
    BY StrategyAssumption
       DEF RequiredCandles, RegimeCandles, SignalCandles, Larger
  <1> QED
    BY <1>1, <1>2 DEF Unusable

\* What is decided never depends on candles before the last RequiredCandles.
THEOREM HistoryDoesNotMatter == Spec => []HistoryIndependent
  <1>1. IInv => HistoryIndependent
    <2> DEFINE g == SubSeq(frame, Len(frame) - RequiredCandles + 1, Len(frame))
    <2>1. SUFFICES ASSUME IInv, decision # None, Len(frame) > RequiredCandles
                   PROVE  ~Unusable(g) /\ decision = Decide(g, pair, config)
      BY DEF HistoryIndependent
    <2>2. /\ frame \in Frames /\ ~Unusable(frame)
          /\ decision = Decide(frame, pair, config)
      BY <2>1 DEF IInv, DecisionIsOwn
    <2>3. RequiredCandles \in Nat \ {0} /\ Len(frame) \in Nat
      BY FrameLength, <2>2, StrategyAssumption
         DEF RequiredCandles, RegimeCandles, SignalCandles, Larger
    <2>4. frame \in Seq(Candles)
      BY <2>2, AdapterAssumption DEF Frames
    <2>5. /\ Len(g) = RequiredCandles
          /\ \A i \in 1 .. RequiredCandles : g[i] = frame[Len(frame) - RequiredCandles + i]
      BY <2>1, <2>3, <2>4
    <2> HIDE DEF g
    <2>6. ASSUME NEW k \in 0 .. RequiredCandles - 1
          PROVE  Back(g, k) = Back(frame, k)
      <3>1. RequiredCandles - k \in 1 .. RequiredCandles
        BY <2>3
      <3>2. Len(frame) - RequiredCandles + (RequiredCandles - k) = Len(frame) - k
        BY <2>3
      <3> QED
        BY <2>5, <3>1, <3>2 DEF Back
    <2>7. Decide(g, pair, config) = Decide(frame, pair, config)
      BY <2>6, SameWindow
    <2>8. Len(g) = RequiredCandles
      BY <2>5
    <2>9. ~Unusable(g)
      BY <2>2, <2>6, <2>8, SameUsability
    <2> QED
      BY <2>2, <2>7, <2>9
  <1> QED
    BY <1>1, Inductive, PTL

-----------------------------------------------------------------------------
\* The entry cells are filled by the entry hook only, from a proposal on the
\* same frame, whoever's configuration it was decided with.
CellsFollow ==
  /\ hook \in {"indicators", "entry"} => enter = NoCells
  /\ enter.long = 1 => /\ frame \in Frames /\ ~Unusable(frame)
                       /\ Entry(frame) = "long" /\ decision # None

LEMMA CellsOfLong ==
  ASSUME NEW f, NEW p, NEW c, EntryCells(Decide(f, p, c)).long = 1
  PROVE  Entry(f) = "long"
BY DEF EntryCells, NoCells, Decide, NoTrade, Proposal

LEMMA CellsFollowNext ==
  ASSUME IInv, CellsFollow, [Next]_vars
  PROVE  CellsFollow'
  <1>1. ASSUME NEW p \in Pairs, NEW f \in Frames, Deliver(p, f)
        PROVE  CellsFollow'
    BY <1>1 DEF Deliver, CellsFollow, NoCells
  <1>2. ASSUME Raise
        PROVE  CellsFollow'
    BY <1>2 DEF Raise, CellsFollow
  <1>3. CASE PopulateIndicators /\ ~Unusable(frame)
    BY <1>3 DEF PopulateIndicators, CellsFollow, NoCells
  <1>4. CASE PopulateEntryTrend /\ ~(Unusable(frame) \/ NoSymbol)
    <2>1. /\ hook' = "exit" /\ frame' = frame
          /\ decision' = Decide(frame, pair, config)
          /\ enter' \in {NoCells, EntryCells(Decide(frame, TheSymbol, ClassConfig))}
      BY <1>4 DEF PopulateEntryTrend
    <2>2. frame \in Frames /\ decision' # None
      BY <1>4, <2>1, DecideType, AdapterAssumption
         DEF IInv, TypeOK, PopulateEntryTrend
    <2>3. enter'.long = 1 => Entry(frame) = "long"
      BY <2>1, CellsOfLong DEF NoCells
    <2> QED
      BY <1>4, <2>1, <2>2, <2>3 DEF CellsFollow
  <1>5. CASE PopulateExitTrend
    BY <1>5 DEF PopulateExitTrend, CellsFollow
  <1>6. CASE UNCHANGED vars
    BY <1>6 DEF vars, CellsFollow
  <1> QED
    BY <1>1, <1>2, <1>3, <1>4, <1>5, <1>6 DEF Next, PopulateIndicators, PopulateEntryTrend

LEMMA ExitOfDecision ==
  ASSUME NEW f, NEW p, NEW c
  PROVE  Decide(f, p, c).exit = Exit(f)
BY DEF Decide, NoTrade, Proposal

\* Whatever pairs Freqtrade trades and whatever the two configurations say, no
\* long entry is signalled on a row whose record asks for the exit.
THEOREM EntriesNeverMeetExits == Spec => []EntryNeverOnExit
  <1>1. Init => CellsFollow
    BY DEF Init, CellsFollow, NoCells
  <1>2. IInv /\ CellsFollow /\ [Next]_vars => CellsFollow'
    BY CellsFollowNext
  <1>3. IInv /\ CellsFollow => EntryNeverOnExit
    <2>1. SUFFICES ASSUME IInv, CellsFollow, enter.long = 1
                   PROVE  decision # None /\ ~decision.exit
      BY DEF EntryNeverOnExit
    <2>2. /\ frame \in Frames /\ ~Unusable(frame) /\ Entry(frame) = "long"
          /\ decision # None /\ decision = Decide(frame, pair, config)
      BY <2>1 DEF CellsFollow, IInv, DecisionIsOwn
    <2>3. ~Exit(frame)
      BY <2>2, NoEntryWithExit
    <2> QED
      BY <2>2, <2>3, ExitOfDecision
  <1> QED
    BY <1>1, <1>2, <1>3, Inductive, PTL DEF Spec
=============================================================================

---------------------------- MODULE MCMarketData ----------------------------
(* Small instances of MarketData for TLC: two symbols that share a path,      *)
(* minutes and months, which share a table, and answers of up to two rows.    *)
EXTENDS MarketData, TLC
CONSTANTS slash, underscore

OnePart == [s \in {slash, underscore} |-> "BTC_USDT"]
InLowerCase == "BTC_USDT" :> "btc_usdt" @@ "1m" :> "1m" @@ "1M" :> "1m"
Lengths == "1m" :> 1

\* A caller may name a table as the curated data of the shared path is named.
CuratedName == {<<"curated", "btc_usdt", "1m">>}

Candle(o, h, l, c, v) ==
  [open |-> o, high |-> h, low |-> l, close |-> c, volume |-> v, nan |-> {}]
Sound == Candle(2, 3, 1, 2, 0)

Row(t, c) == [time |-> t, candle |-> c]

Series == {<<Row(1, Sound), Row(2, Sound)>>, <<Row(2, Sound), Row(1, Sound)>>,
           <<Row(4, Sound)>>}

\* A malformed candle, a negative price, a price that is no number, and a row
\* that cannot be parsed.
Flawed == {<<Row(1, c)>> : c \in
  {Candle(4, 3, 1, 2, 0), Candle(0, 0, -1, 0, 0),
   [Sound EXCEPT !.nan = {"price"}], Malformed}}

Answers == Series \cup Flawed \cup {<<>>}
=============================================================================

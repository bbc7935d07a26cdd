------------------------- MODULE MCFreqtradeAdapter -------------------------
(* A small instance of FreqtradeAdapter for TLC.                           *)
EXTENDS FreqtradeAdapter
CONSTANTS btc, eth
\* Closes at the range's edge and inside it, around the price at which the
\* smallest stop is half a tick, and steps on both sides of the thresholds.
FewCandles ==
  {[low |-> 380, high |-> 384, close |-> 381],
   [low |-> 399, high |-> 399, close |-> 399],
   [low |-> 396, high |-> 404, close |-> 402],
   [low |-> 402, high |-> 418, close |-> 418],
   [low |-> 439, high |-> 440, close |-> 439],
   [low |-> 430, high |-> 470, close |-> 431]}
Usual == [equity |-> 150, fraction |-> 10, value |-> 120]
Small == [equity |-> 60, fraction |-> 5, value |-> 45]
ClassDefault == [symbols |-> {btc}, entries |-> TRUE, limits |-> Usual]
Shipped == {ClassDefault}
\* The class's configuration, the same with entries off, and an object's own
\* with another universe and smaller limits.
Various ==
  {ClassDefault, [ClassDefault EXCEPT !.entries = FALSE],
   [symbols |-> {btc, eth}, entries |-> TRUE, limits |-> Small]}
BothWays == {"bull", "bear"}
ExitsUnknown == {"unknown"}
=============================================================================

--------------------------- MODULE MCRiskControls ---------------------------
(* A small instance of RiskControls for TLC.                               *)
EXTENDS RiskControls
CONSTANTS btc, eth, doge
\* At the peak, exactly at both limits, past the daily one, past the peak one.
FourDrawdowns ==
  {[current |-> 100, peak |-> 100, dayStart |-> 100],
   [current |-> 90,  peak |-> 100, dayStart |-> 90],
   [current |-> 95,  peak |-> 100, dayStart |-> 101],
   [current |-> 89,  peak |-> 100, dayStart |-> 89]}
=============================================================================

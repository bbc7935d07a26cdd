------------------------- MODULE MCDecisionBoundary -------------------------
(* A small instance of DecisionBoundary for TLC: snapshots with parts       *)
(* missing, and offers that differ from a good one in up to two fields.     *)
EXTENDS DecisionBoundary, FiniteSets
CONSTANTS d1, d2, r1, r2, s1, s2

SomeSnapshots ==
  {s \in [symbol : {s1, s2}, asOf : {0, 1}, entry : {"long", "short", "hold"},
          close : {0, 2}, entryPrice : {0, 2}, stop : {0, 1, 2, 3},
          quantity : {0, 1}, notional : {0, 2}, strength : {50}] :
     s.quantity = 0 => s.notional = 0}

SomeInputs ==
  {i \in [decision : {d1}, run : {r1}, mode : {"paper", "future_live"},
          symbol : {s1, s2}, marketTime : {1, 2}, created : {1, 3},
          allowed : {{s1}, {s1, s2}}] :
     i.mode = "paper" \/ (i.symbol = s1 /\ i.marketTime = 1)}

Good == [decision |-> d1, run |-> r1, mode |-> "paper", symbol |-> s1,
         side |-> "long", quantity |-> 1, notional |-> 2, entryPrice |-> 2,
         stop |-> 1, takeProfit |-> 0, confidence |-> 50, rationale |-> TRUE,
         created |-> 1, validUntil |-> 2]

Other == [decision |-> d2, run |-> r2, mode |-> "future_live", symbol |-> s2,
          side |-> "short", quantity |-> 3, notional |-> 5, entryPrice |-> 0,
          stop |-> 2, takeProfit |-> -1, confidence |-> 10, rationale |-> FALSE,
          created |-> 2, validUntil |-> 3]

SomeOffers ==
  {[f \in DOMAIN Good |-> IF f \in changed THEN Other[f] ELSE Good[f]] :
     changed \in {c \in SUBSET DOMAIN Good : Cardinality(c) <= 2}}
    \cup {[Good EXCEPT ![f] = v] :
            f \in {"quantity", "notional", "stop", "created", "validUntil"},
            v \in {-1, 0}}
    \cup {[Good EXCEPT !.confidence = 101], [Good EXCEPT !.takeProfit = 3]}

APolicy == [symbols |-> {s1}, maxNotional |-> 4, maxQuantity |-> 2,
            minConfidence |-> 20]
=============================================================================

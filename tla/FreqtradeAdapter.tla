-------------------------- MODULE FreqtradeAdapter --------------------------
(***************************************************************************)
(* RegimeBreakoutStrategy, the adapter through which Freqtrade runs the    *)
(* shared strategy.  Freqtrade delivers a frame of candles of a pair and   *)
(* calls the populate hooks on it in turn; the adapter writes the decision *)
(* and the entry signal into cells of the frame's last row.                *)
(***************************************************************************)
EXTENDS Strategy

CONSTANTS
  Pairs,          \* pairs Freqtrade trades
  Configs,        \* adapter_config of the strategy object
  ClassConfig,    \* adapter_config of the class
  MaxFrame        \* bound on the candles of a frame

AdapterConfigs ==
  [symbols : SUBSET Pairs \ {{}}, entries : BOOLEAN, limits : Limits]

ASSUME AdapterAssumption ==
  /\ Configs \subseteq AdapterConfigs
  /\ ClassConfig \in AdapterConfigs
  /\ MaxFrame \in Nat \ {0}

VARIABLES
  config,    \* the adapter_config in force
  hook,      \* the next hook Freqtrade calls
  pair,      \* the pair of the frame
  frame,     \* the frame's candles
  decision,  \* the ca_ cells of the last row
  enter,     \* the entry cells of the last row
  failed     \* a hook has raised on this frame

vars == <<config, hook, pair, frame, decision, enter, failed>>

-----------------------------------------------------------------------------
Frames == UNION {[1 .. n -> Candles] : n \in 1 .. MaxFrame}

None == [kind |-> "none"]

NoTrade(reason, exit) == [kind |-> "no_trade", reason |-> reason, exit |-> exit]

Proposal(f, l) ==
  LET side == Entry(f)
      quantity == Quantity(f, side, l)
  IN [kind |-> "proposal", side |-> side, exit |-> Exit(f),
      entry |-> EntryPrice(f), stop |-> StopPrice(f, side), target |-> TargetPrice(f, side),
      quantity |-> quantity, notional |-> Notional(f, quantity)]

Sized(f, l) ==
  Quantity(f, Entry(f), l) > 0 /\ Notional(f, Quantity(f, Entry(f), l)) > 0

\* latest_decision_from_dataframe: the decision on a usable frame taken for a
\* symbol, with the universe and the limits of an adapter_config.
Decide(f, symbol, c) ==
  IF symbol \notin c.symbols THEN NoTrade("out_of_universe", Exit(f))
  ELSE IF Entry(f) = "hold" \/ ~Sized(f, c.limits) THEN NoTrade("no_signal", Exit(f))
  ELSE Proposal(f, c.limits)

-----------------------------------------------------------------------------
NoCells == [long |-> 0, short |-> 0, tag |-> FALSE]

Init ==
  /\ config \in Configs
  /\ hook = "idle"
  /\ pair \in Pairs
  /\ frame = <<>>
  /\ decision = None
  /\ enter = NoCells
  /\ failed = FALSE

\* External: Freqtrade has a new candle of a pair and builds its frame.
Deliver(p, f) ==
  /\ hook = "idle"
  /\ pair' = p
  /\ frame' = f
  /\ decision' = None
  /\ enter' = NoCells
  /\ failed' = FALSE
  /\ hook' = "indicators"
  /\ UNCHANGED config

\* External: Freqtrade drops the frame of a hook that raised.
Raise ==
  /\ failed' = TRUE
  /\ hook' = "idle"
  /\ UNCHANGED <<config, pair, frame, decision, enter>>

PopulateIndicators ==
  /\ hook = "indicators"
  /\ IF Unusable(frame) THEN Raise
     ELSE /\ decision' = Decide(frame, pair, config)
          /\ hook' = "entry"
          /\ UNCHANGED <<config, pair, frame, enter, failed>>

\* The symbol latest_decision_from_dataframe takes a frame for when it is not
\* given a pair: the single symbol of the class's configuration.
TheSymbol == CHOOSE s \in ClassConfig.symbols : TRUE

\* There is no single symbol to take, which raises when entries are enabled.
NoSymbol == config.entries /\ ClassConfig.symbols # {TheSymbol}

\* Fault: a proposal of either side fills the long column.
EntryCellsOfEither(d) ==
  IF d.kind = "proposal" THEN [long |-> 1, short |-> 0, tag |-> TRUE] ELSE NoCells

\* The entry cells for a decision; the adapter cannot short.
EntryCells(d) ==
  IF d.kind = "proposal"
  THEN [long |-> IF d.side = "long" THEN 1 ELSE 0, short |-> 0, tag |-> TRUE]
  ELSE NoCells

\* Annotates again, then, where entries are enabled, decides a second time: for
\* the class's symbol, with the class's universe and limits, not for this pair
\* and the object's configuration.
PopulateEntryTrend ==
  /\ hook = "entry"
  /\ IF Unusable(frame) \/ NoSymbol THEN Raise
     ELSE /\ decision' = Decide(frame, pair, config)
          /\ enter' = IF config.entries
                      THEN EntryCells(Decide(frame, TheSymbol, ClassConfig))
                      ELSE NoCells
          /\ hook' = "exit"
          /\ UNCHANGED <<config, pair, frame, failed>>

\* Exits are left to Freqtrade.
PopulateExitTrend ==
  /\ hook = "exit"
  /\ hook' = "idle"
  /\ UNCHANGED <<config, pair, frame, decision, enter, failed>>

Next ==
  \/ \E p \in Pairs, f \in Frames : Deliver(p, f)
  \/ PopulateIndicators
  \/ PopulateEntryTrend
  \/ PopulateExitTrend

Spec == Init /\ [][Next]_vars

-----------------------------------------------------------------------------
Proposals ==
  [kind : {"proposal"}, side : {"long", "short"}, exit : BOOLEAN, entry : Nat,
   stop : Nat, target : Nat, quantity : Nat, notional : Nat]
NoTrades == [kind : {"no_trade"}, reason : {"out_of_universe", "no_signal"}, exit : BOOLEAN]

\* Every variable keeps its type.
TypeOK ==
  /\ config \in Configs
  /\ hook \in {"idle", "indicators", "entry", "exit"}
  /\ pair \in Pairs
  /\ frame \in Frames \cup {<<>>}
  /\ decision \in {None} \cup NoTrades \cup Proposals
  /\ enter \in [long : {0, 1}, short : {0}, tag : BOOLEAN]
  /\ failed \in BOOLEAN

\* generate_entry and generate_exit look at the same candle separately: they
\* never both enter a long position and ask for its exit.
EntryExcludesExit ==
  decision.kind = "proposal" /\ decision.side = "long" => ~decision.exit

\* The limits survive the roundings between strategy, sizing and proposal: at
\* the prices the proposal carries, hitting the stop loses at most the risk
\* budget, the position is worth at most the largest value, and the notional
\* that the risk limits will see is off by at most half a tick.
SizedWithinBudget ==
  decision.kind = "proposal" =>
    LET d == decision
        risk == IF d.side = "long" THEN d.entry - d.stop ELSE d.stop - d.entry
    IN /\ risk > 0
       /\ d.quantity * risk * 1000 <= RiskBudget(config.limits)
       /\ d.quantity * d.entry <= config.limits.value * Steps
       /\ 2 * (d.notional * Steps - d.quantity * d.entry) <= Tick * Steps
       /\ 2 * (d.quantity * d.entry - d.notional * Steps) <= Tick * Steps

\* A hook raises only on a frame that is too short, on a price so small that
\* the smallest stop distance rounds to nothing, or for want of one symbol.
RaisesNearTick ==
  failed =>
    \/ Len(frame) < RequiredCandles
    \/ NoSymbol
    \/ 2 * EntryPrice(frame) * MinStop <= Tick * 1000

\* What is decided depends on the last RequiredCandles alone, which suffice to
\* decide: a live frame and the longer one of a backtest lead to the same
\* decision.
HistoryIndependent ==
  decision # None /\ Len(frame) > RequiredCandles =>
    LET recent == SubSeq(frame, Len(frame) - RequiredCandles + 1, Len(frame))
    IN ~Unusable(recent) /\ decision = Decide(recent, pair, config)

\* Freqtrade is never told to enter long on a candle whose recorded decision
\* asks for the exit of a long position, although the column and the record
\* come from two decisions, for different symbols and configurations.
EntryNeverOnExit == enter.long = 1 => decision # None /\ ~decision.exit

\* populate_entry_trend: "Populate conservative entry columns from a validated
\* proposal record."  Where an entry column is filled, the record of the row is
\* a proposal.
EntryFollowsDecision ==
  enter.long = 1 \/ enter.tag => decision.kind = "proposal"
=============================================================================

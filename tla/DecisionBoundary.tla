-------------------------- MODULE DecisionBoundary --------------------------
(***************************************************************************)
(* Decision records of libs/decisioning and the checks between a decision  *)
(* and the supervisor (apps/decision_engine): a proposal is built from a   *)
(* strategy snapshot, or offered by a model or a person, and validated, at *)
(* once, later, or again, with or without a policy, a clock and the input  *)
(* it was decided on.  0 stands for an optional price or size left out.    *)
(***************************************************************************)
EXTENDS Integers, Sequences, Functions

CONSTANTS
  Symbols, Decisions, Runs,
  Snapshots,      \* strategy snapshots that may be decided
  Offers,         \* fields a TradeProposal may be constructed from
  Inputs,         \* decision inputs offered with them
  Allowed,        \* DeterministicProposalConfig.allowed_symbols
  Mode, TTL,      \* DeterministicProposalConfig.mode, proposal_ttl_ms
  MaxAge,         \* max_market_age_ms
  Policy,         \* a ProposalValidationPolicy
  SnapshotDecision, SnapshotRun,   \* the ids a snapshot's decision gets
  NoSnapshot, NoInput,
  MaxTime         \* bound on the clock

Modes   == {"offline", "paper", "future_live"}
Sides   == {"long", "short"}
Callers == [policy : BOOLEAN, clock : BOOLEAN, context : BOOLEAN]
None    == "none"

NoOutput == [kind |-> "undecided"]

AllSnapshots ==
  [symbol : Symbols, asOf : 0..MaxTime, entry : Sides \cup {"hold"},
   close : Nat, entryPrice : Nat, stop : Nat, quantity : Nat, notional : Nat,
   strength : 0..100]

AllInputs ==
  [decision : Decisions, run : Runs, mode : Modes, symbol : Symbols,
   marketTime : Nat, created : Nat, allowed : SUBSET Symbols]

\* Confidence in percent; rationale says whether there is a text; a takeProfit
\* of 0 is one left out.
AllOffers ==
  [decision : Decisions, run : Runs, mode : Modes, symbol : Symbols,
   side : Sides, quantity : Int, notional : Int, entryPrice : Int, stop : Int,
   takeProfit : Int, confidence : Int, rationale : BOOLEAN, created : Int,
   validUntil : Int]

ASSUME DecisionAssumption ==
  /\ Snapshots \subseteq AllSnapshots /\ NoSnapshot \notin Snapshots
  /\ Inputs \subseteq AllInputs /\ \A i \in Inputs : i.allowed # {}
  /\ Offers \subseteq AllOffers
  /\ Allowed \subseteq Symbols /\ Allowed # {}
  /\ Mode \in Modes /\ TTL \in Nat \ {0} /\ MaxAge \in Nat \ {0}
  /\ Policy \in [symbols : SUBSET Symbols, maxNotional : Nat \ {0},
                 maxQuantity : Nat \ {0}, minConfidence : 0..100]
  /\ Policy.symbols # {}
  /\ SnapshotDecision \in Decisions /\ SnapshotRun \in Runs
  /\ MaxTime \in Nat

VARIABLES
  now,
  origin,   \* the snapshot the current result was built from, if any
  input,    \* its decision input
  output,   \* its proposal, no-trade decision, or construction error
  caller,   \* how validation is called on it
  verdict   \* what validation last said of it, and when

vars == <<now, origin, input, output, caller, verdict>>

-----------------------------------------------------------------------------
\* The first of a sequence of checks that is in failing, by name.
First(order, failing) ==
  IF \A k \in 1..Len(order) : order[k] \notin failing THEN None
  ELSE LET k == CHOOSE k \in 1..Len(order) :
                  /\ order[k] \in failing
                  /\ \A j \in 1..k-1 : order[j] \notin failing
       IN order[k]

\* TradeProposal.__post_init__, in its order.
SchemaOrder ==
  <<"quantity_positive", "notional_positive", "entry_positive",
    "stop_positive", "take_profit_positive", "confidence_range",
    "rationale_text", "created_negative", "valid_negative", "valid_order",
    "stop_below_entry", "stop_above_entry">>

SchemaFails(o) ==
  {n \in Range(SchemaOrder) :
     CASE n = "quantity_positive" -> o.quantity <= 0
       [] n = "notional_positive" -> o.notional <= 0
       [] n = "entry_positive"    -> o.entryPrice <= 0
       [] n = "stop_positive"     -> o.stop <= 0
       [] n = "take_profit_positive" -> o.takeProfit < 0
       [] n = "confidence_range"  -> o.confidence \notin 0..100
       [] n = "rationale_text"    -> ~o.rationale
       [] n = "created_negative"  -> o.created < 0
       [] n = "valid_negative"    -> o.validUntil < 0
       [] n = "valid_order"       -> o.validUntil <= o.created
       [] n = "stop_below_entry"  -> o.side = "long" /\ o.stop >= o.entryPrice
       [] n = "stop_above_entry"  -> o.side = "short" /\ o.stop <= o.entryPrice}

Raised(error) == [kind |-> "raised", error |-> error]

\* The proposal, or the error its construction raises.
TradeProposal(o) ==
  IF SchemaFails(o) = {} THEN [kind |-> "proposal", of |-> o]
  ELSE Raised(First(SchemaOrder, SchemaFails(o)))

-----------------------------------------------------------------------------
(* build_deterministic_decision.                                           *)

\* Fault: the input is created, and the proposal valid, from now on.
DecisionTimeNow(s) == now

\* Input, proposal and market all carry the time of the snapshot.
DecisionTime(s) == s.asOf

DecisionInputOf(s) ==
  [decision |-> SnapshotDecision, run |-> SnapshotRun, mode |-> Mode,
   symbol |-> s.symbol, marketTime |-> s.asOf, created |-> DecisionTime(s),
   allowed |-> Allowed]

\* Fault: a zero size is not looked for.
EntryMissingUnsized(s) == s.entry = "hold" \/ s.entryPrice = 0 \/ s.stop = 0

\* _entry_missing_reason: no entry, or a part of it is missing.
EntryMissing(s) ==
  \/ s.entry = "hold" \/ s.entryPrice = 0 \/ s.stop = 0
  \/ s.quantity = 0 \/ s.notional = 0

NoTrade(s, reason) ==
  [kind |-> "no_trade", reason |-> reason,
   of |-> [decision |-> SnapshotDecision, run |-> SnapshotRun, mode |-> Mode,
           symbol |-> s.symbol]]

ProposalOf(s) ==
  [decision |-> SnapshotDecision, run |-> SnapshotRun, mode |-> Mode,
   symbol |-> s.symbol, side |-> s.entry, quantity |-> s.quantity,
   notional |-> s.notional, entryPrice |-> s.entryPrice, stop |-> s.stop,
   takeProfit |-> 0, confidence |-> s.strength, rationale |-> TRUE,
   created |-> DecisionTime(s), validUntil |-> DecisionTime(s) + TTL]

\* The mark price is the latest close, else the entry price.
OutputOf(s) ==
  IF s.close = 0 /\ s.entryPrice = 0 THEN Raised("no_mark_price")
  ELSE IF s.symbol \notin Allowed THEN NoTrade(s, "out_of_universe")
  ELSE IF EntryMissing(s) THEN NoTrade(s, "no_signal")
  ELSE TradeProposal(ProposalOf(s))

-----------------------------------------------------------------------------
(* validate_proposal_policy: every issue, in the order of the report.      *)

ReportOrder ==
  <<"future_live", "expired", "symbol_policy", "notional_policy",
    "quantity_policy", "confidence_policy", "rationale_blank",
    "market_future", "market_stale", "market_symbol", "decision_id", "run_id",
    "mode_context", "symbol_market", "symbol_allowed">>

IssueReason ==
  [future_live |-> "mode_not_allowed", expired |-> "stale_data",
   symbol_policy |-> "symbol_not_allowed", notional_policy |-> "size_invalid",
   quantity_policy |-> "size_invalid", confidence_policy |-> "schema_invalid",
   rationale_blank |-> "rationale_missing",
   market_future |-> "timestamp_invalid", market_stale |-> "stale_data",
   market_symbol |-> "symbol_not_allowed", decision_id |-> "schema_invalid",
   run_id |-> "schema_invalid", mode_context |-> "mode_not_allowed",
   symbol_market |-> "symbol_not_allowed",
   symbol_allowed |-> "symbol_not_allowed"]

PolicyFails(p, clock) ==
  {n \in Range(ReportOrder) :
     CASE n = "future_live"       -> p.mode = "future_live"
       [] n = "expired"           -> clock /\ p.validUntil <= now
       [] n = "symbol_policy"     -> p.symbol \notin Policy.symbols
       [] n = "notional_policy"   -> p.notional > Policy.maxNotional
       [] n = "quantity_policy"   -> p.quantity > Policy.maxQuantity
       [] n = "confidence_policy" -> p.confidence < Policy.minConfidence
       [] n = "rationale_blank"   -> ~p.rationale
       [] OTHER                   -> FALSE}

\* Fault: the report leaves the run out.
ContextFailsNoRun(p, i) ==
  {n \in Range(ReportOrder) :
     CASE n = "market_future"  -> i.created < i.marketTime
       [] n = "market_stale"   -> i.created - i.marketTime > MaxAge
       [] n = "market_symbol"  -> i.symbol \notin i.allowed
       [] n = "decision_id"    -> p.decision # i.decision
       [] n = "mode_context"   -> p.mode # i.mode
       [] n = "symbol_market"  -> p.symbol # i.symbol
       [] n = "symbol_allowed" -> p.symbol \notin i.allowed
       [] OTHER                -> FALSE}

\* _validate_context.
ContextFails(p, i) ==
  {n \in Range(ReportOrder) :
     CASE n = "market_future"  -> i.created < i.marketTime
       [] n = "market_stale"   -> i.created - i.marketTime > MaxAge
       [] n = "market_symbol"  -> i.symbol \notin i.allowed
       [] n = "decision_id"    -> p.decision # i.decision
       [] n = "run_id"         -> p.run # i.run
       [] n = "mode_context"   -> p.mode # i.mode
       [] n = "symbol_market"  -> p.symbol # i.symbol
       [] n = "symbol_allowed" -> p.symbol \notin i.allowed
       [] OTHER                -> FALSE}

Issues(p, clock, context) ==
  PolicyFails(p, clock) \cup (IF context THEN ContextFails(p, input) ELSE {})

\* to_rejections: one record per issue, with an id made of the decision and the
\* issue and of nothing else.
Rejections(p, c) ==
  {<<p.decision, IssueReason[n], n>> : n \in Issues(p, c.clock, c.context)}

-----------------------------------------------------------------------------
(* The raising validators of apps/decision_engine.  Their messages differ  *)
(* from the report's in places, and so do their names here.                *)

\* validate_decision_input.
InputOrder == <<"input_symbol", "market_future", "market_stale">>

InputFails(i) ==
  {n \in Range(InputOrder) :
     CASE n = "input_symbol"  -> i.symbol \notin i.allowed
       [] n = "market_future" -> i.created - i.marketTime < 0
       [] n = "market_stale"  -> i.created - i.marketTime > MaxAge}

\* validate_trade_proposal without a policy.
PlainOrder ==
  <<"future_live", "expired">> \o InputOrder
     \o <<"decision_id", "run_id", "mode_context", "symbol_market",
          "plain_allowed">>

\* Fault: the comparison is the wrong way round.
PlainExpiredAfter(p) == p.validUntil > now

PlainExpired(p) == p.validUntil <= now

PlainFails(p, clock, context) ==
  LET MismatchOf(i) ==
        {n \in Range(PlainOrder) :
           CASE n = "decision_id"   -> p.decision # i.decision
             [] n = "run_id"        -> p.run # i.run
             [] n = "mode_context"  -> p.mode # i.mode
             [] n = "symbol_market" -> p.symbol # i.symbol
             [] n = "plain_allowed" -> p.symbol \notin i.allowed
             [] OTHER               -> FALSE}
  IN {n \in {"future_live"} : p.mode = "future_live"}
       \cup {n \in {"expired"} : clock /\ PlainExpired(p)}
       \cup (IF context THEN InputFails(input) \cup MismatchOf(input) ELSE {})

\* What validate_trade_proposal raises: with a policy the first issue of the
\* report, without one the first of its own checks that fails.
ProposalError(p, c) ==
  IF c.policy THEN First(ReportOrder, Issues(p, c.clock, c.context))
  ELSE First(PlainOrder, PlainFails(p, c.clock, c.context))

\* validate_no_trade_decision, which knows neither policy nor clock.
NoTradeOrder ==
  <<"future_live">> \o InputOrder
     \o <<"decision_id", "run_id", "mode_context", "symbol_market">>

NoTradeFails(n, context) ==
  {k \in {"future_live"} : n.mode = "future_live"}
    \cup (IF context
          THEN InputFails(input)
                 \cup {k \in {"decision_id"}   : n.decision # input.decision}
                 \cup {k \in {"run_id"}        : n.run # input.run}
                 \cup {k \in {"mode_context"}  : n.mode # input.mode}
                 \cup {k \in {"symbol_market"} : n.symbol # input.symbol}
          ELSE {})

NoTradeError(n, context) == First(NoTradeOrder, NoTradeFails(n, context))

-----------------------------------------------------------------------------
(* rejection_reason_for_error looks for words in the message of an error.  *)

\* The words it looks for that the message contains.
Words(error) ==
  CASE error = "market_stale"    -> {"stale"}
    [] error = "expired"         -> {"expired"}
    [] error = "market_future"   -> {"timestamp"}
    [] error = "valid_order"     -> {"created_at", "valid_until"}
    [] error = "created_negative" -> {"created_at"}
    [] error = "valid_negative"  -> {"valid_until"}
    [] error \in {"symbol_policy", "market_symbol", "input_symbol",
                  "symbol_market", "symbol_allowed", "plain_allowed"}
                                 -> {"symbol"}
    [] error \in {"quantity_policy", "quantity_positive"} -> {"quantity"}
    [] error \in {"notional_policy", "notional_positive"} -> {"notional"}
    [] error \in {"entry_positive", "stop_positive", "take_profit_positive",
                  "stop_below_entry", "stop_above_entry"}
                                 -> {"price"}
    [] error \in {"rationale_blank", "rationale_text"} -> {"rationale"}
    [] error = "mode_context"    -> {"mode"}
    [] error = "future_live"     -> {"live"}
    [] OTHER                     -> {}

WordOrder ==
  <<"stale", "expired", "timestamp", "created_at", "valid_until", "symbol",
    "quantity", "notional", "price", "rationale", "mode", "live">>

\* Fault: a proposal past its time has an invalid timestamp.
ReasonForErrorExpired(error) ==
  LET word == First(WordOrder, Words(error))
  IN CASE word = "stale"                      -> "stale_data"
       [] word \in {"expired", "timestamp", "created_at", "valid_until"}
                                              -> "timestamp_invalid"
       [] word = "symbol"                     -> "symbol_not_allowed"
       [] word \in {"quantity", "notional"}   -> "size_invalid"
       [] word = "price"                      -> "price_invalid"
       [] word = "rationale"                  -> "rationale_missing"
       [] word \in {"mode", "live"}           -> "mode_not_allowed"
       [] word = None                         -> "schema_invalid"

ReasonForError(error) ==
  LET word == First(WordOrder, Words(error))
  IN CASE word \in {"stale", "expired"}       -> "stale_data"
       [] word \in {"timestamp", "created_at", "valid_until"}
                                              -> "timestamp_invalid"
       [] word = "symbol"                     -> "symbol_not_allowed"
       [] word \in {"quantity", "notional"}   -> "size_invalid"
       [] word = "price"                      -> "price_invalid"
       [] word = "rationale"                  -> "rationale_missing"
       [] word \in {"mode", "live"}           -> "mode_not_allowed"
       [] word = None                         -> "schema_invalid"

-----------------------------------------------------------------------------
Unvalidated == [error |-> "unvalidated", at |-> 0]

Init ==
  /\ now = 0 /\ origin = NoSnapshot /\ input = NoInput /\ output = NoOutput
  /\ caller \in Callers /\ verdict = Unvalidated

\* A snapshot of any earlier time is decided.  Decisions share no state: a
\* behaviour follows one of them.
Build(s) ==
  /\ output = NoOutput
  /\ s.asOf <= now
  /\ origin' = s /\ input' = DecisionInputOf(s) /\ output' = OutputOf(s)
  /\ UNCHANGED <<now, caller, verdict>>

\* Someone constructs a proposal for an input of theirs.
Offer(o, i) ==
  /\ output = NoOutput
  /\ origin' = NoSnapshot /\ input' = i /\ output' = TradeProposal(o)
  /\ UNCHANGED <<now, caller, verdict>>

\* The current result is validated, for the first time or again.
Validate ==
  /\ output # NoOutput /\ output.kind # "raised"
  /\ verdict' = [at |-> now,
                 error |-> IF output.kind = "proposal"
                           THEN ProposalError(output.of, caller)
                           ELSE NoTradeError(output.of, caller.context)]
  /\ UNCHANGED <<now, origin, input, output, caller>>

Tick == now < MaxTime /\ now' = now + 1
          /\ UNCHANGED <<origin, input, output, caller, verdict>>

Next ==
  \/ \E s \in Snapshots : Build(s)
  \/ \E o \in Offers, i \in Inputs : Offer(o, i)
  \/ Validate
  \/ Tick

Spec == Init /\ [][Next]_vars
-----------------------------------------------------------------------------
Outputs ==
  [kind : {"proposal"}, of : AllOffers]
    \cup [kind : {"no_trade"}, reason : {"out_of_universe", "no_signal"},
          of : [decision : Decisions, run : Runs, mode : Modes,
                symbol : Symbols]]
    \cup [kind : {"raised"},
          error : Range(SchemaOrder) \cup {"no_mark_price"}]

Errors == {None} \cup Range(ReportOrder) \cup Range(PlainOrder)
            \cup Range(NoTradeOrder)

\* Every variable keeps its type.
TypeOK ==
  /\ now \in 0..MaxTime
  /\ origin \in Snapshots \cup {NoSnapshot}
  /\ input \in AllInputs \cup {NoInput}
  /\ output \in Outputs \cup {NoOutput}
  /\ output # NoOutput => input \in AllInputs
  /\ caller \in Callers
  /\ verdict \in [at : 0..now, error : Errors \cup {"unvalidated"}]

IsProposal == output # NoOutput /\ output.kind = "proposal"

\* What the raising validator refuses without a policy the report refuses too,
\* and for the same reason among others.
ListsAgree ==
  IsProposal =>
    \A clock, context \in BOOLEAN :
      LET error == First(PlainOrder, PlainFails(output.of, clock, context))
      IN error # None =>
           ReasonForError(error)
             \in {IssueReason[n] : n \in Issues(output.of, clock, context)}

\* The reason read back from the words of a raised error is the reason the
\* report gives for its first issue, whatever words the message happens to hold.
ReasonsAgree ==
  (IsProposal /\ caller.policy /\ verdict.error \notin {None, "unvalidated"})
    => ReasonForError(verdict.error) = IssueReason[verdict.error]

\* The report and the raising validators, checks written twice in two modules,
\* agree on what is refused and, through the words of a message, on why.
ValidatorsAgree == ListsAgree /\ ReasonsAgree

\* A proposal built from a snapshot passes validation with its own input, and
\* without a clock at any later time, unless live proposals are configured.
BuiltProposalsPass ==
  (IsProposal /\ origin # NoSnapshot /\ Mode # "future_live")
    => \A context \in BOOLEAN :
         First(PlainOrder, PlainFails(output.of, FALSE, context)) = None

\* What the snapshot builder of libs/strategy makes: a close, and with an entry
\* a stop on the right side of it and the entry price that was sized.
MadeByStrategy(s) ==
  /\ s.close > 0
  /\ s.entry = "long" => 0 < s.stop /\ s.stop < s.entryPrice
  /\ s.entry = "short" => 0 < s.entryPrice /\ s.entryPrice < s.stop

\* The builder raises, and leaves no record of the decision, only for snapshots
\* the strategy does not make: a zero size, a symbol outside the universe and
\* an entry that is missing each end in a no-trade decision.
RaisesOnlyOnForeign ==
  (origin # NoSnapshot /\ output.kind = "raised") => ~MadeByStrategy(origin)

\* What the strategy makes is decided and the decision stands: the builder does
\* not raise on it, and a proposal passes the validation of its own input.
SnapshotsAreDecided == RaisesOnlyOnForeign /\ BuiltProposalsPass

\* A proposal built from a snapshot and accepted against the clock, at once or
\* on a retry, is of market data younger than its time to live: the age check,
\* which compares two copies of one time, never sees it.
FreshWhenTimed ==
  (IsProposal /\ origin # NoSnapshot /\ caller.clock /\ verdict.error = None)
    => verdict.at - origin.asOf < TTL

\* A retry never accepts what was refused before, and records what it refuses
\* again under the ids it had before.
RefusalsStick ==
  [][<<origin, input, output, caller>>' = <<origin, input, output, caller>> =>
       /\ verdict.error \notin {None, "unvalidated"} => verdict'.error # None
       /\ IsProposal => Rejections(output.of, caller)
                          \subseteq Rejections(output.of, caller)']_vars
=============================================================================

----------------------- MODULE DecisionBoundary_proofs -----------------------
(***************************************************************************)
(* The decision boundary for any snapshots, offers, inputs and policy: two *)
(* lists of checks written in two modules agree, and what the builder      *)
(* makes passes them.                                                      *)
(***************************************************************************)
EXTENDS DecisionBoundary, WellFoundedInduction, TLAPS

\* A built result is that of its snapshot.
BuiltInv ==
  origin # NoSnapshot =>
    /\ origin \in Snapshots
    /\ output = OutputOf(origin) /\ input = DecisionInputOf(origin)

\* What was refused is refused still: time only adds reasons.
RefusedInv ==
  verdict.error \notin {None, "unvalidated"} =>
    /\ output # NoOutput
    /\ IsProposal /\ caller.policy =>
         verdict.error \in Range(ReportOrder)
                             \cap Issues(output.of, caller.clock, caller.context)
    /\ IsProposal /\ ~caller.policy =>
         verdict.error \in Range(PlainOrder)
                             \cap PlainFails(output.of, caller.clock, caller.context)
    /\ ~IsProposal =>
         verdict.error \in Range(NoTradeOrder)
                             \cap NoTradeFails(output.of, caller.context)

\* What was accepted against the clock was not past its time.
TimedInv ==
  (IsProposal /\ caller.clock /\ verdict.error = None)
    => verdict.at < output.of.validUntil

FreshInv == output = NoOutput => verdict = Unvalidated

IInv == TypeOK /\ BuiltInv /\ RefusedInv /\ TimedInv /\ FreshInv

-----------------------------------------------------------------------------
\* Nat is well-ordered: what replaces induction below.
LEMMA SmallestNumber ==
  ASSUME NEW T \in SUBSET Nat, T # {}
  PROVE  \E x \in T : \A y \in T : x <= y
<1> DEFINE R == {s \in Nat \X Nat : s[1] < s[2]}
<1>1. R = OpToRel(<, Nat)
  BY DEF OpToRel
<1>2. IsWellFoundedOn(R, Nat)
  BY <1>1, NatLessThanWellFounded
<1>3. PICK x \in T : \A y \in T : ~(<<y, x>> \in R)
  BY <1>2, WFMin
<1>4. \A y \in T : ~(y < x)
  BY <1>3
<1> QED BY <1>4

\* The first failing check is one of the failing ones, and there is one if any
\* check of the list fails.
LEMMA FirstFails ==
  ASSUME NEW S, NEW order \in Seq(S), NEW failing, None \notin S
  PROVE  /\ First(order, failing) = None <=> Range(order) \cap failing = {}
         /\ First(order, failing) # None =>
              First(order, failing) \in Range(order) \cap failing
<1> DEFINE F == {k \in 1..Len(order) : order[k] \in failing}
<1>1. /\ Len(order) \in Nat /\ DOMAIN order = 1..Len(order)
      /\ \A k \in 1..Len(order) : order[k] \in S
  OBVIOUS
<1>2. Range(order) \cap failing = {} <=> F = {}
  BY <1>1 DEF Range
<1>3. CASE F = {}
  BY <1>2, <1>3 DEF First
<1>4. CASE F # {}
  <2>1. F \in SUBSET Nat
    BY <1>1
  <2>2. PICK i \in F : \A j \in F : i <= j
    BY <1>4, <2>1, SmallestNumber
  <2>3. \A j \in 1..i-1 : order[j] \notin failing
    <3>1. ASSUME NEW j \in 1..i-1, order[j] \in failing PROVE FALSE
      <4>1. j \in F
        BY <1>1, <3>1
      <4>2. i <= j
        BY <2>2, <4>1
      <4> QED BY <1>1, <2>2, <4>2
    <3> QED BY <3>1
  <2> DEFINE k == CHOOSE k \in 1..Len(order) :
                    /\ order[k] \in failing
                    /\ \A j \in 1..k-1 : order[j] \notin failing
  <2>4. k \in 1..Len(order) /\ order[k] \in failing
    BY <2>2, <2>3
  <2>5. First(order, failing) = order[k]
    BY <1>4 DEF First
  <2> HIDE DEF k
  <2> QED BY <1>1, <1>2, <1>4, <2>4, <2>5 DEF Range
<1> QED BY <1>3, <1>4

\* A list ranges over what it is a list of.
LEMMA RangeOfList ==
  ASSUME NEW S, NEW s \in Seq(S)
  PROVE  Range(s) \subseteq S
<1>1. DOMAIN s = 1..Len(s) /\ \A k \in 1..Len(s) : s[k] \in S
  OBVIOUS
<1>2. ASSUME NEW x \in Range(s) PROVE x \in S
  <2>1. PICK k \in DOMAIN s : x = s[k]
    BY DEF Range
  <2> QED BY <1>1, <2>1
<1> QED BY <1>2

\* What a concatenation ranges over.
LEMMA RangeOfBoth ==
  ASSUME NEW S, NEW s \in Seq(S), NEW t \in Seq(S)
  PROVE  Range(s \o t) = Range(s) \cup Range(t)
<1> DEFINE u == s \o t
<1>1. /\ Len(s) \in Nat /\ Len(t) \in Nat /\ Len(u) = Len(s) + Len(t)
      /\ DOMAIN s = 1..Len(s) /\ DOMAIN t = 1..Len(t) /\ DOMAIN u = 1..Len(u)
      /\ \A k \in 1..Len(s) : u[k] = s[k]
      /\ \A k \in 1..Len(t) : u[Len(s) + k] = t[k]
  OBVIOUS
<1> HIDE DEF u
<1>2. ASSUME NEW k \in 1..Len(u) PROVE u[k] \in Range(s) \cup Range(t)
  <2>1. CASE k <= Len(s)
    BY <1>1, <2>1 DEF Range
  <2>2. CASE k > Len(s)
    <3>1. k - Len(s) \in 1..Len(t) /\ Len(s) + (k - Len(s)) = k
      BY <1>1, <2>2
    <3>2. u[k] = t[k - Len(s)]
      BY <1>1, <3>1
    <3> QED BY <1>1, <3>1, <3>2 DEF Range
  <2> QED BY <1>1, <2>1, <2>2
<1>3. Range(u) \subseteq Range(s) \cup Range(t)
  BY <1>1, <1>2 DEF Range
<1>4. ASSUME NEW k \in 1..Len(s) PROVE s[k] \in Range(u)
  <2>1. k \in 1..Len(u)
    BY <1>1
  <2> QED BY <1>1, <2>1 DEF Range
<1>5. ASSUME NEW k \in 1..Len(t) PROVE t[k] \in Range(u)
  <2>1. Len(s) + k \in 1..Len(u)
    BY <1>1
  <2> QED BY <1>1, <2>1 DEF Range
<1>6. Range(s) \cup Range(t) \subseteq Range(u)
  BY <1>1, <1>4, <1>5 DEF Range
<1> QED BY <1>3, <1>6 DEF u

-----------------------------------------------------------------------------
\* The names of the checks, list by list.
ReportNames ==
  {"future_live", "expired", "symbol_policy", "notional_policy",
   "quantity_policy", "confidence_policy", "rationale_blank", "market_future",
   "market_stale", "market_symbol", "decision_id", "run_id", "mode_context",
   "symbol_market", "symbol_allowed"}

InputNames == {"input_symbol", "market_future", "market_stale"}

ContextNames == {"decision_id", "run_id", "mode_context", "symbol_market"}

SchemaNames ==
  {"quantity_positive", "notional_positive", "entry_positive",
   "stop_positive", "take_profit_positive", "confidence_range",
   "rationale_text", "created_negative", "valid_negative", "valid_order",
   "stop_below_entry", "stop_above_entry"}

WordNames ==
  {"stale", "expired", "timestamp", "created_at", "valid_until", "symbol",
   "quantity", "notional", "price", "rationale", "mode", "live"}

PlainNames == {"future_live", "expired", "plain_allowed"} \cup InputNames
                \cup ContextNames

NoTradeNames == {"future_live"} \cup InputNames \cup ContextNames

LEMMA ReportList ==
  /\ ReportOrder \in Seq(ReportNames) /\ Range(ReportOrder) = ReportNames
  /\ None \notin ReportNames
<1>1. ReportOrder \in Seq(ReportNames) /\ DOMAIN ReportOrder = 1..15
  BY DEF ReportOrder, ReportNames
<1>2. Range(ReportOrder) \subseteq ReportNames
  BY <1>1, RangeOfList
<1>3. /\ ReportOrder[1] = "future_live" /\ ReportOrder[2] = "expired"
      /\ ReportOrder[3] = "symbol_policy" /\ ReportOrder[4] = "notional_policy"
      /\ ReportOrder[5] = "quantity_policy" /\ ReportOrder[6] = "confidence_policy"
      /\ ReportOrder[7] = "rationale_blank" /\ ReportOrder[8] = "market_future"
      /\ ReportOrder[9] = "market_stale" /\ ReportOrder[10] = "market_symbol"
      /\ ReportOrder[11] = "decision_id" /\ ReportOrder[12] = "run_id"
      /\ ReportOrder[13] = "mode_context" /\ ReportOrder[14] = "symbol_market"
      /\ ReportOrder[15] = "symbol_allowed"
  BY DEF ReportOrder
<1>4. ReportNames \subseteq Range(ReportOrder)
  <2>1. \A k \in 1..15 : ReportOrder[k] \in Range(ReportOrder)
    BY <1>1 DEF Range
  <2> QED BY <1>3, <2>1 DEF ReportNames
<1> QED BY <1>1, <1>2, <1>4 DEF ReportNames, None

LEMMA InputList ==
  InputOrder \in Seq(InputNames) /\ Range(InputOrder) = InputNames
<1>1. InputOrder \in Seq(InputNames) /\ DOMAIN InputOrder = 1..3
  BY DEF InputOrder, InputNames
<1>2. /\ InputOrder[1] = "input_symbol" /\ InputOrder[2] = "market_future"
      /\ InputOrder[3] = "market_stale"
  BY DEF InputOrder
<1>3. \A k \in 1..3 : InputOrder[k] \in Range(InputOrder)
  BY <1>1 DEF Range
<1>4. Range(InputOrder) \subseteq InputNames
  BY <1>1, RangeOfList
<1> QED BY <1>1, <1>2, <1>3, <1>4 DEF InputNames

LEMMA PlainList ==
  /\ PlainOrder \in Seq(PlainNames) /\ Range(PlainOrder) = PlainNames
  /\ None \notin PlainNames
<1> DEFINE a == <<"future_live", "expired">>
           b == <<"decision_id", "run_id", "mode_context", "symbol_market",
                  "plain_allowed">>
<1>1. /\ a \in Seq(PlainNames) /\ Range(a) = {"future_live", "expired"}
      /\ b \in Seq(PlainNames)
      /\ Range(b) = ContextNames \cup {"plain_allowed"}
  <2>1. a \in Seq(PlainNames) /\ b \in Seq(PlainNames)
    BY DEF PlainNames, ContextNames
  <2>2. DOMAIN a = 1..2 /\ a[1] = "future_live" /\ a[2] = "expired"
    OBVIOUS
  <2>3. Range(a) = {"future_live", "expired"}
    BY <2>2 DEF Range
  <2>4. /\ DOMAIN b = 1..5 /\ b[1] = "decision_id" /\ b[2] = "run_id"
        /\ b[3] = "mode_context" /\ b[4] = "symbol_market" /\ b[5] = "plain_allowed"
    OBVIOUS
  <2>5. Range(b) = ContextNames \cup {"plain_allowed"}
    BY <2>4 DEF Range, ContextNames
  <2> QED BY <2>1, <2>3, <2>5
<1>2. InputOrder \in Seq(PlainNames)
  BY DEF InputOrder, PlainNames, InputNames
<1> DEFINE c == a \o InputOrder
<1> HIDE DEF a, b
<1>3. Range(c) = {"future_live", "expired"} \cup InputNames
      /\ c \in Seq(PlainNames)
  BY <1>1, <1>2, InputList, RangeOfBoth
<1>4. PlainOrder = c \o b
  BY DEF PlainOrder, a, b
<1> HIDE DEF c
<1>5. Range(c \o b)
        = Range(c) \cup Range(b)
  BY <1>1, <1>3, RangeOfBoth
<1>6. PlainOrder \in Seq(PlainNames)
  BY <1>1, <1>3, <1>4
<1>7. Range(PlainOrder) = PlainNames
  BY <1>1, <1>3, <1>4, <1>5 DEF PlainNames
<1> QED BY <1>6, <1>7 DEF PlainNames, InputNames, ContextNames, None

LEMMA NoTradeList ==
  /\ NoTradeOrder \in Seq(NoTradeNames) /\ Range(NoTradeOrder) = NoTradeNames
  /\ None \notin NoTradeNames
<1> DEFINE a == <<"future_live">>
           b == <<"decision_id", "run_id", "mode_context", "symbol_market">>
<1>1. /\ a \in Seq(NoTradeNames) /\ Range(a) = {"future_live"}
      /\ b \in Seq(NoTradeNames) /\ Range(b) = ContextNames
  <2>1. a \in Seq(NoTradeNames) /\ b \in Seq(NoTradeNames)
    BY DEF NoTradeNames, ContextNames
  <2>2. DOMAIN a = 1..1 /\ a[1] = "future_live"
    OBVIOUS
  <2>3. Range(a) = {"future_live"}
    BY <2>2 DEF Range
  <2>4. /\ DOMAIN b = 1..4 /\ b[1] = "decision_id" /\ b[2] = "run_id"
        /\ b[3] = "mode_context" /\ b[4] = "symbol_market"
    OBVIOUS
  <2>5. Range(b) = ContextNames
    BY <2>4 DEF Range, ContextNames
  <2> QED BY <2>1, <2>3, <2>5
<1>2. InputOrder \in Seq(NoTradeNames)
  BY DEF InputOrder, NoTradeNames, InputNames
<1> DEFINE c == a \o InputOrder
<1> HIDE DEF a, b
<1>3. Range(c) = {"future_live"} \cup InputNames
      /\ c \in Seq(NoTradeNames)
  BY <1>1, <1>2, InputList, RangeOfBoth
<1>4. NoTradeOrder = c \o b
  BY DEF NoTradeOrder, a, b
<1> HIDE DEF c
<1>5. Range(c \o b)
        = Range(c) \cup Range(b)
  BY <1>1, <1>3, RangeOfBoth
<1>6. NoTradeOrder \in Seq(NoTradeNames)
  BY <1>1, <1>3, <1>4
<1>7. Range(NoTradeOrder) = NoTradeNames
  BY <1>1, <1>3, <1>4, <1>5 DEF NoTradeNames
<1> QED BY <1>6, <1>7 DEF NoTradeNames, InputNames, ContextNames, None

LEMMA SchemaList ==
  /\ SchemaOrder \in Seq(SchemaNames) /\ Range(SchemaOrder) \subseteq SchemaNames
  /\ None \notin SchemaNames
<1>1. SchemaOrder \in Seq(SchemaNames) /\ DOMAIN SchemaOrder = 1..12
  BY DEF SchemaOrder, SchemaNames
<1>2. Range(SchemaOrder) \subseteq SchemaNames
  BY <1>1, RangeOfList
<1> QED BY <1>1, <1>2 DEF SchemaNames, None

LEMMA WordList ==
  /\ WordOrder \in Seq(WordNames) /\ WordNames \subseteq Range(WordOrder)
  /\ None \notin WordNames
<1>1. WordOrder \in Seq(WordNames) /\ DOMAIN WordOrder = 1..12
  BY DEF WordOrder, WordNames
<1>2. /\ WordOrder[1] = "stale" /\ WordOrder[2] = "expired"
      /\ WordOrder[3] = "timestamp" /\ WordOrder[4] = "created_at"
      /\ WordOrder[5] = "valid_until" /\ WordOrder[6] = "symbol"
      /\ WordOrder[7] = "quantity" /\ WordOrder[8] = "notional"
      /\ WordOrder[9] = "price" /\ WordOrder[10] = "rationale"
      /\ WordOrder[11] = "mode" /\ WordOrder[12] = "live"
  BY DEF WordOrder
<1>3. \A k \in 1..12 : WordOrder[k] \in Range(WordOrder)
  BY <1>1 DEF Range
<1>4. WordNames \subseteq Range(WordOrder)
  BY <1>2, <1>3 DEF WordNames
<1> QED BY <1>1, <1>4 DEF WordNames, None

-----------------------------------------------------------------------------
\* What validate_trade_proposal refuses without a policy, check by check.
LEMMA PlainFailsAt ==
  ASSUME NEW p, NEW clock, NEW context, NEW error \in PlainFails(p, clock, context)
  PROVE  \/ error = "future_live" /\ p.mode = "future_live"
         \/ error = "expired" /\ clock /\ p.validUntil <= now
         \/ context /\ error \in InputFails(input)
         \/ context /\ error = "decision_id" /\ p.decision # input.decision
         \/ context /\ error = "run_id" /\ p.run # input.run
         \/ context /\ error = "mode_context" /\ p.mode # input.mode
         \/ context /\ error = "symbol_market" /\ p.symbol # input.symbol
         \/ context /\ error = "plain_allowed" /\ p.symbol \notin input.allowed
BY DEF PlainFails, PlainExpired

LEMMA InputFailsAt ==
  ASSUME NEW i, NEW error \in InputFails(i)
  PROVE  \/ error = "input_symbol" /\ i.symbol \notin i.allowed
         \/ error = "market_future" /\ i.created - i.marketTime < 0
         \/ error = "market_stale" /\ i.created - i.marketTime > MaxAge
<1>1. error \in InputNames
  BY InputList DEF InputFails
<1> QED BY <1>1 DEF InputFails, InputNames

\* What the report finds, of the checks that validate_trade_proposal makes too.
LEMMA IssuesAt ==
  ASSUME NEW p, NEW clock, NEW context
  PROVE  /\ p.mode = "future_live" => "future_live" \in Issues(p, clock, context)
         /\ clock /\ p.validUntil <= now => "expired" \in Issues(p, clock, context)
         /\ context =>
              /\ input.created < input.marketTime =>
                   "market_future" \in Issues(p, clock, context)
              /\ input.created - input.marketTime > MaxAge =>
                   "market_stale" \in Issues(p, clock, context)
              /\ input.symbol \notin input.allowed =>
                   "market_symbol" \in Issues(p, clock, context)
              /\ p.decision # input.decision =>
                   "decision_id" \in Issues(p, clock, context)
              /\ p.run # input.run => "run_id" \in Issues(p, clock, context)
              /\ p.mode # input.mode =>
                   "mode_context" \in Issues(p, clock, context)
              /\ p.symbol # input.symbol =>
                   "symbol_market" \in Issues(p, clock, context)
              /\ p.symbol \notin input.allowed =>
                   "symbol_allowed" \in Issues(p, clock, context)
<1>1. \A n \in ReportNames : n \in Range(ReportOrder)
  BY ReportList
<1>2. /\ "future_live" \in Range(ReportOrder) /\ "expired" \in Range(ReportOrder)
      /\ "market_future" \in Range(ReportOrder) /\ "market_stale" \in Range(ReportOrder)
      /\ "market_symbol" \in Range(ReportOrder) /\ "decision_id" \in Range(ReportOrder)
      /\ "run_id" \in Range(ReportOrder) /\ "mode_context" \in Range(ReportOrder)
      /\ "symbol_market" \in Range(ReportOrder)
      /\ "symbol_allowed" \in Range(ReportOrder)
  BY <1>1 DEF ReportNames
<1>3. /\ p.mode = "future_live" => "future_live" \in PolicyFails(p, clock)
      /\ clock /\ p.validUntil <= now => "expired" \in PolicyFails(p, clock)
  BY <1>2 DEF PolicyFails
<1>4. /\ input.created < input.marketTime =>
           "market_future" \in ContextFails(p, input)
      /\ input.created - input.marketTime > MaxAge =>
           "market_stale" \in ContextFails(p, input)
      /\ input.symbol \notin input.allowed =>
           "market_symbol" \in ContextFails(p, input)
      /\ p.decision # input.decision => "decision_id" \in ContextFails(p, input)
  BY <1>2 DEF ContextFails
<1>5. /\ p.run # input.run => "run_id" \in ContextFails(p, input)
      /\ p.mode # input.mode => "mode_context" \in ContextFails(p, input)
      /\ p.symbol # input.symbol => "symbol_market" \in ContextFails(p, input)
      /\ p.symbol \notin input.allowed =>
           "symbol_allowed" \in ContextFails(p, input)
  BY <1>2 DEF ContextFails
<1>6. /\ PolicyFails(p, clock) \subseteq Issues(p, clock, context)
      /\ context => ContextFails(p, input) \subseteq Issues(p, clock, context)
  BY DEF Issues
<1> QED BY <1>3, <1>4, <1>5, <1>6

\* The word that rejection_reason_for_error finds in a message with one of its
\* words.
LEMMA OneWord ==
  ASSUME NEW error, NEW word \in WordNames, Words(error) = {word}
  PROVE  First(WordOrder, Words(error)) = word
<1>1. Range(WordOrder) \cap Words(error) = {word}
  BY WordList
<1> QED BY <1>1, WordList, FirstFails

LEMMA NoWord ==
  ASSUME NEW error, Words(error) = {}
  PROVE  First(WordOrder, Words(error)) = None
BY WordList, FirstFails

\* The reason read back from a raised error, for every check of the report and
\* every one of validate_trade_proposal.
LEMMA ReasonsTable ==
  /\ ReasonForError("future_live") = "mode_not_allowed"
  /\ ReasonForError("expired") = "stale_data"
  /\ ReasonForError("symbol_policy") = "symbol_not_allowed"
  /\ ReasonForError("notional_policy") = "size_invalid"
  /\ ReasonForError("quantity_policy") = "size_invalid"
  /\ ReasonForError("confidence_policy") = "schema_invalid"
  /\ ReasonForError("rationale_blank") = "rationale_missing"
  /\ ReasonForError("market_future") = "timestamp_invalid"
  /\ ReasonForError("market_stale") = "stale_data"
  /\ ReasonForError("market_symbol") = "symbol_not_allowed"
  /\ ReasonForError("decision_id") = "schema_invalid"
  /\ ReasonForError("run_id") = "schema_invalid"
  /\ ReasonForError("mode_context") = "mode_not_allowed"
  /\ ReasonForError("symbol_market") = "symbol_not_allowed"
  /\ ReasonForError("symbol_allowed") = "symbol_not_allowed"
  /\ ReasonForError("input_symbol") = "symbol_not_allowed"
  /\ ReasonForError("plain_allowed") = "symbol_not_allowed"
<1>1. ASSUME NEW error
      PROVE  LET word == First(WordOrder, Words(error)) IN
             /\ word \in {"stale", "expired"} => ReasonForError(error) = "stale_data"
             /\ word = "timestamp" => ReasonForError(error) = "timestamp_invalid"
             /\ word = "symbol" => ReasonForError(error) = "symbol_not_allowed"
             /\ word \in {"quantity", "notional"} =>
                  ReasonForError(error) = "size_invalid"
             /\ word = "rationale" => ReasonForError(error) = "rationale_missing"
             /\ word \in {"mode", "live"} =>
                  ReasonForError(error) = "mode_not_allowed"
             /\ word = None => ReasonForError(error) = "schema_invalid"
  BY DEF ReasonForError, None
<1>2. /\ Words("future_live") = {"live"} /\ Words("expired") = {"expired"}
      /\ Words("notional_policy") = {"notional"}
      /\ Words("quantity_policy") = {"quantity"}
  BY DEF Words
<1>3. /\ Words("rationale_blank") = {"rationale"}
      /\ Words("market_future") = {"timestamp"} /\ Words("market_stale") = {"stale"}
      /\ Words("mode_context") = {"mode"}
  BY DEF Words
<1>4. \A e \in {"symbol_policy", "market_symbol", "input_symbol",
               "symbol_market", "symbol_allowed", "plain_allowed"} :
        Words(e) = {"symbol"}
  BY DEF Words
<1>5. \A e \in {"confidence_policy", "decision_id", "run_id"} : Words(e) = {}
  BY DEF Words
<1>6. {"live", "expired", "notional", "quantity", "rationale", "timestamp",
       "stale", "mode", "symbol"} \subseteq WordNames
  BY DEF WordNames
<1>7. /\ First(WordOrder, Words("future_live")) = "live"
      /\ First(WordOrder, Words("expired")) = "expired"
      /\ First(WordOrder, Words("notional_policy")) = "notional"
      /\ First(WordOrder, Words("quantity_policy")) = "quantity"
  BY <1>2, <1>6, OneWord
<1>8. /\ First(WordOrder, Words("rationale_blank")) = "rationale"
      /\ First(WordOrder, Words("market_future")) = "timestamp"
      /\ First(WordOrder, Words("market_stale")) = "stale"
      /\ First(WordOrder, Words("mode_context")) = "mode"
  BY <1>3, <1>6, OneWord
<1>9. \A e \in {"symbol_policy", "market_symbol", "input_symbol",
               "symbol_market", "symbol_allowed", "plain_allowed"} :
        First(WordOrder, Words(e)) = "symbol"
  BY <1>4, <1>6, OneWord
<1>10. \A e \in {"confidence_policy", "decision_id", "run_id"} :
         First(WordOrder, Words(e)) = None
  BY <1>5, NoWord
<1>11. /\ ReasonForError("future_live") = "mode_not_allowed"
       /\ ReasonForError("expired") = "stale_data"
       /\ ReasonForError("notional_policy") = "size_invalid"
       /\ ReasonForError("quantity_policy") = "size_invalid"
  BY <1>1, <1>7
<1>12. /\ ReasonForError("rationale_blank") = "rationale_missing"
       /\ ReasonForError("market_future") = "timestamp_invalid"
       /\ ReasonForError("market_stale") = "stale_data"
       /\ ReasonForError("mode_context") = "mode_not_allowed"
  BY <1>1, <1>8
<1>13. \A e \in {"symbol_policy", "market_symbol", "input_symbol",
                "symbol_market", "symbol_allowed", "plain_allowed"} :
         ReasonForError(e) = "symbol_not_allowed"
  BY <1>1, <1>9
<1>14. \A e \in {"confidence_policy", "decision_id", "run_id"} :
         ReasonForError(e) = "schema_invalid"
  BY <1>1, <1>10
<1> QED BY <1>11, <1>12, <1>13, <1>14

-----------------------------------------------------------------------------
\* A proposal is constructed, or the first of its failing checks is raised.
LEMMA ProposalOrRaised ==
  ASSUME NEW o \in AllOffers
  PROVE  /\ TradeProposal(o) \in Outputs
         /\ TradeProposal(o).kind = "proposal" =>
              TradeProposal(o) = [kind |-> "proposal", of |-> o]
         /\ TradeProposal(o).kind = "raised" => SchemaFails(o) # {}
         /\ TradeProposal(o).kind \in {"proposal", "raised"}
<1>1. CASE SchemaFails(o) = {}
  <2>1. TradeProposal(o) = [kind |-> "proposal", of |-> o]
    BY <1>1 DEF TradeProposal
  <2> QED BY <2>1 DEF Outputs
<1>2. CASE SchemaFails(o) # {}
  <2>1. TradeProposal(o)
          = [kind |-> "raised", error |-> First(SchemaOrder, SchemaFails(o))]
    BY <1>2 DEF TradeProposal, Raised
  <2>2. SchemaFails(o) \subseteq Range(SchemaOrder)
    BY DEF SchemaFails
  <2>3. First(SchemaOrder, SchemaFails(o)) \in Range(SchemaOrder)
    <3>1. Range(SchemaOrder) \cap SchemaFails(o) # {}
      BY <1>2, <2>2
    <3> QED BY <3>1, SchemaList, FirstFails
  <2> QED BY <1>2, <2>1, <2>3 DEF Outputs
<1> QED BY <1>1, <1>2

\* What a snapshot's proposal would be.
LEMMA ProposalTyped ==
  ASSUME NEW s \in Snapshots, s.entry # "hold"
  PROVE  /\ ProposalOf(s) \in AllOffers /\ ProposalOf(s).mode = Mode
         /\ ProposalOf(s).decision = SnapshotDecision
         /\ ProposalOf(s).run = SnapshotRun /\ ProposalOf(s).symbol = s.symbol
         /\ ProposalOf(s).validUntil = s.asOf + TTL
         /\ ProposalOf(s).side = s.entry /\ ProposalOf(s).quantity = s.quantity
         /\ ProposalOf(s).notional = s.notional
         /\ ProposalOf(s).entryPrice = s.entryPrice /\ ProposalOf(s).stop = s.stop
         /\ ProposalOf(s).confidence = s.strength /\ ProposalOf(s).rationale
         /\ ProposalOf(s).takeProfit = 0
         /\ ProposalOf(s).created = s.asOf
<1>1. /\ s.symbol \in Symbols /\ s.asOf \in 0..MaxTime /\ s.entry \in Sides
      /\ s.entryPrice \in Int /\ s.stop \in Int /\ s.quantity \in Int
      /\ s.notional \in Int /\ s.strength \in Int /\ MaxTime \in Nat
  BY DecisionAssumption DEF AllSnapshots
<1>2. /\ SnapshotDecision \in Decisions /\ SnapshotRun \in Runs /\ Mode \in Modes
      /\ TTL \in Nat
  BY DecisionAssumption
<1>3. s.asOf \in Int /\ s.asOf + TTL \in Int
  BY <1>1, <1>2
<1>4. ProposalOf(s) =
        [decision |-> SnapshotDecision, run |-> SnapshotRun, mode |-> Mode,
         symbol |-> s.symbol, side |-> s.entry, quantity |-> s.quantity,
         notional |-> s.notional, entryPrice |-> s.entryPrice, stop |-> s.stop,
         takeProfit |-> 0, confidence |-> s.strength, rationale |-> TRUE,
         created |-> s.asOf, validUntil |-> s.asOf + TTL]
  BY DEF ProposalOf, DecisionTime
<1>5. ProposalOf(s) \in AllOffers
  BY <1>1, <1>2, <1>3, <1>4 DEF AllOffers
<1> QED BY <1>4, <1>5

\* The decision of a snapshot and its input.
LEMMA DecisionTyped ==
  ASSUME NEW s \in Snapshots
  PROVE  /\ OutputOf(s) \in Outputs /\ DecisionInputOf(s) \in AllInputs
         /\ OutputOf(s).kind = "proposal" =>
              /\ OutputOf(s) = [kind |-> "proposal", of |-> ProposalOf(s)]
              /\ ~EntryMissing(s) /\ s.entry # "hold" /\ s.symbol \in Allowed
         /\ OutputOf(s).kind = "raised" =>
              \/ s.close = 0 /\ s.entryPrice = 0
              \/ ~EntryMissing(s) /\ SchemaFails(ProposalOf(s)) # {}
<1>1. /\ s.symbol \in Symbols /\ s.asOf \in Nat
      /\ SnapshotDecision \in Decisions /\ SnapshotRun \in Runs /\ Mode \in Modes
      /\ Allowed \in SUBSET Symbols
  BY DecisionAssumption DEF AllSnapshots
<1>2. DecisionInputOf(s) \in AllInputs
  BY <1>1 DEF DecisionInputOf, DecisionTime, AllInputs
<1>3. CASE s.close = 0 /\ s.entryPrice = 0
  BY <1>2, <1>3 DEF OutputOf, Raised, Outputs
<1>4. CASE ~(s.close = 0 /\ s.entryPrice = 0) /\ s.symbol \notin Allowed
  <2>1. OutputOf(s) = NoTrade(s, "out_of_universe")
    BY <1>4 DEF OutputOf
  <2> QED BY <1>1, <1>2, <2>1 DEF NoTrade, Outputs
<1>5. CASE /\ ~(s.close = 0 /\ s.entryPrice = 0) /\ s.symbol \in Allowed
           /\ EntryMissing(s)
  <2>1. OutputOf(s) = NoTrade(s, "no_signal")
    BY <1>5 DEF OutputOf
  <2> QED BY <1>1, <1>2, <2>1 DEF NoTrade, Outputs
<1>6. CASE /\ ~(s.close = 0 /\ s.entryPrice = 0) /\ s.symbol \in Allowed
           /\ ~EntryMissing(s)
  <2>1. OutputOf(s) = TradeProposal(ProposalOf(s)) /\ s.entry # "hold"
    BY <1>6 DEF OutputOf, EntryMissing
  <2>2. ProposalOf(s) \in AllOffers
    BY <2>1, ProposalTyped
  <2> QED BY <1>2, <1>6, <2>1, <2>2, ProposalOrRaised
<1> QED BY <1>3, <1>4, <1>5, <1>6

\* Outputs by their kind.
LEMMA OutputKinds ==
  ASSUME TypeOK, output # NoOutput
  PROVE  /\ output.kind \in {"proposal", "no_trade", "raised"}
         /\ IsProposal => output.of \in AllOffers
         /\ input \in AllInputs
BY DEF TypeOK, Outputs, IsProposal

\* What is refused stays refused as time passes.
LEMMA FailsGrow ==
  ASSUME TypeOK, IsProposal, now' \in Int, now <= now',
         UNCHANGED <<input, output, caller>>
  PROVE  /\ Issues(output.of, caller.clock, caller.context)
              \subseteq Issues(output.of, caller.clock, caller.context)'
         /\ PlainFails(output.of, caller.clock, caller.context)
              \subseteq PlainFails(output.of, caller.clock, caller.context)'
<1>1. output.of.validUntil \in Int /\ now \in Int
  BY OutputKinds DEF IsProposal, AllOffers, TypeOK
<1>2. output.of.validUntil <= now => output.of.validUntil <= now'
  BY <1>1
<1>3. PolicyFails(output.of, caller.clock) \subseteq PolicyFails(output.of, caller.clock)'
  BY <1>2 DEF PolicyFails
<1>4. ContextFails(output.of, input)' = ContextFails(output.of, input)
  BY DEF ContextFails
<1>5. Issues(output.of, caller.clock, caller.context)
        \subseteq Issues(output.of, caller.clock, caller.context)'
  BY <1>3, <1>4 DEF Issues
<1>6. PlainFails(output.of, caller.clock, caller.context)
        \subseteq PlainFails(output.of, caller.clock, caller.context)'
  BY <1>2 DEF PlainFails, PlainExpired, InputFails
<1> QED BY <1>5, <1>6

\* What validation says, and that it is one of the checks that fail.
LEMMA ProposalErrorFails ==
  ASSUME NEW p, NEW c
  PROVE  /\ ProposalError(p, c) \in Errors
         /\ c.policy /\ ProposalError(p, c) # None =>
              ProposalError(p, c) \in Range(ReportOrder) \cap Issues(p, c.clock, c.context)
         /\ ~c.policy /\ ProposalError(p, c) # None =>
              ProposalError(p, c)
                \in Range(PlainOrder) \cap PlainFails(p, c.clock, c.context)
         /\ c.clock /\ ProposalError(p, c) = None => ~(p.validUntil <= now)
<1>1. CASE c.policy
  <2> DEFINE fails == Issues(p, c.clock, c.context)
             error == First(ReportOrder, fails)
  <2>1. ProposalError(p, c) = error
    BY <1>1 DEF ProposalError
  <2> HIDE DEF fails
  <2>2. /\ error = None <=> Range(ReportOrder) \cap fails = {}
        /\ error # None => error \in Range(ReportOrder) \cap fails
    BY ReportList, FirstFails
  <2>3. error \in Errors
    BY <2>2 DEF Errors
  <2>4. c.clock /\ p.validUntil <= now => "expired" \in fails
    BY IssuesAt DEF fails
  <2>5. "expired" \in Range(ReportOrder)
    BY ReportList DEF ReportNames
  <2> HIDE DEF error
  <2> QED BY <1>1, <2>1, <2>2, <2>3, <2>4, <2>5 DEF fails
<1>2. CASE ~c.policy
  <2> DEFINE fails == PlainFails(p, c.clock, c.context)
             error == First(PlainOrder, fails)
  <2>1. ProposalError(p, c) = error
    BY <1>2 DEF ProposalError
  <2>2. c.clock /\ p.validUntil <= now => "expired" \in fails
    BY DEF PlainFails, PlainExpired
  <2> HIDE DEF fails
  <2>3. /\ error = None <=> Range(PlainOrder) \cap fails = {}
        /\ error # None => error \in Range(PlainOrder) \cap fails
    BY PlainList, FirstFails
  <2>4. error \in Errors
    BY <2>3 DEF Errors
  <2>5. "expired" \in Range(PlainOrder)
    BY PlainList DEF PlainNames
  <2> HIDE DEF error
  <2> QED BY <1>2, <2>1, <2>2, <2>3, <2>4, <2>5 DEF fails
<1> QED BY <1>1, <1>2

LEMMA NoTradeErrorFails ==
  ASSUME NEW n, NEW context
  PROVE  /\ NoTradeError(n, context) \in Errors
         /\ NoTradeError(n, context) # None =>
              NoTradeError(n, context)
                \in Range(NoTradeOrder) \cap NoTradeFails(n, context)
         /\ NoTradeError(n, context) = None =>
              Range(NoTradeOrder) \cap NoTradeFails(n, context) = {}
<1> DEFINE fails == NoTradeFails(n, context)
           error == First(NoTradeOrder, fails)
<1>1. NoTradeError(n, context) = error
  BY DEF NoTradeError
<1> HIDE DEF fails
<1>2. /\ error = None <=> Range(NoTradeOrder) \cap fails = {}
      /\ error # None => error \in Range(NoTradeOrder) \cap fails
  BY NoTradeList, FirstFails
<1>3. error \in Errors
  BY <1>2 DEF Errors
<1> HIDE DEF error
<1> QED BY <1>1, <1>2, <1>3 DEF fails

-----------------------------------------------------------------------------
\* The inductive invariant holds at the start.
LEMMA InitIInv == Init => IInv
<1> SUFFICES ASSUME Init PROVE IInv
  OBVIOUS
<1>1. TypeOK
  BY DecisionAssumption DEF Init, TypeOK, Unvalidated
<1>2. BuiltInv /\ FreshInv
  BY DEF Init, BuiltInv, FreshInv
<1>3. RefusedInv /\ TimedInv
  BY DEF Init, RefusedInv, TimedInv, Unvalidated, IsProposal
<1> QED BY <1>1, <1>2, <1>3 DEF IInv

\* A new result has no verdict yet.
LEMMA NewResultKeeps ==
  ASSUME IInv, output = NoOutput, UNCHANGED <<now, caller, verdict>>,
         origin' \in Snapshots \cup {NoSnapshot}, input' \in AllInputs,
         output' \in Outputs,
         origin' # NoSnapshot =>
           output' = OutputOf(origin') /\ input' = DecisionInputOf(origin')
  PROVE  IInv'
<1>1. verdict = Unvalidated /\ verdict.error = "unvalidated"
  BY DEF IInv, FreshInv, Unvalidated
<1>2. output' # NoOutput
  BY DEF Outputs, NoOutput
<1>3. TypeOK'
  BY <1>2 DEF IInv, TypeOK
<1>4. BuiltInv'
  <2>1. origin' # NoSnapshot =>
          output' = OutputOf(origin)' /\ input' = DecisionInputOf(origin)'
    BY DEF OutputOf, DecisionInputOf, DecisionTime, EntryMissing, NoTrade, Raised,
         TradeProposal, ProposalOf
  <2> QED BY <2>1 DEF BuiltInv
<1>5. RefusedInv' /\ TimedInv' /\ FreshInv'
  BY <1>1, <1>2 DEF RefusedInv, TimedInv, FreshInv, None
<1> QED BY <1>3, <1>4, <1>5 DEF IInv

LEMMA BuildKeeps ==
  ASSUME IInv, NEW s \in Snapshots, Build(s)
  PROVE  IInv'
<1>1. /\ output = NoOutput /\ UNCHANGED <<now, caller, verdict>>
      /\ origin' = s /\ input' = DecisionInputOf(s) /\ output' = OutputOf(s)
  BY DEF Build
<1>2. OutputOf(s) \in Outputs /\ DecisionInputOf(s) \in AllInputs
  BY DecisionTyped
<1> QED BY <1>1, <1>2, NewResultKeeps

LEMMA OfferKeeps ==
  ASSUME IInv, NEW o \in Offers, NEW i \in Inputs, Offer(o, i)
  PROVE  IInv'
<1>1. /\ output = NoOutput /\ UNCHANGED <<now, caller, verdict>>
      /\ origin' = NoSnapshot /\ input' = i /\ output' = TradeProposal(o)
  BY DEF Offer
<1>2. o \in AllOffers /\ i \in AllInputs
  BY DecisionAssumption
<1>3. TradeProposal(o) \in Outputs
  BY <1>2, ProposalOrRaised
<1> QED BY <1>1, <1>2, <1>3, NewResultKeeps

\* A verdict is one of the checks that fail, or none.
LEMMA ValidateKeeps ==
  ASSUME IInv, Validate
  PROVE  IInv'
<1>1. /\ TypeOK /\ output # NoOutput /\ output.kind # "raised"
      /\ UNCHANGED <<now, origin, input, output, caller>>
      /\ verdict' = [at |-> now,
                     error |-> IF output.kind = "proposal"
                               THEN ProposalError(output.of, caller)
                               ELSE NoTradeError(output.of, caller.context)]
  BY DEF IInv, Validate
<1>2. verdict'.at = now
      /\ verdict'.error = IF IsProposal THEN ProposalError(output.of, caller)
                          ELSE NoTradeError(output.of, caller.context)
  BY <1>1 DEF IsProposal
<1>3. TypeOK'
  <2>1. ProposalError(output.of, caller) \in Errors
        /\ NoTradeError(output.of, caller.context) \in Errors
    BY ProposalErrorFails, NoTradeErrorFails
  <2>2. now \in 0..now
    BY <1>1, DecisionAssumption DEF TypeOK
  <2> QED BY <1>1, <2>1, <2>2 DEF TypeOK
<1>4. BuiltInv' /\ FreshInv'
  <2>1. OutputOf(origin)' = OutputOf(origin)
        /\ DecisionInputOf(origin)' = DecisionInputOf(origin)
    BY <1>1 DEF OutputOf, DecisionInputOf, DecisionTime, EntryMissing, NoTrade,
         Raised, TradeProposal, ProposalOf
  <2> QED BY <1>1, <2>1 DEF IInv, BuiltInv, FreshInv
<1>5. RefusedInv'
  <2>1. Issues(output.of, caller.clock, caller.context)'
          = Issues(output.of, caller.clock, caller.context)
    BY <1>1 DEF Issues, PolicyFails, ContextFails
  <2>2. PlainFails(output.of, caller.clock, caller.context)'
          = PlainFails(output.of, caller.clock, caller.context)
    BY <1>1 DEF PlainFails, PlainExpired, InputFails
  <2>3. NoTradeFails(output.of, caller.context)'
          = NoTradeFails(output.of, caller.context)
    BY <1>1 DEF NoTradeFails, InputFails
  <2>4. IsProposal' = IsProposal
    BY <1>1 DEF IsProposal
  <2>5. CASE IsProposal
    BY <1>1, <1>2, <2>1, <2>2, <2>4, <2>5, ProposalErrorFails DEF RefusedInv
  <2>6. CASE ~IsProposal
    BY <1>1, <1>2, <2>3, <2>4, <2>6, NoTradeErrorFails DEF RefusedInv
  <2> QED BY <2>5, <2>6
<1>6. TimedInv'
  <2> SUFFICES ASSUME IsProposal, caller.clock, verdict'.error = None
               PROVE  verdict'.at < output.of.validUntil
    BY <1>1 DEF TimedInv, IsProposal
  <2>1. ~(output.of.validUntil <= now)
    BY <1>2, ProposalErrorFails
  <2>2. output.of.validUntil \in Int /\ now \in Int
    BY <1>1, OutputKinds DEF IsProposal, AllOffers, TypeOK
  <2> QED BY <1>2, <2>1, <2>2
<1> QED BY <1>3, <1>4, <1>5, <1>6 DEF IInv

\* Time only adds reasons to refuse.
LEMMA LaterKeeps ==
  ASSUME IInv, Tick \/ UNCHANGED vars
  PROVE  IInv'
<1>1. /\ UNCHANGED <<origin, input, output, caller, verdict>> /\ TypeOK
      /\ now' \in 0..MaxTime /\ now' \in Int /\ now \in Int /\ now <= now'
  <2>1. now \in 0..MaxTime /\ MaxTime \in Nat
    BY DecisionAssumption DEF IInv, TypeOK
  <2>2. CASE Tick
    BY <2>1, <2>2 DEF Tick, IInv
  <2>3. CASE UNCHANGED vars
    BY <2>1, <2>3 DEF vars, IInv
  <2> QED BY <2>2, <2>3
<1>2. TypeOK'
  <2>1. verdict \in [at : 0..now, error : Errors \cup {"unvalidated"}]
    BY <1>1 DEF TypeOK
  <2>2. 0..now \subseteq 0..now'
    BY <1>1
  <2>3. verdict \in [at : 0..now', error : Errors \cup {"unvalidated"}]
    BY <2>1, <2>2
  <2> QED BY <1>1, <2>3 DEF TypeOK
<1>3. BuiltInv' /\ FreshInv' /\ TimedInv'
  <2>1. OutputOf(origin)' = OutputOf(origin)
        /\ DecisionInputOf(origin)' = DecisionInputOf(origin)
    BY <1>1 DEF OutputOf, DecisionInputOf, DecisionTime, EntryMissing, NoTrade,
         Raised, TradeProposal, ProposalOf
  <2> QED BY <1>1, <2>1 DEF IInv, BuiltInv, FreshInv, TimedInv, IsProposal
<1>4. RefusedInv'
  <2>1. IsProposal' = IsProposal
    BY <1>1 DEF IsProposal
  <2>2. NoTradeFails(output.of, caller.context)'
          = NoTradeFails(output.of, caller.context)
    BY <1>1 DEF NoTradeFails, InputFails
  <2>3. CASE IsProposal
    <3>1. /\ Issues(output.of, caller.clock, caller.context)
               \subseteq Issues(output.of, caller.clock, caller.context)'
          /\ PlainFails(output.of, caller.clock, caller.context)
               \subseteq PlainFails(output.of, caller.clock, caller.context)'
      BY <1>1, <2>3, FailsGrow
    <3> QED BY <1>1, <2>1, <2>3, <3>1 DEF IInv, RefusedInv
  <2>4. CASE ~IsProposal
    BY <1>1, <2>1, <2>2, <2>4 DEF IInv, RefusedInv
  <2> QED BY <2>3, <2>4
<1> QED BY <1>2, <1>3, <1>4 DEF IInv

\* The invariant is inductive.
LEMMA StepKeeps == IInv /\ [Next]_vars => IInv'
<1> SUFFICES ASSUME IInv, [Next]_vars PROVE IInv'
  OBVIOUS
<1>1. CASE \E s \in Snapshots : Build(s)
  BY <1>1, BuildKeeps
<1>2. CASE \E o \in Offers, i \in Inputs : Offer(o, i)
  BY <1>2, OfferKeeps
<1>3. CASE Validate
  BY <1>3, ValidateKeeps
<1>4. CASE Tick \/ UNCHANGED vars
  BY <1>4, LaterKeeps
<1> QED BY <1>1, <1>2, <1>3, <1>4 DEF Next

\* In every reachable state.
LEMMA Inductive == Spec => []IInv
<1>1. Init => IInv
  BY InitIInv
<1>2. IInv /\ [Next]_vars => IInv'
  BY StepKeeps
<1> QED BY <1>1, <1>2, PTL DEF Spec

\* Every variable keeps its type.
THEOREM TypeCorrect == Spec => []TypeOK
<1>1. IInv => TypeOK
  BY DEF IInv
<1> QED BY <1>1, Inductive, PTL

\* The two lists of checks, of two modules, agree on every proposal: whatever
\* validate_trade_proposal refuses without a policy the report of the validators
\* refuses, and for the reason its message is read as.
LEMMA TwoListsAgree ==
  ASSUME IInv
  PROVE  ListsAgree
<1>1. ListsAgree
  <2> SUFFICES ASSUME IsProposal, NEW clock \in BOOLEAN, NEW context \in BOOLEAN,
                      First(PlainOrder, PlainFails(output.of, clock, context)) # None
               PROVE  ReasonForError(
                        First(PlainOrder, PlainFails(output.of, clock, context)))
                        \in {IssueReason[n] : n \in Issues(output.of, clock, context)}
    BY DEF ListsAgree
  <2> DEFINE fails == PlainFails(output.of, clock, context)
             error == First(PlainOrder, fails)
             issues == Issues(output.of, clock, context)
  <2> HIDE DEF fails
  <2>1. error \in fails
    BY PlainList, FirstFails DEF fails
  <2> HIDE DEF error
  <2>2. \/ error = "future_live" /\ output.of.mode = "future_live"
        \/ error = "expired" /\ clock /\ output.of.validUntil <= now
        \/ context /\ error \in InputFails(input)
        \/ context /\ error = "decision_id" /\ output.of.decision # input.decision
        \/ context /\ error = "run_id" /\ output.of.run # input.run
        \/ context /\ error = "mode_context" /\ output.of.mode # input.mode
        \/ context /\ error = "symbol_market" /\ output.of.symbol # input.symbol
        \/ context /\ error = "plain_allowed" /\ output.of.symbol \notin input.allowed
    BY <2>1, PlainFailsAt DEF fails
  <2>3. error \in InputFails(input) =>
          \/ error = "input_symbol" /\ input.symbol \notin input.allowed
          \/ error = "market_future" /\ input.created < input.marketTime
          \/ error = "market_stale" /\ input.created - input.marketTime > MaxAge
    <3>1. input.created \in Int /\ input.marketTime \in Int
      BY OutputKinds DEF IInv, IsProposal, AllInputs
    <3> QED BY <3>1, InputFailsAt
  <2>4. \/ error \in {"future_live", "expired", "market_future", "market_stale",
                      "decision_id", "run_id", "mode_context", "symbol_market"}
             /\ error \in issues
        \/ error = "input_symbol" /\ "market_symbol" \in issues
        \/ error = "plain_allowed" /\ "symbol_allowed" \in issues
    BY <2>2, <2>3, IssuesAt
  <2>5. PICK n \in issues : ReasonForError(error) = IssueReason[n]
    BY <2>4, ReasonsTable DEF IssueReason
  <2> QED BY <2>5 DEF error, fails
<1> QED BY <1>1

\* The words of the message lead back to the reason the report gave, for every
\* check of the report.
LEMMA ReadBack ==
  ASSUME IInv
  PROVE  ReasonsAgree
<1>1. ReasonsAgree
  <2> SUFFICES ASSUME IsProposal, caller.policy,
                      verdict.error \notin {None, "unvalidated"}
               PROVE  ReasonForError(verdict.error) = IssueReason[verdict.error]
    BY DEF ReasonsAgree
  <2>1. verdict.error \in ReportNames
    BY ReportList DEF IInv, RefusedInv
  <2>2. \A n \in ReportNames : ReasonForError(n) = IssueReason[n]
    BY ReasonsTable DEF ReportNames, IssueReason
  <2> QED BY <2>1, <2>2
<1> QED BY <1>1

\* The report and the raising validators agree on every proposal, input and
\* policy.
THEOREM ReportAndRaiseAgree == Spec => []ValidatorsAgree
<1>1. IInv => ValidatorsAgree
  BY TwoListsAgree, ReadBack DEF ValidatorsAgree
<1> QED BY <1>1, Inductive, PTL

\* What the builder of deterministic decisions makes, for any snapshot of any
\* time, passes the validation of its own input.
LEMMA OwnInputAccepts ==
  ASSUME IInv
  PROVE  BuiltProposalsPass
<1>1. BuiltProposalsPass
  <2> SUFFICES ASSUME IsProposal, origin # NoSnapshot, Mode # "future_live",
                      NEW context \in BOOLEAN
               PROVE  First(PlainOrder, PlainFails(output.of, FALSE, context)) = None
    BY DEF BuiltProposalsPass
  <2>1. /\ origin \in Snapshots /\ output = OutputOf(origin)
        /\ input = DecisionInputOf(origin)
    BY DEF IInv, BuiltInv
  <2>2. /\ output.of = ProposalOf(origin) /\ origin.entry # "hold"
        /\ origin.symbol \in Allowed
    BY <2>1, DecisionTyped DEF IsProposal
  <2>3. /\ output.of.mode = Mode /\ output.of.decision = SnapshotDecision
        /\ output.of.run = SnapshotRun /\ output.of.symbol = origin.symbol
    BY <2>1, <2>2, ProposalTyped
  <2>4. /\ input.mode = Mode /\ input.decision = SnapshotDecision
        /\ input.run = SnapshotRun /\ input.symbol = origin.symbol
        /\ input.allowed = Allowed /\ input.created = input.marketTime
        /\ input.created \in Int
    BY <2>1, DecisionAssumption DEF DecisionInputOf, DecisionTime, AllSnapshots
  <2>5. ASSUME NEW error \in PlainFails(output.of, FALSE, context) PROVE FALSE
    <3>1. error \notin InputFails(input)
      <4>1. input.created - input.marketTime = 0 /\ MaxAge \in Nat
        BY <2>4, DecisionAssumption
      <4> QED BY <2>2, <2>4, <4>1, InputFailsAt
    <3> QED BY <2>2, <2>3, <2>4, <2>5, <3>1, PlainFailsAt
  <2> DEFINE fails == PlainFails(output.of, FALSE, context)
  <2>6. Range(PlainOrder) \cap fails = {}
    BY <2>5
  <2> HIDE DEF fails
  <2>7. First(PlainOrder, fails) = None
    BY <2>6, PlainList, FirstFails
  <2> QED BY <2>7 DEF fails
<1> QED BY <1>1

\* The builder raises for no snapshot the strategy makes.
LEMMA StrategyNeverRaises ==
  ASSUME IInv
  PROVE  RaisesOnlyOnForeign
<1>1. RaisesOnlyOnForeign
  <2> SUFFICES ASSUME origin # NoSnapshot, output.kind = "raised",
                      MadeByStrategy(origin)
               PROVE  FALSE
    BY DEF RaisesOnlyOnForeign
  <2>1. origin \in Snapshots /\ output = OutputOf(origin)
    BY DEF IInv, BuiltInv
  <2>2. ~EntryMissing(origin) /\ SchemaFails(ProposalOf(origin)) # {}
    BY <2>1, DecisionTyped DEF MadeByStrategy
  <2> DEFINE o == ProposalOf(origin)
  <2>3. /\ origin.entry \in Sides /\ origin.entry # "hold"
        /\ origin.entryPrice \in Nat \ {0} /\ origin.stop \in Nat \ {0}
        /\ origin.quantity \in Nat \ {0} /\ origin.notional \in Nat \ {0}
        /\ origin.strength \in 0..100 /\ origin.asOf \in Nat /\ TTL \in Nat \ {0}
    BY <2>1, <2>2, DecisionAssumption DEF EntryMissing, AllSnapshots
  <2>4. /\ o.side = origin.entry /\ o.quantity = origin.quantity
        /\ o.notional = origin.notional /\ o.entryPrice = origin.entryPrice
        /\ o.stop = origin.stop /\ o.confidence = origin.strength /\ o.rationale
        /\ o.created = origin.asOf /\ o.validUntil = origin.asOf + TTL
        /\ o.takeProfit = 0
    BY <2>1, <2>3, ProposalTyped
  <2> HIDE DEF o
  <2>5. /\ o.side = "long" => o.stop < o.entryPrice
        /\ o.side = "short" => o.entryPrice < o.stop
    BY <2>4 DEF MadeByStrategy
  <2>6. /\ ~(o.quantity <= 0) /\ ~(o.notional <= 0) /\ ~(o.entryPrice <= 0)
        /\ ~(o.stop <= 0) /\ ~(o.takeProfit < 0)
        /\ ~(o.created < 0) /\ ~(o.validUntil < 0)
        /\ ~(o.validUntil <= o.created) /\ o.confidence \in 0..100
        /\ ~(o.side = "long" /\ o.stop >= o.entryPrice)
        /\ ~(o.side = "short" /\ o.stop <= o.entryPrice)
    BY <2>3, <2>4, <2>5
  <2>7. ASSUME NEW n \in SchemaFails(o) PROVE FALSE
    <3>1. n \in SchemaNames
      BY SchemaList DEF SchemaFails
    <3> QED BY <2>4, <2>6, <2>7, <3>1 DEF SchemaFails, SchemaNames
  <2> QED BY <2>2, <2>7 DEF o
<1> QED BY <1>1

\* Every snapshot the strategy makes is decided, and the decision stands.
THEOREM EverySnapshotIsDecided == Spec => []SnapshotsAreDecided
<1>1. IInv => SnapshotsAreDecided
  BY OwnInputAccepts, StrategyNeverRaises DEF SnapshotsAreDecided
<1> QED BY <1>1, Inductive, PTL

\* A proposal accepted against the clock is younger than its time to live.
THEOREM AcceptedIsFresh == Spec => []FreshWhenTimed
<1>1. ASSUME IInv PROVE FreshWhenTimed
  <2> SUFFICES ASSUME IsProposal, origin # NoSnapshot, caller.clock,
                      verdict.error = None
               PROVE  verdict.at - origin.asOf < TTL
    BY DEF FreshWhenTimed
  <2>1. origin \in Snapshots /\ output = OutputOf(origin)
    BY <1>1 DEF IInv, BuiltInv
  <2>2. output.of = ProposalOf(origin) /\ origin.entry # "hold"
    BY <2>1, DecisionTyped DEF IsProposal
  <2>3. output.of.validUntil = origin.asOf + TTL
    BY <2>1, <2>2, ProposalTyped
  <2>4. verdict.at < output.of.validUntil
    BY <1>1 DEF IInv, TimedInv
  <2>5. verdict.at \in Int /\ origin.asOf \in Int /\ TTL \in Int
    BY <1>1, <2>1, DecisionAssumption DEF IInv, TypeOK, AllSnapshots
  <2> QED BY <2>3, <2>4, <2>5
<1> QED BY <1>1, Inductive, PTL

\* What a validation refused no later one accepts, and each later one records
\* every rejection of the earlier one under the same id.
THEOREM RetriesRefuse == Spec => RefusalsStick
<1> DEFINE Same == <<origin, input, output, caller>>' = <<origin, input, output, caller>>
           Kept == Same =>
                     /\ verdict.error \notin {None, "unvalidated"} =>
                          verdict'.error # None
                     /\ IsProposal => Rejections(output.of, caller)
                                        \subseteq Rejections(output.of, caller)'
<1>1. ASSUME IInv, [Next]_vars PROVE Kept
  <2> SUFFICES ASSUME Same PROVE /\ verdict.error \notin {None, "unvalidated"} =>
                                      verdict'.error # None
                                 /\ IsProposal => Rejections(output.of, caller)
                                                    \subseteq Rejections(output.of, caller)'
    OBVIOUS
  <2>1. TypeOK /\ TypeOK' /\ RefusedInv
    BY <1>1, StepKeeps DEF IInv
  <2>2. /\ origin' = origin /\ input' = input /\ output' = output
        /\ caller' = caller
    OBVIOUS
  <2>3. CASE Tick \/ UNCHANGED vars
    <3>1. now \in Int /\ now' \in Int /\ now <= now' /\ verdict' = verdict
      BY <2>1, <2>3, DecisionAssumption DEF TypeOK, Tick, vars
    <3>2. IsProposal => Issues(output.of, caller.clock, caller.context)
                          \subseteq Issues(output.of, caller.clock, caller.context)'
      BY <2>1, <2>2, <3>1, FailsGrow
    <3>3. IsProposal => Rejections(output.of, caller)
                          \subseteq Rejections(output.of, caller)'
      BY <2>2, <3>2 DEF Rejections
    <3> QED BY <3>1, <3>3
  <2>4. CASE Validate
    <3>1. now' = now /\ output # NoOutput
          /\ verdict'.error = IF IsProposal THEN ProposalError(output.of, caller)
                              ELSE NoTradeError(output.of, caller.context)
      BY <2>4 DEF Validate, IsProposal
    <3>2. Rejections(output.of, caller)' = Rejections(output.of, caller)
      BY <2>2, <3>1 DEF Rejections, Issues, PolicyFails, ContextFails
    <3>3. ASSUME verdict.error \notin {None, "unvalidated"}
          PROVE  verdict'.error # None
      <4>1. CASE IsProposal /\ caller.policy
        <5>1. Range(ReportOrder)
                \cap Issues(output.of, caller.clock, caller.context) # {}
          BY <2>1, <3>3, <4>1 DEF RefusedInv
        <5> QED BY <3>1, <4>1, <5>1, ReportList, FirstFails DEF ProposalError
      <4>2. CASE IsProposal /\ ~caller.policy
        <5>1. Range(PlainOrder)
                \cap PlainFails(output.of, caller.clock, caller.context) # {}
          BY <2>1, <3>3, <4>2 DEF RefusedInv
        <5> QED BY <3>1, <4>2, <5>1, PlainList, FirstFails DEF ProposalError
      <4>3. CASE ~IsProposal
        <5>1. Range(NoTradeOrder) \cap NoTradeFails(output.of, caller.context) # {}
          BY <2>1, <3>3, <4>3 DEF RefusedInv
        <5> QED BY <3>1, <4>3, <5>1, NoTradeErrorFails
      <4> QED BY <4>1, <4>2, <4>3
    <3> QED BY <3>2, <3>3
  <2>5. CASE \/ \E s \in Snapshots : Build(s)
             \/ \E o \in Offers, i \in Inputs : Offer(o, i)
    <3>1. output = NoOutput /\ output' \in Outputs
      <4>1. ASSUME NEW s \in Snapshots, Build(s)
            PROVE  output = NoOutput /\ output' \in Outputs
        BY <4>1, DecisionTyped DEF Build
      <4>2. ASSUME NEW o \in Offers, NEW i \in Inputs, Offer(o, i)
            PROVE  output = NoOutput /\ output' \in Outputs
        BY <4>2, ProposalOrRaised, DecisionAssumption DEF Offer
      <4> QED BY <2>5, <4>1, <4>2
    <3>2. output' # NoOutput
      BY <3>1 DEF Outputs, NoOutput
    <3> QED BY <2>2, <3>1, <3>2
  <2> QED BY <1>1, <2>3, <2>4, <2>5 DEF Next
<1>2. Spec => [][Kept]_vars
  BY <1>1, Inductive, PTL DEF Spec
<1> QED BY <1>2 DEF RefusalsStick
=============================================================================

---------------------------- MODULE RiskControls ----------------------------
(***************************************************************************)
(* The supervisor of apps/supervisor over the account policy of libs/risk: *)
(* operator commands change the freeze, kill-switch and flatten controls,  *)
(* a caller supplies the account's state, and every trade proposal is      *)
(* evaluated against that state.  Proposals that are accepted are carried  *)
(* out by an execution path outside this code.                             *)
(***************************************************************************)
EXTENDS Integers, FiniteSets, Functions

CONSTANTS
  Symbols,         \* symbols a proposal may name
  AllowedSymbols,  \* AccountRiskLimits.allowed_symbols
  Notionals,       \* notionals a proposal may have
  Drawdowns,       \* DrawdownState values the caller may supply
  MaxOrder, MaxSymbol, MaxTotal,  \* PositionLimitConfig
  MaxPeak, MaxDaily,              \* DrawdownLimits, in percent
  AllowFutureLive,                \* AccountRiskLimits.allow_future_live
  MaxBatch         \* bound on entries accepted on one supplied state

ASSUME RiskAssumption ==
  /\ IsFiniteSet(Symbols) /\ AllowedSymbols \subseteq Symbols
  /\ Notionals \subseteq Nat \ {0}
  /\ Drawdowns \subseteq [current : Nat \ {0}, peak : Nat \ {0}, dayStart : Nat \ {0}]
  /\ MaxOrder \in Nat \ {0} /\ MaxSymbol \in Nat \ {0} /\ MaxTotal \in Nat \ {0}
  /\ MaxSymbol <= MaxTotal
  /\ MaxPeak \in 0 .. 100 /\ MaxDaily \in 0 .. 100
  /\ AllowFutureLive \in BOOLEAN
  /\ MaxBatch \in Nat \ {0}

VARIABLES
  controls,   \* FreezeState, as the last command left it
  account,    \* the AccountRiskState proposals are evaluated against
  committed,  \* notional of accepted entries not closed since
  batch,      \* entries accepted on this account state
  killed      \* history: the kill switch was activated since controls was fresh

vars == <<controls, account, committed, batch, killed>>

-----------------------------------------------------------------------------
Commands == {"freeze_entries", "unfreeze_entries", "activate_kill_switch",
             "request_flatten"}
Modes == {"offline", "paper", "future_live"}
Sides == {"long", "short"}
Proposals == [action : {"enter", "exit"}, symbol : Symbols, side : Sides,
              notional : Notionals, mode : Modes]

Positions == [Symbols -> [long : Nat, short : Nat]]
Controls == [entriesFrozen : BOOLEAN, killSwitch : BOOLEAN, flatten : BOOLEAN]
Accounts == [drawdown : Drawdowns, open : Positions,
             entriesFrozen : BOOLEAN, killSwitch : BOOLEAN]

NoPositions == [s \in Symbols |-> [long |-> 0, short |-> 0]]
InitialControls == [entriesFrozen |-> FALSE, killSwitch |-> FALSE, flatten |-> FALSE]

\* Fault: unfreezing starts again from the initial controls.
ApplyControlUnfreezesAll(state, action) ==
  [entriesFrozen |-> action # "unfreeze_entries",
   killSwitch    |-> \/ action = "activate_kill_switch"
                     \/ state.killSwitch /\ action # "unfreeze_entries",
   flatten       |-> \/ action \in {"activate_kill_switch", "request_flatten"}
                     \/ state.flatten /\ action # "unfreeze_entries"]

\* Every command but unfreeze freezes entries; nothing clears the kill switch
\* or the flatten request.
ApplyControl(state, action) ==
  [entriesFrozen |-> action # "unfreeze_entries",
   killSwitch    |-> state.killSwitch \/ action = "activate_kill_switch",
   flatten       |-> \/ state.flatten
                     \/ action \in {"activate_kill_switch", "request_flatten"}]

\* The controls replace the flags the account state came with.
WithControls(state) ==
  [state EXCEPT !.entriesFrozen = controls.entriesFrozen,
                !.killSwitch = controls.killSwitch]

\* The loss from reference exceeds limit percent of it.
Exceeds(current, reference, limit) ==
  /\ current < reference
  /\ (reference - current) * 100 > limit * reference

DrawdownReason(d) ==
  IF Exceeds(d.current, d.peak, MaxPeak) THEN "peak_drawdown_exceeded"
  ELSE IF Exceeds(d.current, d.dayStart, MaxDaily) THEN "daily_drawdown_exceeded"
  ELSE "drawdown_within_limits"

SymbolExposure(open, s) == open[s].long + open[s].short

TotalExposure(open) == SumFunction([s \in Symbols |-> SymbolExposure(open, s)])

\* Fault: the total is compared before the order is added to it.
PositionReasonBeforeOrder(p, open) ==
  IF p.notional > MaxOrder THEN "max_order_notional_exceeded"
  ELSE IF SymbolExposure(open, p.symbol) + p.notional > MaxSymbol
    THEN "max_symbol_exposure_exceeded"
  ELSE IF TotalExposure(open) > MaxTotal THEN "max_total_exposure_exceeded"
  ELSE "position_limits_within_bounds"

\* Fault: only the proposal's side of the symbol is counted.
PositionReasonOneSide(p, open) ==
  IF p.notional > MaxOrder THEN "max_order_notional_exceeded"
  ELSE IF open[p.symbol][p.side] + p.notional > MaxSymbol
    THEN "max_symbol_exposure_exceeded"
  ELSE IF TotalExposure(open) + p.notional > MaxTotal
    THEN "max_total_exposure_exceeded"
  ELSE "position_limits_within_bounds"

PositionReason(p, open) ==
  IF p.notional > MaxOrder THEN "max_order_notional_exceeded"
  ELSE IF SymbolExposure(open, p.symbol) + p.notional > MaxSymbol
    THEN "max_symbol_exposure_exceeded"
  ELSE IF TotalExposure(open) + p.notional > MaxTotal
    THEN "max_total_exposure_exceeded"
  ELSE "position_limits_within_bounds"

EntryIssues(p, a) ==
  (IF a.entriesFrozen THEN {"entries_frozen"} ELSE {})
    \cup ({DrawdownReason(a.drawdown)} \ {"drawdown_within_limits"})
    \cup ({PositionReason(p, a.open)} \ {"position_limits_within_bounds"})

\* Fault: the checks of an entry also veto an exit.
IssuesOfAnyAction(p, a) ==
  (IF p.mode = "future_live" /\ ~AllowFutureLive THEN {"mode_not_allowed"} ELSE {})
    \cup (IF a.killSwitch THEN {"kill_switch_active"} ELSE {})
    \cup (IF p.symbol \notin AllowedSymbols THEN {"symbol_not_allowed"} ELSE {})
    \cup EntryIssues(p, a)

\* The reasons for a veto; the proposal is allowed when there is none.
Issues(p, a) ==
  (IF p.mode = "future_live" /\ ~AllowFutureLive THEN {"mode_not_allowed"} ELSE {})
    \cup (IF a.killSwitch THEN {"kill_switch_active"} ELSE {})
    \cup (IF p.symbol \notin AllowedSymbols THEN {"symbol_not_allowed"} ELSE {})
    \cup (IF p.action = "enter" THEN EntryIssues(p, a) ELSE {})

\* Fault: a breached drawdown stops the supervisor instead of degrading it.
HealthStopsOnDrawdown(a) ==
  IF a.killSwitch \/ DrawdownReason(a.drawdown) # "drawdown_within_limits" THEN "stopped"
  ELSE IF a.entriesFrozen THEN "degraded"
  ELSE "ok"

\* The worst of the policy, drawdown, entry and kill-switch checks.
Health(a) ==
  IF a.killSwitch THEN "stopped"
  ELSE IF \/ a.entriesFrozen
          \/ DrawdownReason(a.drawdown) # "drawdown_within_limits" THEN "degraded"
  ELSE "ok"

Accepted(p, a) == Issues(p, a) = {} /\ Health(a) # "stopped"

\* What is emitted for an evaluation: the packet's type and the alerts.
PacketType(p, a) == IF Accepted(p, a) THEN "risk_decision" ELSE "risk_veto"
Alerts(p, a) ==
  (IF Issues(p, a) # {} THEN {<<"risk_veto", "warning">>} ELSE {})
    \cup (CASE Health(a) = "ok"       -> {}
            [] Health(a) = "degraded" -> {<<"degraded_health", "warning">>}
            [] Health(a) = "stopped"  -> {<<"degraded_health", "critical">>})

-----------------------------------------------------------------------------
Init ==
  /\ controls = InitialControls
  /\ \E d \in Drawdowns :
       account = [drawdown |-> d, open |-> NoPositions,
                  entriesFrozen |-> FALSE, killSwitch |-> FALSE]
  /\ committed = NoPositions
  /\ batch = 0
  /\ killed = FALSE

\* apply_control_command, also through activate_kill_switch and
\* build_flatten_workflow_request: on the state of the command before it, or,
\* where the caller gives none as the scripts do, on a fresh one.
Command(fresh, action) ==
  /\ controls' = ApplyControl(IF fresh THEN InitialControls ELSE controls, action)
  /\ killed' = (action = "activate_kill_switch" \/ (~fresh /\ killed))
  /\ UNCHANGED <<account, committed, batch>>

\* External: the caller builds the next account state.  Its positions hold
\* every entry accepted so far; its flags are the caller's own.
SupplyState ==
  /\ \E d \in Drawdowns, frozen, kill \in BOOLEAN :
       account' = [drawdown |-> d, open |-> committed,
                   entriesFrozen |-> frozen, killSwitch |-> kill]
  /\ batch' = 0
  /\ UNCHANGED <<controls, committed, killed>>

\* An entry is accepted, with the controls applied or on the state's own
\* flags.  The account state is not told of it: nothing is reserved.
AcceptEntry(p) ==
  /\ batch < MaxBatch
  /\ p.action = "enter"
  /\ Accepted(p, account) \/ Accepted(p, WithControls(account))
  /\ committed' = [committed EXCEPT ![p.symbol][p.side] = @ + p.notional]
  /\ batch' = batch + 1
  /\ UNCHANGED <<controls, account, killed>>

\* An exit is accepted and carried out.
AcceptExit(p) ==
  /\ p.action = "exit"
  /\ Accepted(p, account) \/ Accepted(p, WithControls(account))
  /\ committed' = [committed EXCEPT ![p.symbol][p.side] = 0]
  /\ UNCHANGED <<controls, account, batch, killed>>

\* External: a stop closes a position, or an entry is never filled.
Close(s, side) ==
  /\ committed' = [committed EXCEPT ![s][side] = 0]
  /\ UNCHANGED <<controls, account, batch, killed>>

Next ==
  \/ \E fresh \in BOOLEAN, action \in Commands : Command(fresh, action)
  \/ SupplyState
  \/ \E p \in Proposals : AcceptEntry(p) \/ AcceptExit(p)
  \/ \E s \in Symbols, side \in Sides : Close(s, side)

Spec == Init /\ [][Next]_vars

-----------------------------------------------------------------------------
TypeOK ==
  /\ controls \in Controls
  /\ account \in Accounts
  /\ committed \in Positions
  /\ batch \in 0 .. MaxBatch
  /\ killed \in BOOLEAN

\* However proposals, exits and stops interleave with new account states, the
\* exposure committed to a symbol exceeds its limit by at most one order for
\* each further entry accepted on the same account state: evaluate_position_
\* limits reserves nothing, and counts both sides of the book.
SymbolExposureBounded ==
  \A s \in Symbols :
    SymbolExposure(committed, s) <= MaxSymbol + (MaxBatch - 1) * MaxOrder

\* The same for the whole account, where the sum total_exposure takes over the
\* supplied positions stands for what is committed across symbols.
TotalExposureBounded ==
  TotalExposure(committed) <= MaxTotal + (MaxBatch - 1) * MaxOrder

\* Once activated, the kill switch and its flatten request survive every later
\* command that is given the state of the one before, unfreeze included, and no
\* proposal is accepted under the controls, whatever account state is supplied.
KillHolds ==
  killed =>
    /\ controls.killSwitch /\ controls.flatten
    /\ \A p \in Proposals : ~Accepted(p, WithControls(account))

\* A freeze, a breached drawdown or a full book never traps a position: short
\* of the kill switch an exit in an allowed market and mode is accepted.
ExitsPass ==
  \A p \in Proposals, a \in {account, WithControls(account)} :
    /\ p.action = "exit" /\ p.symbol \in AllowedSymbols /\ p.mode # "future_live"
    /\ ~a.killSwitch
    => Accepted(p, a)

\* The records of an evaluation, built from the policy's decision, from the
\* health and from both, agree: the packet is a veto exactly when the decision
\* names a reason and when a veto alert goes out, and an account on which
\* nothing can be accepted is alerted as critical.
RecordsAgree ==
  \A p \in Proposals, a \in {account, WithControls(account)} :
    /\ PacketType(p, a) = "risk_veto" <=> Issues(p, a) # {}
    /\ PacketType(p, a) = "risk_veto" <=> <<"risk_veto", "warning">> \in Alerts(p, a)
    /\ Health(a) = "stopped" <=> <<"degraded_health", "critical">> \in Alerts(p, a)
=============================================================================

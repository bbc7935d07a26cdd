# TLA+ models of crypto-agent-project

The repository holds two systems that share nothing at run time:

* **the orchestrator** (`agent-orchestrator/`): a run loop that takes the tasks
  of a queue one by one, has Codex work on them, validates the workspace and
  stops for a human operator, and a Discord listener through which that
  operator answers.  Two processes, one SQLite file, no lock between them: this
  is where the interleavings are, and what is modelled first;
* **the trading stack** (`apps/`, `libs/`, `scripts/`): deterministic libraries
  for market data, decisions, risk and audit, composed by tests and scripts.

## Inventory

### The orchestrator

| part | state it keeps | operations | talks to |
|---|---|---|---|
| run loop (`orchestrator.py`, `run_loop`) | the locals of a pass (phase, task, outcome), the count of tasks completed in the session | select, gate, assemble, run Codex, validate, mark, pause, return | every table of `state.sqlite`, `last_prompt.md`, Codex and the validator as subprocesses |
| decision gate (`decision_gate.py`) | rows of `approvals` | `wait_for_approval`, `record_decision` | called by the loop; the operator writes the same table |
| operator commands (`discord_listener.py`, `handle_command`) | none between commands; each runs on a worker thread | `!approve !reject !pause !resume !clarify !skip-task !deep-diagnose !status !explain` | `settings`, `tasks`, `approvals`, `operator_events`, `last_prompt.md` |
| operator events (`operator_events.py`) | rows of `operator_events`, delivered or not; `ui_state` | record, fetch undelivered, mark delivered, in flight | written by both processes, read by the listener |
| operator card (`discord_listener.py`, `_run_discord_mode`) | the message on Discord and its buttons, the poller task, the review threads | render, poll, Deep Diagnose, `on_ready` | reads the tables, records review events |
| state bootstrap (`bootstrap_state.py`) | rows of `tasks` | seed, mark done | run by hand before the loop |
| prompt, contract, queue (`prompt_runner.py`, `task_queue_reader.py`, `context_builder.py`) | `last_prompt.md` | assemble, lint, parse | called by the loop |
| validator (`validator.py`) | none | run the checks of the workspace | called by the loop |
| notifier, local models (`discord_notifier.py`, `local_llm_client.py`, `validation_failure_review.py`, `model_router.py`) | the warm-up state of a model | post, retry, review | called by both processes |

What makes it hard: every SQLite call opens a connection and commits alone, so a
command and the loop interleave between any two writes; the loop reads a phase
and a task once and uses them after a wait of up to an hour; either process may
die between two writes and start again; whether work is in flight is *computed*
from the newest of certain events, which both processes write.

What makes it correct: no task is started and no phase is left without the
operator's approval; a task is done only when its validation passed; a stop for
the operator holds until `!resume`; nothing blocks forever; the operator's
buttons are those of the state the loop waits in.

### The trading stack

| part | state it keeps | operations |
|---|---|---|
| risk policy and controls (`libs/risk`) | freeze, kill-switch and flatten flags; equity and exposure given by the caller | evaluate a proposal, apply a control command |
| supervisor (`apps/supervisor`) | none of its own | evaluate with controls, health, kill switch, flatten request, alerts, audit records |
| reconciliation (`apps/supervisor/reconciliation.py`) | none | compare an internal and an external account snapshot, report, journal, packet, alert |
| alerts (`apps/supervisor/alerts.py`) | none; the sink is the caller's | build an alert, deliver a batch |
| decision engine (`apps/decision_engine`, `libs/decisioning`) | none | build, score and validate a proposal |
| strategy (`libs/strategy`) | none | universe, regime, breakout, sizing, stops |
| Freqtrade adapter (`RegimeBreakoutStrategy`) | cells of the frame's last row, `adapter_config` | `populate_indicators`, `populate_entry_trend`, `populate_exit_trend`, called by Freqtrade in turn |
| market data (`libs/market_data`, `scripts/validate_data.py`) | one Parquet file per layer, symbol and timeframe; views of an analytics database | fetch candles with retries, check their quality, overwrite a dataset, register, query, validate |
| collector (`libs/market_data/collectors.py`, `apps/collector/jobs.py`) | none | run Freqtrade's download once |
| journal and packets (`libs/journal`, `libs/event_packets`, `scripts/replay_event_packets.py`) | append-only JSONL files | append, read, replay, report |
| research (`apps/research`) | none | walk-forward windows, reports |

What makes it hard: boundaries of limits in exact decimals, prices rounded twice
between a signal and its order, windows over a history of any length, the order in which
controls and account flags are combined, an account state that is older than the
entries accepted on it; files that several processes append to without a lock,
long records whose newline is a second write, a process killed between a
record and its packet; checks written twice, in a report and in functions that
raise; an internal account that lags behind the exchange or misses a fill, and
snapshots of the two taken at different moments; datasets whose cleaned names
coincide, and a file that is written in place.

What makes it correct: what is accepted keeps the account within its limits, a
kill switch is not undone by a later command, positions can always be left; a
proposal's size keeps to its budget, and what is decided on a candle does not
depend on who asks or how much history is delivered; what one validator refuses
the other refuses too, and a retry does not accept it; packets, journal and alerts
of one event tell the same story, and a replay shows a decision whole and in
order; a missed fill of a position is noticed, and fills of other symbols raise no
alarm; a query answers with the rows of the dataset it names or with nothing.

## Plan

1. `TaskLoop`: the run loop, the gate and the commands; it implements
   `OperatorContract`.  **Done**, with proofs of all safety properties.
2. `OperatorCard`: the card beside the loop, refining `TaskLoop`.  **Done**,
   with proofs.
3. `RiskControls`: account policy, drawdown and position limits, the control
   commands and the supervisor's verdict.  **Done**, with proofs of all
   properties.
4. `Strategy` and `FreqtradeAdapter`: regime, breakout, stops and sizes as
   operators, and the hooks that decide on each frame.  **Done**, with proofs of
   all properties.
5. `AuditTrail`: the journal and the packet file, appended by processes that may be
   killed, with replay and the daily report; it implements `AppendOnlyLog`.
   **Done**, with proofs of all properties.
6. `DecisionBoundary`: proposals built from snapshots or offered, and validated at
   once, later or again.  **Done**, with proofs of all properties.
7. `Reconciliation`: two accounts, snapshots of them, reports and alerts.  **Done**,
   with proofs of all properties.
8. `MarketData`: fetch, check, store, register and query candles.  **Done**, with
   proofs of all safety properties.
9. Left: abstract specifications of the supervisor (a ledger with limits) and of the
   dataset store that `RiskControls` and `MarketData` would implement; the notifier
   and the local model client (warm-up, retries, time-outs); `--run-next` and
   `--phase-review`.

Runs: one passing run per module with its invariants and, where it has some, its
liveness properties; one run per disagreement with the documents.

## Modules

### `TaskLoop`

State.  `status` is `tasks.status`; `paused`, `currentPhase`, `currentTask`,
`awaitingClarify` and `awaitingReview` are rows of `settings`; `requested` and
`decided` abstract `approvals` to what `wait_for_approval` and
`_latest_pending_approval_ref` can tell apart (a pending row exists; the newest
decided row and who wrote it); `lastEvent` is the newest row that
`operator_in_flight` looks at; `clarified` says whose clarification block is in
`last_prompt.md`.  `pc` is the point of `run_loop`, `task` and `outcome` its
locals.  `todo[s]` holds the writes that a command on thread `s` has still to
make.  `entryPhase`, `attempt`, `needsHuman` and `operatorApproved` are history:
no step of the code reads them.

Steps.  One action per committed write of `run_loop`, in the order of the code:

| point of the loop | actions |
|---|---|
| start, pause check | `Start`, `CheckPause`, `SleepPaused` |
| selection | `StopComplete`, `SelectWork`, `Dispatch`, `NoteResume` |
| gate (phase exit or risky task) | `AskApproval`, `AnnounceGate`, `PollDecision`, `PollAgain`, `GateTimeout`, `RecordDecision`, then `AdvancePhase`, `AssemblePrompt`, `SkipRisky` + `NoteRiskySkip`, or the pause |
| attempt | `AssemblePrompt`, `MarkStarted`, `HandOver` (manual) or `LintPrompt`, `NoteCodex`, `RunCodex` (auto) |
| validation | `NoteValidation`, `Validate`, `MarkDone` + `NoteDone`, `MarkFailed` + `NoteFailed` |
| stop for the operator | `PauseLoop`, `AwaitOperator`, `MarkBlocked`, `ReportStop` |
| crash | `Crash`, from any point |

Every stop of the code makes the same writes in the same order (pause flag,
awaiting setting, event, then sleep or return), so the paths share the last row
and are told apart by `outcome`.  `!approve` and `!reject` are one write
(`Decide`); the other commands are a list of writes (`Begin`, then `Write` one at
a time), and `ListenerRestart` drops what is left of them.

Left out: what prompts, events and notes say; the activity log; Discord
notifications; `--run-next`, `--phase-review` and `--status`; `max_iterations`,
which only tests pass.  Codex, the validator and the prompt contract are
choices.  The phase map is a constant: it is read again at every pass, but
nothing in the system writes it.

### `OperatorContract`

What the operator may rely on, in terms of what he is shown or has said: the open
phase, the exits and risky tasks he approved, each task's row (to do, done or
skipped), how the latest attempt at it ended, and whether the loop waits for him.
`TaskLoop` implements it (`KeepsContract`): `Exits`, `Risks` and `Row` are computed
from the approvals he wrote and the status column, `stopped` is `needsHuman` and
`crashed` that the loop crashed at least once.  Each action is one commit of the
loop or the listener; the other commits are stutters.

| contract | commits |
|---|---|
| `ApproveExit`, `ApproveRisk` | `!approve` |
| `EnterPhase`, `LeavePhase` | the selection of the first phase; the setting after an approved exit |
| `StartWork`, `EndWork`, `Finish` | in progress; Codex failing or the validation's verdict; done |
| `Skip` | `!skip-task`, or a risky gate that was not approved |
| `Reopen` | failed or in progress written over a skip |
| `Stop`, `Resume`, `CrashOnce` | the loop's decision to stop; `!resume`; a crash |

The contract says what the invariants say one by one, and what none of them says:
that nothing becomes done except by `Finish`, so a task that never ran cannot be
closed as done, and that work is always on a task of the open phase.  It also
says where the promise ends: `Reopen` loses a skip, and after a crash the loop may
go on although it had stopped.

### `OperatorCard`

`OperatorCard` extends `TaskLoop` with the listener's asyncio side: `unread` and
`reading` are the undelivered rows and the poller's position, `shown` the buttons
on the card, `render` and `draft` the renders on their way to it, `review[s]` a
Deep Diagnose of handler `s`.  `Buttons` is `_button_actions_for_state` without the
buttons' arguments.  A step of the loop that records an event also sets `unread`.

| code | definition |
|---|---|
| `on_message`, `CommandButton.callback`, `send_command_response` | `AskRender`, `CommandDecides`, `CommandBegins`, `CommandWrites` |
| `render_task_card`, to line 1757 | `Draw` |
| `render_task_card`, its awaits and the edit or the send | `Show`, `RenderFails` |
| `on_ready` | `CardInit`, `Reconnect`, `PollBegins` |
| `poll_operator_events` | `PollFetch`, `PollMark` |
| `_start_medium_diagnosis`, `_run_medium_diagnosis_once` | `ReviewCheck`, `ReviewStart`, `ReviewEnd` |

`render_task_card` runs in every handler and in the poll task.  It computes the
buttons from the tables and awaits Discord before they are on the card, so
`render[x]` and `draft[x]` follow each of these renders from the call (`Owe`) over
the computation to the edit, and two of them may be shown in another order than
they were drawn.  `newest` is history: who drew last, and whether that view was
shown, overtaken by an older one, or failed.  When the edit, the fetch and the send
all raise (`RenderFails`) a handler ends without its render, `on_ready` before it
starts the poller, and the poll task for good.

Abstracted: a batch of undelivered rows is one; a message of the webhook is one
more render, without the loading message it may bring.  There is taken to be one
message: that a card sent anew after a failed edit leaves the old message with its
old buttons is not told apart from editing it, and an edit that raises is taken
not to have been applied.

### `RiskControls`

State.  `controls` is the `FreezeState` that commands are applied to, `account` the
`AccountRiskState` that proposals are evaluated against, `committed` the notional
of the entries accepted and not closed since, `batch` the number of entries
accepted on this account state, `killed` history.

| code | definition |
|---|---|
| `apply_control_command`, `activate_kill_switch`, `build_flatten_workflow_request` | `ApplyControl`, `Command` |
| `AccountRiskPolicy.evaluate`, `_entry_issues` | `Issues`, `EntryIssues` |
| `evaluate_drawdown`, `evaluate_position_limits` | `DrawdownReason`, `PositionReason` |
| `build_supervisor_health` | `Health` |
| `evaluate_proposal`, `evaluate_proposal_with_controls` | `AcceptEntry`, `AcceptExit` |
| `audit_evaluation`, `alerts_from_supervisor_evaluation` | `PacketType`, `Alerts` |

The code keeps no account of its own: who calls the supervisor and who carries
out what it accepts is outside the repository.  `SupplyState` and `Close` are that
environment, and the assumptions on it are that an accepted entry counts from
the moment it is accepted and that the caller's next state holds all of them
(a caller whose state omits accepted entries can exceed any limit).  The caller
chooses the drawdown and its own flags freely, and may or may not have the
controls applied.  A command is applied to the state of the one before or, as in
the scripts `freeze_entries` and `flatten_all`, which pass none, to a fresh one
(`Command(fresh, action)`); such a command knows nothing of an earlier kill, so
`killed` says that the kill switch was activated on the state at hand.

Abstracted: `Decimal` amounts are integers and the limits percentages, compared
by cross-multiplication, so the rounding of `Decimal` division in a drawdown
does not appear; the order of issues is dropped (a set); identifiers, times,
messages and the delivery of alerts are left out.

### `Strategy` and `FreqtradeAdapter`

`Strategy` holds the computations of `libs/strategy` as operators on a frame, a
sequence of candles; `Back(f, k)` is the candle `k` places before the last.

| code | definition |
|---|---|
| `calculate_regime_metrics`, `classify_regime` | `SpreadNum`, `SpreadDen`, `Regime` |
| `calculate_breakout_metrics`, `generate_entry`, `generate_exit` | `AboveRange`, `BelowRange`, `Rising`, `Falling`, `Entry`, `Exit` |
| `calculate_stop_metrics`, `_clamp`, `_price` | `RawDistance`, `StopDistance`, `StopPrice`, `TargetPrice`, `RoundPrice` |
| `_entry_price` over the text of the signal | `EntryPrice` |
| `calculate_position_size`, `floor_to_step`, `_money` | `UnitRisk`, `Quantity`, `Notional` |
| what `StopPlan`, `SizingInput` and the length checks refuse | `Unusable` |

`FreqtradeAdapter` is the strategy object between Freqtrade's calls: `frame` and
`pair` are what was delivered, `decision` the `ca_` cells, `enter` the entry
columns of the last row, `failed` that a hook raised.  `Decide` is
`build_deterministic_decision`; `PopulateIndicators`, `PopulateEntryTrend` and
`PopulateExitTrend` are the hooks.  `Deliver` and `Raise` are Freqtrade.

Abstracted: prices are integers on a grid finer than the rounding (`Tick` of them
make 0.0001), ratios are compared by cross-multiplication, so that the rounding
of `Decimal` to 28 digits does not appear; strength and confidence, which only
describe a signal, texts, times and identifiers are left out, and so are rows
that are no candles (refused at construction).  An adapter configuration is its
universe, its entry switch and its limits; the object's and the class's are two of
them, because the entry hook decides a second time with the class's
(`Decide(frame, TheSymbol, ClassConfig)`).  `ConfigAssumption` is what holds of the
default configuration and what the code does not check: for other values a stop or
target may fall below zero, or a regime may both allow entries and force exits.

### `AuditTrail` and `AppendOnlyLog`

State.  `log` and `ends` are the journal: the texts written to it and the positions
after which a newline was written, so that a torn line is a position without an end
and a *glued* one has two texts.  `packets` is the packet file, `writer[w]` the batch
of artifacts a process is appending and how far it has come.  `decided` holds the
output and the time of each decision, since a snapshot decided again yields the
same artifacts.  `returned` and `completed` are history.

| code | definition |
|---|---|
| the artifact functions of the decision engine, the supervisor and the bootstrap | `RestartArtifacts`, `DecisionArtifacts`, `EvaluationArtifacts`, `CommandArtifacts`, `FlattenArtifacts`, `MismatchArtifacts` |
| the packet builders | `ProposalPacket` ... `MismatchPacket` |
| `JournalWriter.append`: size and line count, then the text, then its newline | `CountLines`, then `WriteLine`, or `WriteText` and `WriteNewline` |
| `bootstrap_paper_runtime`: its record, then its packet | `PacketReady` |
| the append of a packet to its file | `WritePacket` |
| `read_journal_records` | `Readable` |
| `build_replay_timeline`, `_sort_key`, `_matches_filters` | `Timeline`, `SortKey`, `Matches` |
| `_summary_from_timeline` | `Summary` |

A record shorter than the buffer of the text file reaches it in one write when the
file is closed; for a longer one the text is written through at once and the newline
follows at the close.  Which types are longer is the constant `Long`.  `Crash` kills
a process between two writes (a write of one text is taken to be atomic, as
`O_APPEND` writes of a local file are).  The functions of the decision engine and the
supervisor build artifacts and leave the files to their callers; only the bootstrap
appends its own, the record first.  So a process appends what is left of a batch, records
and packets, in any order, except at a bootstrap.  Payloads and texts are abstracted to the
event, the batch and its times; entity ids order only artifacts the properties
do not compare.

`AppendOnlyLog` is what readers of a journal rely on: records are only added, and a
log that cannot be read stays so, as nothing repairs it.

### `DecisionBoundary`

State.  `output` is a proposal, a no-trade decision or the error its construction
raised, `input` its decision input and `origin` the snapshot it was built from, if
any; `caller` says whether validation gets a policy, the time and the input; `verdict`
is what validation last said and when.  A behaviour follows one decision, because
decisions share no state.

| code | definition |
|---|---|
| `TradeProposal.__post_init__` | `SchemaOrder`, `SchemaFails`, `TradeProposal` |
| `build_deterministic_decision`, `_entry_missing_reason` | `OutputOf`, `DecisionInputOf`, `EntryMissing`, `ProposalOf` |
| `validate_proposal_policy`, `_validate_context`, `to_rejections` | `PolicyFails`, `ContextFails`, `Issues`, `Rejections` |
| `validate_decision_input`, `validate_trade_proposal`, `validate_no_trade_decision` | `InputFails`, `PlainFails`, `ProposalError`, `NoTradeError` |
| `rejection_reason_for_error` | `Words`, `ReasonForError` |

A list of checks is a sequence of names in the order of the code and the set of
those that fail; `First` is the one that raises.  `Words` says which of the words the
code looks for each message contains: the conversion back from a message to a
reason is modelled by that.  `SchemaOrder` has every check of `TradeProposal`, of the
target price too.  Prices, sizes and confidence are integers, 0 stands
for a price or size that is absent; features, metadata and texts are left out.

### `Reconciliation`

State.  `updates` is what the exchange did to balances and positions, `next` and
`missed` how far the internal account has followed; `internal` and `external` are
snapshots waiting to be compared (each remembers which updates it is of, which the
code does not know), `report` the last report, `queue` alerts that are built and not
delivered, `tally` how many were built, recorded and taken by the sink.

| code | definition |
|---|---|
| `reconcile_account_snapshots`, `_compare_balances`, `_compare_positions` | `Report`, `Compare` |
| `reconciliation_audit_artifacts` | `Artifacts` |
| `alert_from_reconciliation_report`, `alert_from_control_command`, `alert_from_flatten_request` | `AlertFromReport`, `AlertFromControl` |
| `deliver_supervisor_alerts` | `DeliverAlerts`, `Deliver` |
| `empty_account_snapshot`, used by the script when a path is left out | `OmitInternal`, `OmitExternal` |

`Update`, `Book` and `Miss` are the environment.  A snapshot may list an entity at
zero or leave it out (`ListedAtZero`), since the code does not require either.
Comparing builds no alert: the script prints the report, and other callers may have
its alert built afterwards (`AlertReport`).  A balance is its total; the free and used
parts are compared by nothing.

### `MarketData`

State.  `client` is a fetch with the number of its attempt, `batch` the rows the
caller holds, `writing` the file being written, `files` the files by path (absent,
torn or whole), `views` which file each table reads; `last`, the rows last written to
each dataset, and `chosen`, the tables registered under a name of the caller's, are
history.

| code | definition |
|---|---|
| `CCXTReadClient.fetch_ohlcv`, `_with_retries`, `_parse_ohlcv` | `Fetch`, `CallAnswered`, `CallRaises` |
| `validate_ohlcv_quality`, `_validate_candle_shape` | `Issues`, `Shape`, `Repeats`, `Falls`, `Skips`, `Supported`, `Passed` |
| `ohlcv_path`, `default_table_name`, `_safe_path_part` | `Path`, `Table` over the constants `PathPart`, `Lower` |
| `write_ohlcv`, `PyArrowParquetBackend.write_rows` | `OneDataset`, `BeginWrite`, `EndWrite` |
| `register_dataset`, `query_ohlcv` | `Register`, `Query` |
| `scripts/validate_data.py` | `ValidateData` |

Opening the file empties it and closing it makes it a dataset, so a crash in between
leaves a torn file.  A query changes nothing and is the set of its possible
answers: rows of one timestamp may come in any order, and a view on a file that is
missing or torn raises.  `Combine` is a caller that joins what it fetched to what
it read.  The client keeps no lock and no other process writes: that the library
has one writer is an assumption.  `Register` takes the default table or one of
`ChosenNames`, which may be the default name of other data; names that are no
identifiers raise before anything changes and are left out.  A timeframe outside
`Interval` is one that `timeframe_to_milliseconds` raises on, and a length of 0 is
what it makes of `0m`.

### MC modules

`MCAuditTrail`, `MCReconciliation`, `MCDecisionBoundary` and `MCMarketData` hold the
symmetry sets, snapshots, offers, inputs, series and names of their instances.
`MCFreqtradeAdapter` holds the candles and adapter configurations of the instances.
`MCRiskControls` holds the drawdowns of the instance.  `MCTaskLoop` and
`MCOperatorCard` hold the phase maps of the instances; `MCTaskLoop` adds, for one run,
`OrderlySpec`: the behaviours in which the operator follows the documented procedure
(one command at a time, sent to a loop that has returned).
`WithoutMetadata` of `MCAuditTrail` is the view under which `audit` compares states: all
variables but what `append` returns (`returned` and the line, size and position a
writer remembers for it), which no guard and no property of that run reads.

## Runs

| run | instance | shows |
|---|---|---|
| `loop_safe` | 2 phases, 2 tasks, one risky, both modes, limit 2, 1 crash, 3 commands | the safety properties of `TaskLoop`, and that it implements `OperatorContract` |
| `card` | 1 risky task, an empty phase, automatic mode, a handler and the poller, 1 command, a restart of the listener, fairness | `CardSettles`, `ReviewReleasesCard`, `PauseTakesEffect`, `GateResolves` |
| `card_overtaken` | 1 risky task, automatic mode, 1 command | violated: `ButtonsAreSafe` |
| `risk` | 3 symbols, one not allowed, notionals at and over the order limit, drawdowns on both sides of both limits, commands on the last state or a fresh one, 2 entries per state | the properties of `RiskControls` |
| `adapter` | every frame of up to 4 of 6 candles, 2 pairs of which the class's universe has one, entries on and off, an object with the class's limits or smaller ones | the properties of `FreqtradeAdapter` |
| `entry_unfounded` | the class's configuration with entries on, 2 pairs | violated: `EntryFollowsDecision` |
| `audit` | 2 processes, 1 decision, every event but freeze and both kinds of flatten, mismatches longer than the buffer, 2 points of time, 3 batches, 1 kill | the properties of `AuditTrail`, and that it implements `AppendOnlyLog` |
| `decisions` | 576 snapshots, over 100 offers with up to two wrong fields, 20 inputs, a policy, all 8 ways to call validation, 5 points of time | the properties of `DecisionBoundary` |
| `reconcile` | 1 asset that may be listed at zero, 2 positions, values on both sides of a tolerance of 1, 2 updates, 1 missed, 2 alerts, which comparisons may leave out; 4.6 million states | the properties of `Reconciliation` |
| `market_data` | 4 datasets that share paths and tables, a table name the caller chooses, 2 layers, series in and out of order, three kinds of flawed candles and a row that is none, 1 retry, 3 rows, 2 writes | the properties of `MarketData` |
| `clarification_lost` | 1 task, 2 commands | violated: `ClarificationKept` |
| `self_approval` | 1 risky task, 2 commands | violated: `OperatorAnswers` |

The bounds.  Two tasks in two phases give both gates, an earlier phase that was
or was not entered, and a task that was done before the loop started; three
commands are what it takes to resume, answer a gate and interfere once (a skip,
a late answer, a pause); one crash gives each point of interruption once.  The
safety properties are also proved without any of these bounds.  The counters
bounded in guards are `commands`, `crashes` and `restarts`; deadlock is checked in
every run (a loop that returned can be started again).  In `risk` two symbols
with a total limit of three orders make each of the three limits the binding one
in some state; `MaxBatch`, the bound on entries per account state, is two because
the second is the first that the state does not know of.  In `adapter` three
candles fill every window and the fourth is history; the six candles lie on both
sides of every threshold and at the price where the smallest stop is half a
tick; long and short proposals, refused sizes, either limit of a size, every
bound of a stop but proposals at the largest, and hooks that raise all occur; so do
frames of a pair outside the class's universe, and sizes that the object's limits
refuse and the class's do not.
`MaxFrame`, the bound on a frame, is not in the code.
In `audit` three batches are what it takes to decide, judge and
disturb: the shortest torn line needs two processes and one long record, and a
decision, its verdict and a command between them are three batches.  In
`decisions` one wrong field selects each check and two select each pair, whose
order matters; the clock passes the time to live of every proposal.  In
`reconcile` two updates are one that is seen by both accounts and one that is not,
or two that make up for each other.  In `market_data` two writes are enough for one
dataset to take the file or the table of another; three rows are the fewest with
which a gap measured from the first row and from the row before differ; a timeframe that
is not supported or has no length is left to the proof.  In `card` one handler and the
poller are the two renders that can overtake each other; what changes between drawing and
showing comes from the loop, the command or the Deep Diagnose.  Automatic mode reaches
every label of the card: a validation that fails, a question, a stop for review and both
gates.  The
counters `batches`, `crashes`, `writes`, `updates`, `missed`, `tally.built` and
`now` are bounded in guards and have no counterpart in the code, except the retries
of the client; these modules may stop (no deadlock check): a process that has
done its work need not do more.

Type invariants are not among the properties of the runs: they are proved for every
module.

What the passing runs say of the code:

* `GateBeforeWork`, `PhaseGated`: however late, doubled or interrupted the answers
  are, no task is started and no phase is left without an approval the operator
  wrote.  This is not obvious: the gate also accepts rows the loop wrote itself
  (`self_approval`), and it holds only because the loop writes "approved" solely
  when it has just read it.
* `DoneWasValidated`, `DoneIsFinal`: a task that was run is done only by a passing
  validation of its latest attempt, and is not run again afterwards; only
  `!skip-task`, which does not look at the status, can take the row away.
* `StopsForOperator`: after a stop nothing is attempted until `!resume`, in the
  same process or the next, whatever half-finished commands write meanwhile.
  A crash between an outcome and the pause flag breaks it; the property is
  stated for runs of the loop that do not crash.
* `KeepsContract`: the loop commits phase, row, pause flag and event separately and
  acts on what it read up to an hour ago, yet every commit is one of a dozen steps
  that a person can check on a page.
* `SessionLimit`, `InFlightClosed`, `PauseTakesEffect`, `GateResolves`: see their
  comments.
* `SymbolExposureBounded`, `TotalExposureBounded`: the limits hold for what was
  accepted up to one order per further entry on the same account state, because
  an evaluation reserves nothing.  A caller that supplies a fresh state for every
  proposal (`MaxBatch` 1) has the limits exactly.
* `KillHolds`, `ExitsPass`, `RecordsAgree`: no command given the state of the one before
  undoes a kill, no other
  control or limit vetoes an exit, and the four records of an evaluation agree
  although they are derived from two readings of the account.
* `EntryExcludesExit`, `HistoryIndependent`: entry and exit are computed separately
  and windows end in different places, yet they never contradict each other and
  a longer history decides nothing.
* `SizedWithinBudget`, `RaisesNearTick`: the limits survive that prices are rounded
  twice on the way, and only for prices near 0.02 (with the defaults) does the
  smallest stop round onto its entry, which makes the hook raise.
* `EntryNeverOnExit`: the entry column and the record of a row come from two decisions,
  for different symbols and configurations; as both are taken on the same candles, a row
  entered long never records an exit.  That the record is a proposal at all does not
  hold (`entry_unfounded`).
* `CardSettles`: the hand-over between recording, polling, drawing, showing and marking
  loses nothing, including across a restart of the listener: once everything has come
  to rest, the card is right if the view drawn last is the one shown last.  It may not
  be (`card_overtaken`), and a poller that has died is out of its reach.
* `RestartsAreJournaled`, `GluedToLongOnly`: there is no lock and no transaction, yet
  the order of the bootstrap's two appends makes every restart in a replay accounted
  for, and records that fit the buffer never make a journal unreadable, whoever is
  killed when.
* `ChainsInOrder`, `RangesKeepDecisions`: a replay is ordered by time, file, source
  and type, not by when something was written; this shows a decision in the order
  it was taken only because all its artifacts carry the candle's time and the names
  of the types happen to sort that way.
* `ReportCounts`: the daily report counts records and packets together, so that a
  restart, a verdict and a mismatch count twice and other incidents once; a batch under
  way or cut short counts at most as often as a complete one.
* `ValidatorsAgree`, `RefusalsStick`: two lists of checks in two modules agree on what
  is refused and why, also when the reason is read back from the words of a
  message; no retry accepts what was refused.
* `SnapshotsAreDecided`, `FreshWhenTimed`: the builder never raises on what the
  strategy makes; but the age limit compares two copies of the candle's time and
  never bites, so that only a caller who passes the clock is protected from stale
  data, by the time to live.
* `MatchedHidesNothing`, `MismatchIsOwn`, `MissedPositionIsCritical`: comparing at any
  moment finds every missed fill that matters and blames no other entity; what
  it may report besides are updates still on their way and zeros that only one
  side lists.
* `AlertsAccounted`: a sink that fails, before or after it took an alert, costs no
  other alert of the batch.
* `QualityIsContiguity`: the checks are made row by row, and let through the gapless
  ordered series of sound candles of a supported timeframe and no other.
* `OwnOrNothing`, `QueriesKeepQuality`: datasets whose names coincide displace each
  other, and a caller may name a table as other data is named by default, but a query
  that names its symbol and timeframe gets what was last written of that dataset to
  one layer, or nothing; in the layer's own table, unless somebody chose its name, that
  layer is the one.  What passed the checks in the file passes them when
  queried, whatever the limit.

Where documents and code disagree (each has a run and a row under "findings"):
the clarified prompt is assembled again without its clarification; the loop's
own row opens a risky gate the second time; a render that awaits Discord is overtaken by
an older one, whose buttons stay; with entries switched on (they are off by default) the entry column of a pair
outside the universe is filled from the decision on another symbol.

What the code does besides, that a reader should know and that no run states as
a property:

* *orchestrator*: `!skip-task` of a task that Codex or the validation is running is
  undone by the loop's next mark, which overwrites the row whatever its status; a send
  that fails ends the poll task for good, and no event is rendered on its own any more;
  `!resume` at a gate hides Approve and Reject; two Deep Diagnoses can
  run at once; a listener restart during one leaves the buttons hidden; a failed
  task in automatic mode is given to Codex again on `!resume` rather than validated;
  a risky gate that times out skips the task without pausing; a loop that returned
  is not restarted by `!resume`; a `!pause` typed while Codex runs brings the buttons
  back; a clarification left unanswered hides Resume after a later timeout;
* *adapter*: with two symbols in the class's universe and entries switched on, every
  entry hook raises, as the second decision has no single symbol to take;
* *controls*: a control script starts from a fresh state, so that a freeze after a
  kill reports no kill switch;
* *journal*: a record longer than the write buffer, with another process or a kill
  in between, puts two records on one line, and from then on `read_journal_records`
  raises;
* *decisions*: an `out_of_universe` decision does not pass
  `validate_no_trade_decision` with its own input;
* *market data*: the 1m and the 1M candles of a symbol share a view and are both
  checked as minutes, `BTC/USDT` and `BTC_USDT` share a file; a crash while a file is
  written leaves neither the old nor the new rows; writing to the curated layer runs
  no checks itself.

## Fairness

`Fairness` in `TaskLoop`: weak fairness of the loop's steps, since SQLite calls
return, `subprocess.run` has a timeout and the validator's commands end; strong
fairness of `GateTimeout`, because the deadline of `wait_for_approval` comes
however often it polls; weak fairness of each worker thread's writes.  None for
the operator, for `Start` (a loop that returned 0 stays down until somebody
starts it), for `Crash` or for a listener restart.  `CardFairSpec` assumes the same
of the loop and the commands beside the card, and adds weak
fairness of each coroutine that renders or polls, since a call of Discord returns or
raises, and of the review threads, which end because the model client has a
timeout.  None for `Reconnect`, which is Discord's.

`MarketData` assumes that a call to the exchange returns (`WF_vars(Call)`): the client
sets a timeout.  It does not assume that a call ever succeeds; that a fetch ends
is due to the count of the attempts.  The other modules state no fairness.

## Proofs

`TaskLoop_proofs` proves, for any tasks, phase map, risky set, thread set and
bounds that satisfy `TaskAssumption`, all the safety properties of `loop_safe`.
The argument is one inductive invariant, `IInv`.  The properties are not
inductive as they stand: `GateBeforeWork` speaks of the past, so `IInv` adds where
the approval is at each point of the loop (`Approvals`: every "approved" row goes
back to one the operator wrote, also when the loop acts on one it read before;
`Attempts`: what an attempt in progress has behind it), what the locals mean at
each point (`Locals`), that the pause flag or a pending write of it stands
between a stop and the next attempt (`Stopped`), where the session counter is
checked (`Limited`) and which event is the newest at each point (`Announced`).
The listener touches none of the loop's locals, so its steps are reduced to one
effect (`ListenerKeepsOut`) before each part is checked.

`KeepsPromises` proves that `TaskLoop` implements `OperatorContract`, one lemma per kind
of commit (an approval, a command's write, a mark of a row, the end of an attempt, a
stop, an entry and an advance).  The guards of the contract are not guards of the
code: that the approval is there, that the task belongs to the open phase, that the
row is not done already and that the loop has not stopped is what `IInv` says of the
point where the commit is made (`AtWork`, `NotDoneYet`).

`OperatorCard_proofs` proves that `CardSpec` implements `Spec` (every step is a step
of `TaskLoop` or a stutter), and with it carries `IInv` over; that a Deep Diagnose
only runs when a task was attempted, which is the assumption under which
`TaskLoop` lets review events appear (`ReviewEvent`); and `CardSettles`, from the
invariant `CardCurrent`: the view drawn last, on its way or on the card, is right, or
another will be drawn, or the loop is at a point whose event is still to come, or that
view was overtaken or lost; and the types of the card.  With the
card beside it the loop keeps `OperatorContract`, too (`CardKeepsPromises`).

`RiskControls_proofs` proves all properties of `risk`, for any symbols, limits, drawdowns
and batch size that satisfy `RiskAssumption`.  `SymbolExposureBounded` is not inductive:
`BatchBound` adds what a step can rely on (within a batch either nothing was accepted
for a symbol, which then holds at most what the account state says, or what it
holds is below `Ceiling(batch)`), and `AccountBound` that supplied states are
themselves within the ceiling.  `TotalExposureBounded` sums over the symbols; its
`BatchTotal` says the same of the sum (within a batch either nothing was accepted, or
the total is below `TotalCeiling(batch)`).  The sum is a fold, of which the prover knows
only its recursive definition: `Sums` is the set of functions that satisfy this
equation, `SumsExist` shows by a least counterexample (`LeastNatural`, over the number
of elements taken) that there is one for a finite set, and `SumIsSolution` that the
fold is one.  From there `SumMonotone`, `SumAdds` and `SumZero` follow, and that an
accepted entry adds its notional to the total and a close subtracts from it.
`RiskAssumption` says that the symbols are finite, since positions are a mapping in
the memory of a process.

`FreqtradeAdapter_proofs` proves all properties of `adapter`, for any candles, periods,
thresholds and limits that satisfy the three assumptions.  `IInv` says that the
cells hold the decision for the frame, pair and configuration at hand and that it
was taken on a usable frame; the rest are lemmas about the operators: what
division and rounding lose (`Quotient`, `Rounding`), that a stop keeps to its bounds
whatever the range was (`StopDistanceBounds`), that prices come out in order
(`PricesInOrder`), that a size is within its quotients (`Sizing`), and that frames
which agree on the last candles are decided alike (`SameWindow`).  That a lookback
has a lowest and a highest candle takes an induction over its length; `LeastNatural`
(every set of naturals has a least element, from the library's theorem that `<` is
well-founded) stands in for it.  `EntriesNeverMeetExits` proves
`EntryNeverOnExit` for any universes and limits of the object and of the class: the
exit is a function of the candles alone, which is what the two decisions share.

`AuditTrail_proofs` proves, for any processes, decisions, record lengths and bounds that
satisfy `AuditAssumption`, all properties of `audit`, that the line
numbers returned by `append` are right when nobody wrote in between
(`LineNumbersExact`), and the refinement of `AppendOnlyLog`.  `RestartsAreJournaled`
speaks of packets already written; the invariant adds what a batch in progress has
behind it (`ProgressInv`: each record of its event is in the journal or still to be
written), that the packet of a restart follows its record (`CoveredInv`), that a text
without its newline is a long one (`OpenInv`), what a line count was taken of
(`CountInv`) and, for the order of a replay, that files hold only what their event
makes (`MadeInv`) and that every artifact of a decision carries the decision's time,
whichever process wrote it (`StampInv`).  `ReportCounts` compares sizes of sets, while
batches are under way; `ReportInv` is what holds in between.  `FiguresInv` balances each
figure: the items in the files are at least those due by completed batches and those
of the batches `UnderWay`, whose records, packets or both may be there already, and
exceed them by at most two for each crash.  Each step keeps this balance
(`Balances`): what it adds to the files it adds to what is due or under way.
`NumberInv` and `FreshInv` say that batches are numbered apart and that what a process
has still to write of its batch is in no file, so that a write adds exactly one item.
That finitely many processes are busy is part of the invariant (each step makes at most
one more busy), so that nothing is assumed of the number of processes.

`DecisionBoundary_proofs` proves all properties of `decisions` for any snapshots,
offers, inputs, policy and times.  The invariant says where a result comes from
(`BuiltInv`), that what a verdict refused is among the checks that fail now
(`RefusedInv`: time only adds to them) and that what it accepted against the clock was
not past its time (`TimedInv`).  `FirstFails`, that the first failing check of a list
exists and is one of those that fail, uses the well-ordering of Nat as above.

`Reconciliation_proofs` proves all properties of `reconcile`, for any assets, positions,
values and tolerances, and besides that snapshots of the same updates differ only in
which zeros they list (`SameUpdatesMatch`) and that journal record, packet and alert
of a report agree (`OneStory`).  The invariant ties the snapshots that wait and
the two of the report to the history: each is of updates that there were, holds
their values, and lists what is not zero (`Sound`).  Later updates do not change that,
because the value of an entity comes from the last update it is of.

`MarketData_proofs` proves the safety properties of `market_data`, for any symbols,
timeframes, names they share, answers and bounds that satisfy `MarketDataAssumption`.
The invariant says that a readable file holds what was last written of some dataset
with its path (`FilesInv`), that this is of that dataset alone (`LastInv`), and that a
view reads a file of a dataset with its table, unless a caller chose its name
(`ViewsInv`); so a query finds all rows of its
dataset or none (`QueryAnswers`).  `QualityOfRows` shows that the checks between
neighbours amount to multiples of the interval, and `OrderedWhole` that rows with
increasing times have one order only, so that what passed the checks passes them
again however often it is queried.  Both take inductions along a sequence, which
`UpFromOne` and `DownToOne` derive from the well-ordering of Nat.

Only model-checked: the liveness properties `PauseTakesEffect`, `GateResolves`,
`ReviewReleasesCard` and `FetchEnds` (fairness and ENABLED are out of the prover's
reach) and the violations, which are counterexamples.  Every other property of a
passing run is stated by a theorem.

## Not modelled

* The notifier, the local and cloud model clients and the model router: planned; they
  post text and keep only a warm-up flag.
* The activity log: text nothing reads back.
* The collector jobs: they build a command line and run Freqtrade's download once;
  the files are Freqtrade's.
* Research and reports: offline computations over result files.
* Configuration: files read and validated once at start.
* The skeleton applications: placeholders and logging setup.
* Of the modelled parts: `--run-next`, `--phase-review` and `--status` of the
  orchestrator, the wording of cards, prompts and messages, the loading message of the
  webhook, the low diagnosis, the parsing of rows and snapshots, confidence and strength of
  signals, payloads and identifiers.

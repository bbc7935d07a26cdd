--------------------------- MODULE Reconciliation ---------------------------
(***************************************************************************)
(* Reconciliation of the account (apps/supervisor/reconciliation) and the  *)
(* alerts of the supervisor (alerts).  An exchange updates balances and    *)
(* positions; the internal state follows, late, and may miss an update;    *)
(* snapshots of the two are taken when it suits, compared, and what is     *)
(* found is journalled, put in a packet and sent to a sink that may fail.  *)
(***************************************************************************)
EXTENDS Integers, Sequences, FiniteSets

CONSTANTS
  Assets, Positions,   \* what has a balance, what has a position
  Values,              \* totals and notionals
  ListedAtZero,        \* what a snapshot may list although it is zero
  BalanceTolerance, PositionTolerance,
  MaxUpdates,          \* bound on the updates of the exchange
  MaxMissed,           \* bound on the updates the internal state misses
  MaxAlerts            \* bound on the alerts built

Entities == Assets \cup Positions

ASSUME ReconciliationAssumption ==
  /\ Assets \cap Positions = {}
  /\ IsFiniteSet(Assets) /\ IsFiniteSet(Positions)
  /\ Values \subseteq Nat /\ 0 \in Values
  /\ ListedAtZero \subseteq Entities
  /\ BalanceTolerance \in Nat /\ PositionTolerance \in Nat
  /\ MaxUpdates \in Nat /\ MaxMissed \in Nat /\ MaxAlerts \in Nat

VARIABLES
  updates,    \* the exchange's updates, each a new value of an entity
  next,       \* the first update that has not reached the internal state
  missed,     \* the updates that never will
  internal,   \* the internal snapshot to compare, or NoSnapshot
  external,   \* the external one
  report,     \* the last report with its snapshots, or NoReport
  queue,      \* alerts built and not yet delivered
  tally       \* alerts built, delivery records, those that say delivered,
              \* and alerts the sink took

vars == <<updates, next, missed, internal, external, report, queue, tally>>

NoSnapshot == [source |-> "none"]
NoReport   == [status |-> "none"]

-----------------------------------------------------------------------------
(* Snapshots.  A snapshot lists each asset, and each symbol and side, once *)
(* or not at all.  It knows which updates it is of; the code does not.     *)

\* The value of e after the updates in seen.
ValueAt(e, seen) ==
  LET of == {i \in seen : updates[i].entity = e}
  IN IF of = {} THEN 0
     ELSE updates[CHOOSE i \in of : \A j \in of : j <= i].value

\* zeros are the entities listed with value 0 rather than left out.
AccountSnapshot(seen, zeros) ==
  LET value == [e \in Entities |-> ValueAt(e, seen)]
  IN [source |-> "account", seen |-> seen, value |-> value,
      listed |-> {e \in Entities : value[e] > 0 \/ e \in zeros}]

\* empty_account_snapshot.
EmptySnapshot == [source |-> "mock", seen |-> {},
                  value |-> [e \in Entities |-> 0], listed |-> {}]

Distance(a, b) == IF a < b THEN b - a ELSE a - b

\* Fault: what only the exchange lists is not compared.
CompareInternalOnly(int, ext, entities, tolerance, severity) ==
  {[entity |-> e, severity |-> severity,
    code |-> IF e \notin ext.listed THEN "missing_external" ELSE "mismatch"] :
     e \in {x \in entities \cap int.listed :
              \/ x \notin ext.listed
              \/ Distance(int.value[x], ext.value[x]) > tolerance}}

\* Fault: values are compared whether both sides list them or not.
CompareValuesOnly(int, ext, entities, tolerance, severity) ==
  {[entity |-> e, severity |-> severity, code |-> "mismatch"] :
     e \in {x \in entities : Distance(int.value[x], ext.value[x]) >= tolerance}}

\* _compare_balances and _compare_positions.
Compare(int, ext, entities, tolerance, severity) ==
  {[entity |-> e, severity |-> severity,
    code |-> CASE e \notin int.listed -> "unexpected_external"
               [] e \notin ext.listed -> "missing_external"
               [] OTHER               -> "mismatch"] :
     e \in {x \in entities \cap (int.listed \cup ext.listed) :
              \/ x \notin int.listed \cap ext.listed
              \/ Distance(int.value[x], ext.value[x]) > tolerance}}

\* reconcile_account_snapshots, which looks at neither times nor run ids.
Report(int, ext) ==
  LET mismatches ==
        Compare(int, ext, Assets, BalanceTolerance, "warning")
          \cup Compare(int, ext, Positions, PositionTolerance, "critical")
  IN [status |-> IF mismatches = {} THEN "matched" ELSE "mismatched",
      mismatches |-> mismatches, int |-> int, ext |-> ext]

\* reconciliation_audit_artifacts: the flag "critical" of record and packet.
Artifacts(r) ==
  IF r.status = "matched" THEN {}
  ELSE LET critical == \E m \in r.mismatches : m.severity = "critical"
       IN {<<"journal", critical>>, <<"packet", critical>>}

-----------------------------------------------------------------------------
(* Alerts.                                                                 *)

\* alert_from_reconciliation_report.
AlertFromReport(r) ==
  IF r.status = "matched" THEN <<>>
  ELSE LET count == Cardinality({m \in r.mismatches : m.severity = "critical"})
       IN <<[type |-> "reconciliation_mismatch",
             severity |-> IF count > 0 THEN "critical" ELSE "warning"]>>

\* alert_from_control_command and alert_from_flatten_request; the other
\* commands have no alert.
AlertFromControl(action) ==
  CASE action = "freeze_entries" ->
         <<[type |-> "entries_frozen", severity |-> "warning"]>>
    [] action = "activate_kill_switch" ->
         <<[type |-> "kill_switch_activated", severity |-> "critical"]>>
    [] action = "flatten_workflow" ->
         <<[type |-> "flatten_requested", severity |-> "critical"]>>
    [] action \in {"unfreeze_entries", "request_flatten"} -> <<>>

Actions == {"freeze_entries", "unfreeze_entries", "activate_kill_switch",
            "request_flatten", "flatten_workflow"}

\* Fault: the first failure ends the batch.
DeliverUntilFailure(alerts, raises) ==
  [k \in {j \in 1..Len(alerts) : \A i \in 1..(j - 1) : ~raises[i]} |->
     [alert |-> alerts[k], delivered |-> ~raises[k]]]

\* deliver_supervisor_alerts: one record for each alert, in their order.
DeliverAlerts(alerts, raises) ==
  [k \in 1..Len(alerts) |-> [alert |-> alerts[k], delivered |-> ~raises[k]]]

-----------------------------------------------------------------------------
Init ==
  /\ updates = <<>> /\ next = 1 /\ missed = {}
  /\ internal = NoSnapshot /\ external = NoSnapshot /\ report = NoReport
  /\ queue = <<>>
  /\ tally = [built |-> 0, recorded |-> 0, delivered |-> 0, taken |-> 0]

Accounts  == <<updates, next, missed>>
Snapshots == <<internal, external>>

\* External: a fill, a fee, a deposit at the exchange.
Update(e, v) ==
  /\ Len(updates) < MaxUpdates
  /\ v # ValueAt(e, DOMAIN updates)
  /\ updates' = Append(updates, [entity |-> e, value |-> v])
  /\ UNCHANGED <<next, missed, Snapshots, report, queue, tally>>

\* External: the internal state takes in an update.
Book ==
  /\ next <= Len(updates)
  /\ next' = next + 1
  /\ UNCHANGED <<updates, missed, Snapshots, report, queue, tally>>

\* External: it misses one, as when the process that listens is down.
Miss ==
  /\ next <= Len(updates) /\ Cardinality(missed) < MaxMissed
  /\ next' = next + 1 /\ missed' = missed \cup {next}
  /\ UNCHANGED <<updates, Snapshots, report, queue, tally>>

TakeInternal ==
  /\ internal = NoSnapshot
  /\ \E zeros \in SUBSET ListedAtZero :
       internal' = AccountSnapshot(1..(next - 1) \ missed, zeros)
  /\ UNCHANGED <<Accounts, external, report, queue, tally>>

TakeExternal ==
  /\ external = NoSnapshot
  /\ \E zeros \in SUBSET ListedAtZero :
       external' = AccountSnapshot(DOMAIN updates, zeros)
  /\ UNCHANGED <<Accounts, internal, report, queue, tally>>

\* scripts/reconcile_positions without the path of a snapshot.
OmitInternal ==
  /\ internal = NoSnapshot /\ internal' = EmptySnapshot
  /\ UNCHANGED <<Accounts, external, report, queue, tally>>

OmitExternal ==
  /\ external = NoSnapshot /\ external' = EmptySnapshot
  /\ UNCHANGED <<Accounts, internal, report, queue, tally>>

\* alerts join those the caller delivers next.
Raise(alerts) ==
  /\ tally.built < MaxAlerts
  /\ queue' = queue \o alerts
  /\ tally' = [tally EXCEPT !.built = @ + Len(alerts)]

\* The snapshots are compared.
Reconcile ==
  /\ internal # NoSnapshot /\ external # NoSnapshot
  /\ report' = Report(internal, external)
  /\ internal' = NoSnapshot /\ external' = NoSnapshot
  /\ UNCHANGED <<Accounts, queue, tally>>

\* The caller of a comparison has the alert of its report built, or does not:
\* scripts/reconcile_positions only prints the report.
AlertReport ==
  /\ report # NoReport
  /\ Raise(AlertFromReport(report))
  /\ UNCHANGED <<Accounts, Snapshots, report>>

\* A control command or a flatten request builds its alert.
Control(action) ==
  /\ Raise(AlertFromControl(action))
  /\ UNCHANGED <<Accounts, Snapshots, report>>

\* The alerts are delivered as one batch; send may raise for any of them,
\* before or after the sink took it.
Deliver ==
  /\ queue # <<>>
  /\ \E raises, takes \in [1..Len(queue) -> BOOLEAN] :
       LET records == DeliverAlerts(queue, raises)
       IN /\ \A k \in 1..Len(queue) : ~raises[k] => takes[k]
          /\ tally' = [tally EXCEPT
               !.recorded = @ + Len(records),
               !.delivered = @ + Cardinality(
                 {k \in 1..Len(records) : records[k].delivered}),
               !.taken = @ + Cardinality({k \in 1..Len(records) : takes[k]})]
  /\ queue' = <<>>
  /\ UNCHANGED <<Accounts, Snapshots, report>>

Next ==
  \/ \E e \in Entities, v \in Values : Update(e, v)
  \/ Book \/ Miss
  \/ TakeInternal \/ TakeExternal \/ OmitInternal \/ OmitExternal
  \/ Reconcile \/ AlertReport
  \/ \E action \in Actions : Control(action)
  \/ Deliver

Spec == Init /\ [][Next]_vars
-----------------------------------------------------------------------------
Codes == {"unexpected_external", "missing_external", "mismatch"}
Severities == {"warning", "critical"}

SnapshotTypes ==
  [source : {"account", "mock"}, seen : SUBSET (1..MaxUpdates),
   value : [Entities -> Values], listed : SUBSET Entities]

\* Every variable keeps its type.
TypeOK ==
  /\ updates \in Seq([entity : Entities, value : Values])
  /\ next \in 1..(Len(updates) + 1) /\ missed \subseteq 1..(next - 1)
  /\ internal \in SnapshotTypes \cup {NoSnapshot}
  /\ external \in SnapshotTypes \cup {NoSnapshot}
  /\ report \in [status : {"matched", "mismatched"},
                 mismatches : SUBSET [entity : Entities, severity : Severities,
                                      code : Codes],
                 int : SnapshotTypes, ext : SnapshotTypes] \cup {NoReport}
  /\ \A k \in 1..Len(queue) : queue[k].severity \in Severities
  /\ tally \in [{"built", "recorded", "delivered", "taken"} -> 0..MaxAlerts]

Reported == report # NoReport
Compared == Reported /\ report.int.source = "account"
              /\ report.ext.source = "account"

Tolerance(e) == IF e \in Assets THEN BalanceTolerance ELSE PositionTolerance

Diverges(e) == Distance(report.int.value[e], report.ext.value[e]) > Tolerance(e)

\* A report that matches hides no divergence beyond the tolerance, in anything
\* that either side knows of.
MatchedHidesNothing ==
  (Reported /\ report.status = "matched") => \A e \in Entities : ~Diverges(e)

\* When the internal snapshot is of the same updates as the exchange's, a
\* mismatch is never about a value: it is about an entity that one side lists
\* with a zero and the other leaves out.
SameUpdatesMatch ==
  (Compared /\ report.int.seen = report.ext.seen) =>
    \A m \in report.mismatches :
      /\ report.int.value[m.entity] = 0
      /\ m.entity \notin report.int.listed \cap report.ext.listed

\* A mismatch between accounts comes of an update of that entity that only one
\* of the snapshots is of, or of a listed zero: fills of other symbols never
\* raise it.
MismatchIsOwn ==
  Compared =>
    \A m \in report.mismatches :
      \/ \E i \in (report.int.seen \cup report.ext.seen)
                  \ (report.int.seen \cap report.ext.seen) :
           updates[i].entity = m.entity
      \/ m.entity \notin report.int.listed \cap report.ext.listed

\* Journal, packet and alert, written by three functions, tell one story: there
\* is all of them or none, and all are critical exactly when a position, not
\* only a balance, is off.
OneStory ==
  Reported =>
    LET off == \E p \in Positions : \E m \in report.mismatches : m.entity = p
        alert == AlertFromReport(report)
    IN /\ Artifacts(report) =
            IF report.status = "matched" THEN {}
            ELSE {<<"journal", off>>, <<"packet", off>>}
       /\ alert = <<>> <=> report.status = "matched"
       /\ alert # <<>> => (alert[1].severity = "critical" <=> off)

\* An update of a position that the internal state has missed, and that no
\* later one makes up for, is in the report of the next comparison, whose alert
\* is critical, if it is larger than the tolerance.
MissedPositionIsCritical ==
  Compared =>
    \A p \in Positions :
      (\E i \in report.ext.seen \cap missed :
         /\ updates[i].entity = p
         /\ \A j \in report.ext.seen : j > i => updates[j].entity # p
         /\ Distance(updates[i].value, report.int.value[p]) > PositionTolerance)
      => AlertFromReport(report)
           = <<[type |-> "reconciliation_mismatch", severity |-> "critical"]>>

\* Whatever the sink does, each alert of a batch gets one delivery record, and
\* a record says delivered only of an alert that the sink took.
AlertsAccounted ==
  /\ tally.built = tally.recorded + Len(queue)
  /\ tally.delivered <= tally.taken /\ tally.taken <= tally.recorded
=============================================================================

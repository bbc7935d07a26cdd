------------------------ MODULE Reconciliation_proofs ------------------------
(***************************************************************************)
(* What reconciliation promises, for any assets, positions, values and     *)
(* tolerances, however many updates there are and whatever the sink does.  *)
(***************************************************************************)
EXTENDS Reconciliation, FiniteSetTheorems, WellFoundedInduction, TLAPS

UpdateTypes == [entity : Entities, value : Values]

\* What an entity's value comes from: the updates of it that were seen.
Of(u, e, seen) == {i \in seen : u[i].entity = e}

\* ValueAt for any sequence of updates.
ValueIn(u, e, seen) ==
  IF Of(u, e, seen) = {} THEN 0
  ELSE u[CHOOSE i \in Of(u, e, seen) : \A j \in Of(u, e, seen) : j <= i].value

\* A snapshot of an account is of updates that there were, and lists what is
\* not zero.
Sound(s, u) ==
  /\ s \in SnapshotTypes /\ s.seen \subseteq 1..Len(u)
  /\ \A e \in Entities : s.value[e] > 0 => e \in s.listed
  /\ s.source = "account" => \A e \in Entities : s.value[e] = ValueIn(u, e, s.seen)

SnapshotInv ==
  /\ internal # NoSnapshot => Sound(internal, updates)
  /\ external # NoSnapshot => Sound(external, updates)

ReportInv ==
  Reported => /\ Sound(report.int, updates) /\ Sound(report.ext, updates)
              /\ report = Report(report.int, report.ext)

UpdatesType == updates \in Seq(UpdateTypes) /\ Len(updates) <= MaxUpdates

BookInv == next \in 1..(Len(updates) + 1) /\ missed \subseteq 1..(next - 1)

Types == {"reconciliation_mismatch", "entries_frozen", "kill_switch_activated",
          "flatten_requested"}
AlertTypes == [type : Types, severity : Severities]

TallyInv ==
  /\ queue \in Seq(AlertTypes)
  /\ tally \in [{"built", "recorded", "delivered", "taken"} -> Nat]
  /\ tally.built <= MaxAlerts
  /\ AlertsAccounted

IInv == UpdatesType /\ BookInv /\ SnapshotInv /\ ReportInv /\ TallyInv

-----------------------------------------------------------------------------
\* Nat is well-ordered: what replaces induction below.
LEMMA LeastNatural ==
  ASSUME NEW T \in SUBSET Nat, T # {}
  PROVE  \E x \in T : \A y \in T : x <= y
<1> DEFINE R == {s \in Nat \X Nat : s[1] < s[2]}
<1>1. R = OpToRel(<, Nat)
  BY DEF OpToRel
<1>2. IsWellFoundedOn(R, Nat)
  BY <1>1, NatLessThanWellFounded
<1>3. PICK x \in T : \A y \in T : ~(<<y, x>> \in R)
  BY <1>2, WFMin
<1>4. \A y \in T : ~(y < x)
  BY <1>3
<1> QED BY <1>4

\* A set of positions of a sequence has a last one.
LEMMA LastOne ==
  ASSUME NEW n \in Nat, NEW T \in SUBSET (1..n), T # {}
  PROVE  \E i \in T : \A j \in T : j <= i
<1> DEFINE U == {x \in Nat : n - x \in T}
<1>1. U # {}
  <2>1. PICK i \in T : TRUE
    OBVIOUS
  <2>2. n - i \in Nat /\ n - (n - i) = i
    BY <2>1
  <2> QED BY <2>2
<1>2. PICK x \in U : \A y \in U : x <= y
  BY <1>1, LeastNatural
<1>3. ASSUME NEW j \in T PROVE j <= n - x
  <2>1. n - j \in Nat /\ n - (n - j) = j
    OBVIOUS
  <2>2. x <= n - j
    BY <1>2, <2>1
  <2> QED BY <2>2
<1> QED BY <1>2, <1>3

\* The value of the model is that of any sequence, of its updates.
LEMMA ValueAtIn == \A e, seen : ValueAt(e, seen) = ValueIn(updates, e, seen)
BY DEF ValueAt, ValueIn, Of

\* A value is that of the last update seen, or zero.
LEMMA ValueIsLast ==
  ASSUME NEW u \in Seq(UpdateTypes), NEW e, NEW seen \in SUBSET (1..Len(u))
  PROVE  /\ ValueIn(u, e, seen) \in Values
         /\ \A i \in Of(u, e, seen) :
              (\A j \in Of(u, e, seen) : j <= i) =>
                ValueIn(u, e, seen) = u[i].value
<1> DEFINE of == Of(u, e, seen)
<1>1. Len(u) \in Nat
  OBVIOUS
<1>2. seen \subseteq 1..Len(u) /\ of \subseteq seen
  BY DEF Of
<1>3. Len(u) \in Nat /\ of \in SUBSET (1..Len(u))
  BY <1>1, <1>2
<1>5. 0 \in Values
  BY ReconciliationAssumption
<1>4. \A i \in of : u[i].value \in Values
  <2>1. \A i \in of : u[i] \in UpdateTypes
    BY <1>3
  <2> QED BY <2>1 DEF UpdateTypes
<1>6. CASE of = {}
  BY <1>6, <1>5 DEF ValueIn
<1>7. CASE of # {}
  <2> DEFINE l == CHOOSE i \in of : \A j \in of : j <= i
  <2>1. \E i \in of : \A j \in of : j <= i
    BY <1>3, <1>7, LastOne
  <2>2. l \in of /\ \A j \in of : j <= l
    BY <2>1
  <2>3. ValueIn(u, e, seen) = u[l].value
    BY <1>7 DEF ValueIn
  <2> HIDE DEF l
  <2>4. ASSUME NEW i \in of, \A j \in of : j <= i PROVE i = l
    <3>1. i <= l /\ l <= i /\ i \in Nat /\ l \in Nat
      BY <1>3, <2>2, <2>4
    <3> QED BY <3>1
  <2> QED BY <1>4, <2>2, <2>3, <2>4
<1> QED BY <1>6, <1>7

\* A value is told by the updates of its entity alone.
LEMMA ValueIsOwn ==
  ASSUME NEW u, NEW e, NEW seen, NEW other, Of(u, e, seen) = Of(u, e, other)
  PROVE  ValueIn(u, e, seen) = ValueIn(u, e, other)
BY DEF ValueIn

\* A later update changes no snapshot.
LEMMA Grows ==
  ASSUME NEW u \in Seq(UpdateTypes), NEW x \in UpdateTypes, NEW s, Sound(s, u)
  PROVE  Sound(s, Append(u, x))
<1> DEFINE w == Append(u, x)
<1>1. Len(w) = Len(u) + 1 /\ Len(u) \in Nat /\ \A i \in 1..Len(u) : w[i] = u[i]
  OBVIOUS
<1>2. s.seen \subseteq 1..Len(u)
  BY DEF Sound
<1> HIDE DEF w
<1>3. ASSUME NEW e PROVE Of(w, e, s.seen) = Of(u, e, s.seen)
  BY <1>1, <1>2 DEF Of
<1>4. ASSUME NEW e PROVE ValueIn(w, e, s.seen) = ValueIn(u, e, s.seen)
  <2> DEFINE of == Of(u, e, s.seen)
  <2>1. CASE of = {}
    BY <1>3, <2>1 DEF ValueIn
  <2>2. CASE of # {}
    <3>1. of \in SUBSET (1..Len(u))
      BY <1>2 DEF Of
    <3>2. \E i \in of : \A j \in of : j <= i
      BY <1>1, <2>2, <3>1, LastOne
    <3> DEFINE l == CHOOSE i \in of : \A j \in of : j <= i
    <3>3. l \in 1..Len(u)
      BY <3>1, <3>2
    <3>4. ValueIn(w, e, s.seen) = w[l].value /\ ValueIn(u, e, s.seen) = u[l].value
      BY <1>3, <2>2 DEF ValueIn
    <3> HIDE DEF l
    <3> QED BY <1>1, <3>3, <3>4
  <2> QED BY <2>1, <2>2
<1>5. s.seen \subseteq 1..Len(w)
  BY <1>1, <1>2
<1>6. Sound(s, w)
  BY <1>4, <1>5 DEF Sound
<1> QED BY <1>6 DEF w

\* A snapshot of an account is sound.
LEMMA SnapshotSound ==
  ASSUME UpdatesType, NEW seen \in SUBSET (1..Len(updates)), NEW zeros
  PROVE  Sound(AccountSnapshot(seen, zeros), updates)
<1> DEFINE s == AccountSnapshot(seen, zeros)
<1>1. /\ s.source = "account" /\ s.seen = seen
      /\ s.value = [e \in Entities |-> ValueIn(updates, e, seen)]
      /\ s.listed = {e \in Entities : s.value[e] > 0 \/ e \in zeros}
      /\ DOMAIN s = {"source", "seen", "value", "listed"}
  BY ValueAtIn DEF AccountSnapshot
<1>2. seen \in SUBSET (1..MaxUpdates)
  BY ReconciliationAssumption DEF UpdatesType
<1>3. \A e \in Entities : ValueIn(updates, e, seen) \in Values
  BY ValueIsLast DEF UpdatesType
<1>4. s.value \in [Entities -> Values]
  BY <1>1, <1>3
<1>5. s = [source |-> s.source, seen |-> s.seen,
           value |-> s.value, listed |-> s.listed]
  BY DEF AccountSnapshot
<1>6. s.listed \in SUBSET Entities
  BY <1>1
<1> HIDE DEF s
<1>7. s \in SnapshotTypes
  BY <1>1, <1>2, <1>4, <1>5, <1>6 DEF SnapshotTypes
<1>8. Sound(s, updates)
  BY <1>1, <1>7 DEF Sound
<1> QED BY <1>8 DEF s

\* So is the empty one.
LEMMA EmptySound ==
  ASSUME NEW u PROVE Sound(EmptySnapshot, u)
BY ReconciliationAssumption DEF Sound, EmptySnapshot, SnapshotTypes

-----------------------------------------------------------------------------
\* What a report finds off: an entity that one side alone lists, or with too
\* large a distance.
Off(e, int, ext) ==
  /\ e \in int.listed \cup ext.listed
  /\ \/ e \notin int.listed \cap ext.listed
     \/ Distance(int.value[e], ext.value[e]) > Tolerance(e)

\* What a comparison finds of one kind of entity.
LEMMA CompareFinds ==
  ASSUME NEW int, NEW ext, NEW entities, NEW tolerance, NEW severity,
         \A e \in entities : Tolerance(e) = tolerance
  PROVE  LET found == Compare(int, ext, entities, tolerance, severity) IN
         /\ \A e \in entities : Off(e, int, ext) <=> \E m \in found : m.entity = e
         /\ \A m \in found : /\ m.entity \in entities /\ Off(m.entity, int, ext)
                             /\ m.severity = severity /\ m.code \in Codes
                             /\ m = [entity |-> m.entity, severity |-> severity,
                                     code |-> m.code]
<1> DEFINE found == Compare(int, ext, entities, tolerance, severity)
           Code(e) == CASE e \notin int.listed -> "unexpected_external"
                        [] e \notin ext.listed -> "missing_external"
                        [] OTHER               -> "mismatch"
           M(e) == [entity |-> e, severity |-> severity, code |-> Code(e)]
           D == {e \in entities : Off(e, int, ext)}
<1>1. \A e : Code(e) \in Codes
  BY DEF Codes
<1>2. D = {x \in entities \cap (int.listed \cup ext.listed) :
              \/ x \notin int.listed \cap ext.listed
              \/ Distance(int.value[x], ext.value[x]) > tolerance}
  BY DEF Off
<1>3. found = {M(e) : e \in D}
  BY <1>2 DEF Compare
<1> HIDE DEF found, Code, D
<1>4. \A e \in D : M(e) \in found
  BY <1>3
<1>5. ASSUME NEW m \in found
      PROVE  \E e \in D : m = M(e)
  BY <1>3
<1>6. ASSUME NEW e \in entities
      PROVE  Off(e, int, ext) <=> \E m \in found : m.entity = e
  <2>1. Off(e, int, ext) <=> e \in D
    BY DEF D
  <2>2. e \in D => \E m \in found : m.entity = e
    BY <1>4
  <2>3. (\E m \in found : m.entity = e) => e \in D
    BY <1>5
  <2> QED BY <2>1, <2>2, <2>3
<1>7. ASSUME NEW m \in found
      PROVE  /\ m.entity \in entities /\ Off(m.entity, int, ext)
             /\ m.severity = severity /\ m.code \in Codes
             /\ m = [entity |-> m.entity, severity |-> severity, code |-> m.code]
  <2>1. PICK e \in D : m = M(e)
    BY <1>5
  <2>2. m.entity = e /\ m.severity = severity /\ m.code = Code(e)
    BY <2>1
  <2>3. e \in entities /\ Off(e, int, ext)
    BY DEF D
  <2> QED BY <1>1, <2>1, <2>2, <2>3
<1>8. QED BY <1>6, <1>7 DEF found

\* What a report says of the snapshots it is of.
LEMMA ReportFacts ==
  ASSUME NEW int, NEW ext, NEW r, r = Report(int, ext)
  PROVE  /\ r = [status |-> r.status, mismatches |-> r.mismatches,
                 int |-> int, ext |-> ext]
         /\ r.int = int /\ r.ext = ext /\ r.status \in {"matched", "mismatched"}
         /\ r.status = "matched" <=> r.mismatches = {}
         /\ \A e \in Entities :
              Off(e, int, ext) <=> \E m \in r.mismatches : m.entity = e
         /\ \A m \in r.mismatches :
              /\ m \in [entity : Entities, severity : Severities, code : Codes]
              /\ Off(m.entity, int, ext)
              /\ m.severity = "critical" <=> m.entity \in Positions
<1> DEFINE a == Compare(int, ext, Assets, BalanceTolerance, "warning")
           p == Compare(int, ext, Positions, PositionTolerance, "critical")
<1>1. /\ \A e \in Assets : Tolerance(e) = BalanceTolerance
      /\ \A e \in Positions : Tolerance(e) = PositionTolerance
      /\ Assets \cap Positions = {} /\ Entities = Assets \cup Positions
  BY ReconciliationAssumption DEF Tolerance, Entities
<1>2. /\ \A e \in Assets : Off(e, int, ext) <=> \E m \in a : m.entity = e
      /\ \A m \in a : /\ m.entity \in Assets /\ Off(m.entity, int, ext)
                      /\ m.severity = "warning" /\ m.code \in Codes
                      /\ m = [entity |-> m.entity, severity |-> "warning",
                              code |-> m.code]
  BY <1>1, CompareFinds
<1>3. /\ \A e \in Positions : Off(e, int, ext) <=> \E m \in p : m.entity = e
      /\ \A m \in p : /\ m.entity \in Positions /\ Off(m.entity, int, ext)
                      /\ m.severity = "critical" /\ m.code \in Codes
                      /\ m = [entity |-> m.entity, severity |-> "critical",
                              code |-> m.code]
  BY <1>1, CompareFinds
<1> HIDE DEF a, p
<1>4. r = [status |-> IF a \cup p = {} THEN "matched" ELSE "mismatched",
           mismatches |-> a \cup p, int |-> int, ext |-> ext]
  BY DEF Report, a, p
<1>5. /\ r.mismatches = a \cup p /\ r.int = int /\ r.ext = ext
      /\ r.status = IF a \cup p = {} THEN "matched" ELSE "mismatched"
  BY <1>4
<1>6. ASSUME NEW e \in Entities
      PROVE  Off(e, int, ext) <=> \E m \in r.mismatches : m.entity = e
  <2>1. CASE e \in Assets
    BY <1>1, <1>2, <1>3, <1>5, <2>1
  <2>2. CASE e \in Positions
    BY <1>1, <1>2, <1>3, <1>5, <2>2
  <2> QED BY <1>1, <2>1, <2>2
<1>7. ASSUME NEW m \in r.mismatches
      PROVE  /\ m \in [entity : Entities, severity : Severities, code : Codes]
             /\ Off(m.entity, int, ext)
             /\ m.severity = "critical" <=> m.entity \in Positions
  <2>1. CASE m \in a
    <3>1. m.entity \in Entities /\ m.entity \notin Positions
      BY <1>1, <1>2, <2>1
    <3>2. m \in [entity : Entities, severity : Severities, code : Codes]
      BY <1>2, <2>1, <3>1 DEF Severities
    <3> QED BY <1>2, <2>1, <3>1, <3>2
  <2>2. CASE m \in p
    <3>1. m.entity \in Entities
      BY <1>1, <1>3, <2>2
    <3>2. m \in [entity : Entities, severity : Severities, code : Codes]
      BY <1>3, <2>2, <3>1 DEF Severities
    <3> QED BY <1>3, <2>2, <3>2
  <2> QED BY <1>5, <2>1, <2>2
<1>8. QED BY <1>4, <1>5, <1>6, <1>7

\* The alert counts the critical mismatches; it is critical when there is one.
LEMMA AlertIsCritical ==
  ASSUME NEW int, NEW ext, NEW r, r = Report(int, ext),
         r.status = "mismatched"
  PROVE  AlertFromReport(r) =
           <<[type |-> "reconciliation_mismatch",
              severity |-> IF \E m \in r.mismatches : m.severity = "critical"
                           THEN "critical" ELSE "warning"]>>
<1> DEFINE C == {m \in r.mismatches : m.severity = "critical"}
           D == {e \in Positions : \E m \in C : m.entity = e}
           G(e) == CHOOSE m \in C : m.entity = e
           g == [e \in D |-> G(e)]
<1>1. /\ \A m \in r.mismatches :
           m.severity = "critical" <=> m.entity \in Positions
      /\ r.mismatches = Compare(int, ext, Assets, BalanceTolerance, "warning")
           \cup Compare(int, ext, Positions, PositionTolerance, "critical")
  BY ReportFacts DEF Report
<1>2. \A m, n \in C : m.entity = n.entity => m = n
  <2>1. \A m \in C : m.entity \notin Assets
    BY <1>1, ReconciliationAssumption
  <2>2. \A m \in C : \E e \in Entities : m = 
          [entity |-> e, severity |-> "critical",
           code |-> CASE e \notin int.listed -> "unexpected_external"
                      [] e \notin ext.listed -> "missing_external"
                      [] OTHER               -> "mismatch"]
    BY <1>1, <2>1 DEF Compare, Entities
  <2> QED BY <2>2
<1>3. \A m \in C : m.entity \in D /\ G(m.entity) = m
  BY <1>1, <1>2
<1>4. g \in Surjection(D, C)
  <2>1. g \in [D -> C]
    OBVIOUS
  <2>2. \A m \in C : \E e \in D : g[e] = m
    BY <1>3
  <2> QED BY <2>1, <2>2 DEF Surjection
<1>5. IsFiniteSet(D)
  BY ReconciliationAssumption, FS_Subset
<1>6. IsFiniteSet(C)
  BY <1>4, <1>5, FS_Surjection
<1>7. Cardinality(C) \in Nat /\ (Cardinality(C) = 0 <=> C = {})
  BY <1>6, FS_CardinalityType, FS_EmptySet
<1>8. Cardinality(C) > 0 <=> \E m \in r.mismatches : m.severity = "critical"
  BY <1>7
<1> HIDE DEF C
<1>9. AlertFromReport(r) =
        <<[type |-> "reconciliation_mismatch",
           severity |-> IF Cardinality(C) > 0 THEN "critical" ELSE "warning"]>>
  BY DEF AlertFromReport, C
<1>10. QED BY <1>8, <1>9

-----------------------------------------------------------------------------
\* The inductive invariant holds at the start.
LEMMA InitIInv == Init => IInv
<1> SUFFICES ASSUME Init PROVE IInv
  OBVIOUS
<1>1. UpdatesType /\ BookInv
  BY ReconciliationAssumption DEF Init, UpdatesType, BookInv
<1>2. SnapshotInv /\ ReportInv
  BY DEF Init, SnapshotInv, ReportInv, Reported
<1>3. TallyInv
  BY ReconciliationAssumption DEF Init, TallyInv, AlertsAccounted
<1> QED BY <1>1, <1>2, <1>3 DEF IInv

\* An update leaves what was seen before it as it is.
LEMMA UpdateKeeps ==
  ASSUME IInv, NEW e \in Entities, NEW v \in Values, Update(e, v)
  PROVE  IInv'
<1> DEFINE x == [entity |-> e, value |-> v]
<1>1. /\ updates \in Seq(UpdateTypes) /\ x \in UpdateTypes
      /\ updates' = Append(updates, x) /\ Len(updates) < MaxUpdates
      /\ UNCHANGED <<next, missed, internal, external, report, queue, tally>>
  BY DEF IInv, UpdatesType, UpdateTypes, Update, Snapshots
<1>2. UpdatesType'
  BY <1>1, ReconciliationAssumption DEF UpdatesType
<1>3. BookInv'
  BY <1>1 DEF IInv, BookInv
<1>4. \A s : Sound(s, updates) => Sound(s, updates')
  BY <1>1, Grows
<1>5. SnapshotInv'
  BY <1>1, <1>4 DEF IInv, SnapshotInv
<1>6. ReportInv'
  BY <1>1, <1>4 DEF IInv, ReportInv, Reported
<1>7. TallyInv'
  BY <1>1 DEF IInv, TallyInv, AlertsAccounted
<1> QED BY <1>2, <1>3, <1>5, <1>6, <1>7 DEF IInv

\* Booking an update and missing it touch only what is booked.
LEMMA BookKeeps ==
  ASSUME IInv, Book \/ Miss
  PROVE  IInv'
<1>1. /\ updates' = updates /\ next' = next + 1 /\ next <= Len(updates)
      /\ missed' = missed \/ missed' = missed \cup {next}
      /\ UNCHANGED <<internal, external, report, queue, tally>>
  BY DEF Book, Miss, Snapshots
<1>2. BookInv'
  <2>1. /\ next \in 1..(Len(updates) + 1) /\ missed \subseteq 1..(next - 1)
        /\ Len(updates) \in Nat
    BY DEF IInv, BookInv, UpdatesType
  <2>2. next' \in 1..(Len(updates) + 1)
    BY <1>1, <2>1
  <2>3. next' - 1 = next /\ next \in 1..next
    BY <1>1, <2>1
  <2>4. ASSUME NEW i \in missed PROVE i \in 1..next
    BY <2>1
  <2>5. missed' \subseteq 1..(next' - 1)
    BY <1>1, <2>3, <2>4
  <2> QED BY <1>1, <2>2, <2>5 DEF BookInv
<1>3. UpdatesType' /\ SnapshotInv' /\ ReportInv'
  BY <1>1 DEF IInv, UpdatesType, SnapshotInv, ReportInv, Reported
<1>4. TallyInv'
  BY <1>1 DEF IInv, TallyInv, AlertsAccounted
<1> QED BY <1>2, <1>3, <1>4 DEF IInv

\* A snapshot that is taken or left out is sound.
LEMMA TakeKeeps ==
  ASSUME IInv, TakeInternal \/ TakeExternal \/ OmitInternal \/ OmitExternal
  PROVE  IInv'
<1>1. UNCHANGED <<updates, next, missed, report, queue, tally>>
  BY DEF TakeInternal, TakeExternal, OmitInternal, OmitExternal, Accounts
<1>2. /\ UpdatesType /\ updates \in Seq(UpdateTypes) /\ BookInv
  BY DEF IInv, UpdatesType
<1>3. 1..(next - 1) \ missed \in SUBSET (1..Len(updates))
  BY <1>2 DEF BookInv
<1>4. DOMAIN updates \in SUBSET (1..Len(updates))
  BY <1>2
<1>5. \A zeros : /\ Sound(AccountSnapshot(1..(next - 1) \ missed, zeros), updates)
                /\ Sound(AccountSnapshot(DOMAIN updates, zeros), updates)
  BY <1>2, <1>3, <1>4, SnapshotSound
<1>6. SnapshotInv'
  <2>1. CASE TakeInternal
    BY <1>1, <1>5, <2>1 DEF IInv, SnapshotInv, TakeInternal
  <2>2. CASE TakeExternal
    BY <1>1, <1>5, <2>2 DEF IInv, SnapshotInv, TakeExternal
  <2>3. CASE OmitInternal
    BY <1>1, EmptySound, <2>3 DEF IInv, SnapshotInv, OmitInternal
  <2>4. CASE OmitExternal
    BY <1>1, EmptySound, <2>4 DEF IInv, SnapshotInv, OmitExternal
  <2> QED BY <2>1, <2>2, <2>3, <2>4
<1>7. UpdatesType' /\ BookInv' /\ ReportInv'
  BY <1>1 DEF IInv, UpdatesType, BookInv, ReportInv, Reported
<1>8. TallyInv'
  BY <1>1 DEF IInv, TallyInv, AlertsAccounted
<1> QED BY <1>6, <1>7, <1>8 DEF IInv

\* Raising no alert or one keeps the account of alerts.
LEMMA RaiseKeeps ==
  ASSUME TallyInv, NEW alerts \in Seq(AlertTypes), Len(alerts) <= 1, Raise(alerts)
  PROVE  TallyInv'
<1>1. /\ queue' \in Seq(AlertTypes) /\ Len(queue') = Len(queue) + Len(alerts)
      /\ Len(queue) \in Nat /\ Len(alerts) \in Nat
  BY DEF TallyInv, Raise
<1>2. /\ tally \in [{"built", "recorded", "delivered", "taken"} -> Nat]
      /\ tally' = [tally EXCEPT !.built = @ + Len(alerts)]
      /\ tally.built < MaxAlerts /\ AlertsAccounted
  BY DEF TallyInv, Raise
<1>3. /\ tally'.built = tally.built + Len(alerts)
      /\ tally'.recorded = tally.recorded /\ tally'.delivered = tally.delivered
      /\ tally'.taken = tally.taken
      /\ tally' \in [{"built", "recorded", "delivered", "taken"} -> Nat]
  BY <1>1, <1>2
<1>4. /\ tally.built \in Nat /\ tally.recorded \in Nat
      /\ tally.delivered \in Nat /\ tally.taken \in Nat
  BY <1>2
<1>5. tally'.built <= MaxAlerts
  <2>1. MaxAlerts \in Nat
    BY ReconciliationAssumption
  <2> QED BY <1>1, <1>2, <1>3, <1>4, <2>1
<1>6. AlertsAccounted'
  BY <1>1, <1>2, <1>3, <1>4 DEF AlertsAccounted
<1> QED BY <1>1, <1>3, <1>5, <1>6 DEF TallyInv

\* A comparison reports on sound snapshots.
LEMMA ReconcileKeeps ==
  ASSUME IInv, Reconcile
  PROVE  IInv'
<1> DEFINE r == Report(internal, external)
<1>1. /\ Sound(internal, updates) /\ Sound(external, updates) /\ report' = r
      /\ internal' = NoSnapshot /\ external' = NoSnapshot
      /\ UNCHANGED <<updates, next, missed, queue, tally>>
  BY DEF IInv, SnapshotInv, Reconcile, Accounts
<1>2. r.int = internal /\ r.ext = external
  BY ReportFacts
<1>3. ReportInv'
  <2>1. report'.int = internal /\ report'.ext = external /\ updates' = updates
    BY <1>1, <1>2
  <2>2. report' = Report(report'.int, report'.ext)
    BY <1>1, <2>1 DEF r
  <2> QED BY <1>1, <2>1, <2>2 DEF ReportInv
<1> HIDE DEF r
<1>4. UpdatesType' /\ BookInv' /\ SnapshotInv'
  BY <1>1 DEF IInv, UpdatesType, BookInv, SnapshotInv
<1>5. TallyInv'
  BY <1>1 DEF IInv, TallyInv, AlertsAccounted
<1> QED BY <1>3, <1>4, <1>5 DEF IInv

\* A report has at most one alert.
LEMMA AlertReportKeeps ==
  ASSUME IInv, AlertReport
  PROVE  IInv'
<1>1. /\ UNCHANGED <<updates, next, missed, internal, external, report>>
      /\ Raise(AlertFromReport(report)) /\ Reported
  BY DEF AlertReport, Accounts, Snapshots, Reported
<1>2. report.status \in {"matched", "mismatched"}
      /\ report = Report(report.int, report.ext)
  BY <1>1, ReportFacts DEF IInv, ReportInv
<1>3. AlertFromReport(report) \in Seq(AlertTypes)
      /\ Len(AlertFromReport(report)) <= 1
  <2>1. CASE report.status = "matched"
    BY <2>1 DEF AlertFromReport
  <2>2. CASE report.status = "mismatched"
    <3>1. PICK severity \in Severities :
            AlertFromReport(report) =
              <<[type |-> "reconciliation_mismatch", severity |-> severity]>>
      BY <1>2, <2>2, AlertIsCritical DEF Severities
    <3>2. [type |-> "reconciliation_mismatch", severity |-> severity] \in AlertTypes
      BY DEF AlertTypes, Types
    <3> QED BY <3>1, <3>2
  <2> QED BY <1>2, <2>1, <2>2
<1>4. TallyInv'
  BY <1>1, <1>3, RaiseKeeps DEF IInv
<1>5. UpdatesType' /\ BookInv' /\ SnapshotInv' /\ ReportInv'
  BY <1>1 DEF IInv, UpdatesType, BookInv, SnapshotInv, ReportInv, Reported
<1> QED BY <1>4, <1>5 DEF IInv

\* A control command builds at most one alert.
LEMMA ControlKeeps ==
  ASSUME IInv, NEW action \in Actions, Control(action)
  PROVE  IInv'
<1>1. /\ UNCHANGED <<updates, next, missed, internal, external, report>>
      /\ Raise(AlertFromControl(action))
  BY DEF Control, Accounts, Snapshots
<1>2. /\ AlertFromControl(action) \in Seq(AlertTypes)
      /\ Len(AlertFromControl(action)) <= 1
  <2>1. \A type \in Types, severity \in Severities :
          /\ <<[type |-> type, severity |-> severity]>> \in Seq(AlertTypes)
          /\ Len(<<[type |-> type, severity |-> severity]>>) = 1
    BY DEF AlertTypes
  <2>2. <<>> \in Seq(AlertTypes) /\ Len(<<>>) = 0
    OBVIOUS
  <2>3. CASE action = "freeze_entries"
    BY <2>1, <2>3 DEF AlertFromControl, Severities, Types
  <2>4. CASE action = "activate_kill_switch"
    BY <2>1, <2>4 DEF AlertFromControl, Severities, Types
  <2>5. CASE action = "flatten_workflow"
    BY <2>1, <2>5 DEF AlertFromControl, Severities, Types
  <2>6. CASE action \in {"unfreeze_entries", "request_flatten"}
    BY <2>2, <2>6 DEF AlertFromControl
  <2> QED BY <2>3, <2>4, <2>5, <2>6 DEF Actions
<1>3. TallyInv'
  BY <1>1, <1>2, RaiseKeeps DEF IInv
<1>4. UpdatesType' /\ BookInv' /\ SnapshotInv' /\ ReportInv'
  BY <1>1 DEF IInv, UpdatesType, BookInv, SnapshotInv, ReportInv, Reported
<1> QED BY <1>3, <1>4 DEF IInv

\* A batch gives each of its alerts a record, whatever the sink does.
LEMMA DeliverKeeps ==
  ASSUME IInv, Deliver
  PROVE  IInv'
<1>1. /\ UNCHANGED <<updates, next, missed, internal, external, report>>
      /\ queue' = <<>>
  BY DEF Deliver, Accounts, Snapshots
<1>2. PICK raises \in [1..Len(queue) -> BOOLEAN], takes \in [1..Len(queue) -> BOOLEAN] :
        LET records == DeliverAlerts(queue, raises)
        IN /\ \A k \in 1..Len(queue) : ~raises[k] => takes[k]
           /\ tally' = [tally EXCEPT
                !.recorded = @ + Len(records),
                !.delivered = @ + Cardinality(
                  {k \in 1..Len(records) : records[k].delivered}),
                !.taken = @ + Cardinality({k \in 1..Len(records) : takes[k]})]
  BY DEF Deliver
<1> DEFINE n == Len(queue)
           records == DeliverAlerts(queue, raises)
           D == {k \in 1..n : ~raises[k]}
           T == {k \in 1..n : takes[k]}
<1>3. n \in Nat /\ queue \in Seq(AlertTypes)
  BY DEF IInv, TallyInv, AlertTypes
<1>4. /\ Len(records) = n
      /\ {k \in 1..Len(records) : records[k].delivered} = D
      /\ {k \in 1..Len(records) : takes[k]} = T
  <2>1. records = [k \in 1..n |-> [alert |-> queue[k], delivered |-> ~raises[k]]]
    BY DEF DeliverAlerts
  <2>2. Len(records) = n
    BY <1>3, <2>1
  <2>3. \A k \in 1..n : records[k].delivered = ~raises[k]
    BY <2>1
  <2> HIDE DEF records, n
  <2> QED BY <2>2, <2>3
<1>5. D \subseteq T /\ T \subseteq 1..n
  BY <1>2
<1> HIDE DEF D, T, n, records
<1>6. IsFiniteSet(1..n) /\ Cardinality(1..n) = n
  <2>1. /\ IsFiniteSet(1..n)
        /\ Cardinality(1..n) = IF 1 > n THEN 0 ELSE n - 1 + 1
    BY <1>3, FS_Interval
  <2> QED BY <1>3, <2>1
<1>7. IsFiniteSet(T) /\ Cardinality(T) <= n
  <2>1. T \in SUBSET (1..n)
    BY <1>5
  <2>2. IsFiniteSet(T) /\ Cardinality(T) <= Cardinality(1..n)
    BY <1>6, <2>1, FS_Subset
  <2> QED BY <1>6, <2>2
<1>8. IsFiniteSet(D) /\ Cardinality(D) <= Cardinality(T)
  BY <1>5, <1>7, FS_Subset
<1>9. Cardinality(D) \in Nat /\ Cardinality(T) \in Nat
  BY <1>7, <1>8, FS_CardinalityType
<1>10. tally' = [tally EXCEPT !.recorded = @ + n, !.delivered = @ + Cardinality(D),
                             !.taken = @ + Cardinality(T)]
  BY <1>2, <1>4 DEF records
<1>11. /\ tally \in [{"built", "recorded", "delivered", "taken"} -> Nat]
       /\ tally.built <= MaxAlerts /\ AlertsAccounted
  BY DEF IInv, TallyInv
<1>12. /\ tally' \in [{"built", "recorded", "delivered", "taken"} -> Nat]
       /\ tally'.built = tally.built /\ tally'.recorded = tally.recorded + n
       /\ tally'.delivered = tally.delivered + Cardinality(D)
       /\ tally'.taken = tally.taken + Cardinality(T)
  <2>1. /\ tally.recorded + n \in Nat /\ tally.delivered + Cardinality(D) \in Nat
        /\ tally.taken + Cardinality(T) \in Nat
    BY <1>3, <1>9, <1>11
  <2> QED BY <1>10, <1>11, <2>1
<1>13. Len(queue') = 0 /\ queue' \in Seq(AlertTypes)
  BY <1>1
<1>14. AlertsAccounted'
  BY <1>3, <1>7, <1>8, <1>9, <1>11, <1>12, <1>13 DEF AlertsAccounted, n
<1>15. TallyInv'
  BY <1>11, <1>12, <1>13, <1>14 DEF TallyInv
<1>16. UpdatesType' /\ BookInv' /\ SnapshotInv' /\ ReportInv'
  BY <1>1 DEF IInv, UpdatesType, BookInv, SnapshotInv, ReportInv, Reported
<1> QED BY <1>15, <1>16 DEF IInv

\* The invariant is inductive.
LEMMA StepKeeps == IInv /\ [Next]_vars => IInv'
<1> SUFFICES ASSUME IInv, [Next]_vars PROVE IInv'
  OBVIOUS
<1>1. CASE \E e \in Entities, v \in Values : Update(e, v)
  BY <1>1, UpdateKeeps
<1>2. CASE Book \/ Miss
  BY <1>2, BookKeeps
<1>3. CASE TakeInternal \/ TakeExternal \/ OmitInternal \/ OmitExternal
  BY <1>3, TakeKeeps
<1>4. CASE Reconcile
  BY <1>4, ReconcileKeeps
<1>5. CASE \E action \in Actions : Control(action)
  BY <1>5, ControlKeeps
<1>6. CASE Deliver
  BY <1>6, DeliverKeeps
<1>7. CASE UNCHANGED vars
  <2>1. UNCHANGED <<updates, next, missed, internal, external, report, queue, tally>>
    BY <1>7 DEF vars
  <2>2. UpdatesType' /\ BookInv' /\ SnapshotInv' /\ ReportInv'
    BY <2>1 DEF IInv, UpdatesType, BookInv, SnapshotInv, ReportInv, Reported
  <2>3. TallyInv'
    BY <2>1 DEF IInv, TallyInv, AlertsAccounted
  <2> QED BY <2>2, <2>3 DEF IInv
<1>8. CASE AlertReport
  BY <1>8, AlertReportKeeps
<1> QED BY <1>1, <1>2, <1>3, <1>4, <1>5, <1>6, <1>7, <1>8 DEF Next

\* In every reachable state.
LEMMA Inductive == Spec => []IInv
<1>1. Init => IInv
  BY InitIInv
<1>2. IInv /\ [Next]_vars => IInv'
  BY StepKeeps
<1> QED BY <1>1, <1>2, PTL DEF Spec

-----------------------------------------------------------------------------
\* A difference beyond the tolerance is found: a value that is not zero is
\* listed.
LEMMA DivergenceIsOff ==
  ASSUME IInv, Reported, NEW e \in Entities, Diverges(e)
  PROVE  Off(e, report.int, report.ext)
<1>1. Sound(report.int, updates) /\ Sound(report.ext, updates)
  BY DEF IInv, ReportInv
<1>2. /\ report.int.value[e] \in Nat /\ report.ext.value[e] \in Nat
      /\ report.int.value[e] > 0 => e \in report.int.listed
      /\ report.ext.value[e] > 0 => e \in report.ext.listed
  <2>1. \A v \in Values : v \in Nat
    BY ReconciliationAssumption
  <2>2. report.int.value \in [Entities -> Values]
        /\ report.ext.value \in [Entities -> Values]
    BY <1>1 DEF Sound, SnapshotTypes
  <2> QED BY <1>1, <2>1, <2>2 DEF Sound
<1>3. Tolerance(e) \in Nat
  BY ReconciliationAssumption DEF Tolerance
<1>4. Distance(report.int.value[e], report.ext.value[e]) > Tolerance(e)
  BY DEF Diverges
<1>5. e \in report.int.listed \cup report.ext.listed
  <2>1. ~(report.int.value[e] = 0 /\ report.ext.value[e] = 0)
    BY <1>3, <1>4 DEF Distance
  <2> QED BY <1>2, <2>1
<1> QED BY <1>4, <1>5 DEF Off

\* A report that matches hides no divergence beyond the tolerance: an entity
\* that _compare_balances and _compare_positions never look at is zero on both
\* sides.
THEOREM NothingHidden == Spec => []MatchedHidesNothing
<1>1. ASSUME IInv PROVE MatchedHidesNothing
  <2> SUFFICES ASSUME Reported, report.status = "matched",
                      NEW e \in Entities, Diverges(e)
               PROVE  FALSE
    BY DEF MatchedHidesNothing
  <2>1. Off(e, report.int, report.ext)
    BY <1>1, DivergenceIsOff
  <2>2. report = Report(report.int, report.ext)
    BY <1>1 DEF IInv, ReportInv
  <2>3. /\ report.mismatches = {}
        /\ \E m \in report.mismatches : m.entity = e
    BY <2>1, <2>2, ReportFacts
  <2> QED BY <2>3
<1> QED BY <1>1, Inductive, PTL

\* When the internal snapshot is of the same updates as the exchange's, what
\* reconcile_account_snapshots finds is only a zero that one side lists.
THEOREM OnlyListedZeros == Spec => []SameUpdatesMatch
<1>1. ASSUME IInv PROVE SameUpdatesMatch
  <2> SUFFICES ASSUME Compared, report.int.seen = report.ext.seen,
                      NEW m \in report.mismatches
               PROVE  /\ report.int.value[m.entity] = 0
                      /\ m.entity \notin report.int.listed \cap report.ext.listed
    BY DEF SameUpdatesMatch
  <2>1. /\ Sound(report.int, updates) /\ Sound(report.ext, updates)
        /\ report = Report(report.int, report.ext)
    BY <1>1 DEF IInv, ReportInv, Compared
  <2>2. m.entity \in Entities /\ Off(m.entity, report.int, report.ext)
    <3>1. m \in [entity : Entities, severity : Severities, code : Codes]
      BY <2>1, ReportFacts
    <3>2. Off(m.entity, report.int, report.ext)
      BY <2>1, ReportFacts
    <3> QED BY <3>1, <3>2
  <2>3. report.int.value[m.entity] = report.ext.value[m.entity]
    BY <2>1, <2>2 DEF Compared, Sound
  <2>4. report.int.value[m.entity] \in Nat /\ Tolerance(m.entity) \in Nat
    <3>1. \A v \in Values : v \in Nat
      BY ReconciliationAssumption
    <3>2. report.int.value \in [Entities -> Values]
      BY <2>1 DEF Sound, SnapshotTypes
    <3>3. Tolerance(m.entity) \in Nat
      BY ReconciliationAssumption DEF Tolerance
    <3> QED BY <2>2, <3>1, <3>2, <3>3
  <2>5. m.entity \notin report.int.listed \cap report.ext.listed
    BY <2>2, <2>3, <2>4 DEF Off, Distance
  <2>6. ~(report.int.value[m.entity] > 0)
    BY <2>1, <2>2, <2>3, <2>5 DEF Sound
  <2> QED BY <2>4, <2>5, <2>6
<1> QED BY <1>1, Inductive, PTL

\* A mismatch comes of an update of its own entity that one of the snapshots
\* compared is of and the other is not, or of a listed zero.
THEOREM OwnMismatches == Spec => []MismatchIsOwn
<1>1. ASSUME IInv PROVE MismatchIsOwn
  <2> SUFFICES ASSUME Compared, NEW m \in report.mismatches,
                      m.entity \in report.int.listed \cap report.ext.listed
               PROVE  \E i \in (report.int.seen \cup report.ext.seen)
                                \ (report.int.seen \cap report.ext.seen) :
                        updates[i].entity = m.entity
    BY DEF MismatchIsOwn
  <2> DEFINE int == report.int
             ext == report.ext
  <2>1. Sound(int, updates) /\ Sound(ext, updates) /\ report = Report(int, ext)
    BY <1>1 DEF IInv, ReportInv, Compared
  <2>2. m.entity \in Entities /\ Off(m.entity, int, ext)
    <3>1. m \in [entity : Entities, severity : Severities, code : Codes]
      BY <2>1, ReportFacts
    <3>2. Off(m.entity, int, ext)
      BY <2>1, ReportFacts
    <3> QED BY <3>1, <3>2
  <2>3. Distance(int.value[m.entity], ext.value[m.entity]) > Tolerance(m.entity)
    BY <2>2 DEF Off
  <2>4. int.value[m.entity] # ext.value[m.entity]
    <3>1. \A v \in Values : v \in Nat
      BY ReconciliationAssumption
    <3>2. int.value \in [Entities -> Values]
      BY <2>1 DEF Sound, SnapshotTypes
    <3>3. int.value[m.entity] \in Nat /\ Tolerance(m.entity) \in Nat
      BY <2>2, <3>1, <3>2, ReconciliationAssumption DEF Tolerance
    <3> QED BY <2>3, <3>3 DEF Distance
  <2>5. ValueIn(updates, m.entity, int.seen) # ValueIn(updates, m.entity, ext.seen)
    BY <2>1, <2>2, <2>4 DEF Compared, Sound
  <2>6. Of(updates, m.entity, int.seen) # Of(updates, m.entity, ext.seen)
    BY <2>5, ValueIsOwn
  <2> QED BY <2>6 DEF Of
<1> QED BY <1>1, Inductive, PTL

\* Journal record, packet and alert of a report tell one story, although three
\* functions write them.
THEOREM ToldOnce == Spec => []OneStory
<1>1. ASSUME IInv PROVE OneStory
  <2> SUFFICES ASSUME Reported PROVE OneStory
    BY DEF OneStory
  <2> DEFINE off == \E p \in Positions : \E m \in report.mismatches : m.entity = p
             critical == \E m \in report.mismatches : m.severity = "critical"
  <2>1. report = Report(report.int, report.ext)
    BY <1>1 DEF IInv, ReportInv
  <2>2. /\ report.status \in {"matched", "mismatched"}
        /\ \A m \in report.mismatches :
             m.severity = "critical" <=> m.entity \in Positions
    BY <2>1, ReportFacts
  <2>3. off = critical
    BY <2>2
  <2>4. CASE report.status = "matched"
    BY <2>4 DEF OneStory, Artifacts, AlertFromReport
  <2>5. CASE report.status = "mismatched"
    <3>1. AlertFromReport(report) =
            <<[type |-> "reconciliation_mismatch",
               severity |-> IF critical THEN "critical" ELSE "warning"]>>
      BY <2>1, <2>5, AlertIsCritical
    <3>2. AlertFromReport(report) # <<>>
          /\ (AlertFromReport(report)[1].severity = "critical" <=> critical)
      BY <3>1
    <3>3. Artifacts(report) = {<<"journal", critical>>, <<"packet", critical>>}
      BY <2>5 DEF Artifacts
    <3> HIDE DEF off, critical
    <3>4. /\ Artifacts(report) = {<<"journal", off>>, <<"packet", off>>}
          /\ AlertFromReport(report) # <<>>
          /\ (AlertFromReport(report)[1].severity = "critical" <=> off)
      BY <2>3, <3>2, <3>3
    <3> QED BY <2>5, <3>4 DEF OneStory, off
  <2> QED BY <2>2, <2>4, <2>5
<1> QED BY <1>1, Inductive, PTL

\* An update of a position that the internal state missed, and that no later
\* one makes up for, ends in a critical alert with the next comparison.
THEOREM MissedIsCritical == Spec => []MissedPositionIsCritical
<1>1. ASSUME IInv PROVE MissedPositionIsCritical
  <2> SUFFICES ASSUME Compared, NEW p \in Positions,
                      NEW i \in report.ext.seen \cap missed,
                      updates[i].entity = p,
                      \A j \in report.ext.seen : j > i => updates[j].entity # p,
                      Distance(updates[i].value, report.int.value[p])
                        > PositionTolerance
               PROVE  AlertFromReport(report) =
                        <<[type |-> "reconciliation_mismatch",
                           severity |-> "critical"]>>
    BY DEF MissedPositionIsCritical
  <2> DEFINE int == report.int
             ext == report.ext
  <2>1. /\ Sound(int, updates) /\ Sound(ext, updates) /\ report = Report(int, ext)
        /\ updates \in Seq(UpdateTypes) /\ p \in Entities /\ Reported
    BY <1>1 DEF IInv, ReportInv, UpdatesType, Compared, Entities
  <2>2. /\ ext.seen \in SUBSET (1..Len(updates)) /\ Len(updates) \in Nat
        /\ ext.value[p] = ValueIn(updates, p, ext.seen)
    BY <2>1 DEF Sound, Compared
  <2>3. /\ i \in Of(updates, p, ext.seen)
        /\ \A j \in Of(updates, p, ext.seen) : j <= i
    <3>1. i \in Nat /\ \A j \in ext.seen : j \in Nat
      BY <2>2
    <3> QED BY <3>1 DEF Of
  <2>4. ext.value[p] = updates[i].value
    BY <2>1, <2>2, <2>3, ValueIsLast
  <2>5. Tolerance(p) = PositionTolerance
    BY ReconciliationAssumption DEF Tolerance
  <2>6. Diverges(p)
    <3>1. /\ int.value[p] \in Nat /\ ext.value[p] \in Nat
      <4>1. \A v \in Values : v \in Nat
        BY ReconciliationAssumption
      <4>2. int.value \in [Entities -> Values] /\ ext.value \in [Entities -> Values]
        BY <2>1 DEF Sound, SnapshotTypes
      <4> QED BY <2>1, <4>1, <4>2
    <3>2. Distance(int.value[p], ext.value[p]) = Distance(ext.value[p], int.value[p])
      BY <3>1 DEF Distance
    <3> QED BY <2>4, <2>5, <3>2 DEF Diverges
  <2>7. Off(p, int, ext)
    BY <1>1, <2>1, <2>6, DivergenceIsOff
  <2>8. PICK m \in report.mismatches : m.entity = p
    BY <2>1, <2>7, ReportFacts
  <2>9. m.severity = "critical" /\ report.status = "mismatched"
    BY <2>1, <2>8, ReportFacts
  <2> QED BY <2>1, <2>9, AlertIsCritical
<1> QED BY <1>1, Inductive, PTL

\* Each alert of a batch gets one delivery record whatever the sink does, and a
\* record says delivered only of an alert that the sink took.
THEOREM EachAlertOnce == Spec => []AlertsAccounted
<1>1. IInv => AlertsAccounted
  BY DEF IInv, TallyInv
<1> QED BY <1>1, Inductive, PTL

\* Every variable keeps its type.
THEOREM TypeCorrect == Spec => []TypeOK
<1>1. ASSUME IInv PROVE TypeOK
  <2>1. /\ updates \in Seq([entity : Entities, value : Values])
        /\ next \in 1..(Len(updates) + 1) /\ missed \subseteq 1..(next - 1)
    BY <1>1 DEF IInv, UpdatesType, UpdateTypes, BookInv
  <2>2. /\ internal \in SnapshotTypes \cup {NoSnapshot}
        /\ external \in SnapshotTypes \cup {NoSnapshot}
    BY <1>1 DEF IInv, SnapshotInv, Sound
  <2>3. report \in [status : {"matched", "mismatched"},
                    mismatches : SUBSET [entity : Entities, severity : Severities,
                                         code : Codes],
                    int : SnapshotTypes, ext : SnapshotTypes] \cup {NoReport}
    <3>1. CASE report = NoReport
      BY <3>1
    <3>2. CASE Reported
      <4>1. /\ report = Report(report.int, report.ext)
            /\ report.int \in SnapshotTypes /\ report.ext \in SnapshotTypes
        BY <1>1, <3>2 DEF IInv, ReportInv, Sound
      <4>2. /\ report = [status |-> report.status, mismatches |-> report.mismatches,
                         int |-> report.int, ext |-> report.ext]
            /\ report.status \in {"matched", "mismatched"}
            /\ \A m \in report.mismatches :
                 m \in [entity : Entities, severity : Severities, code : Codes]
        BY <4>1, ReportFacts
      <4>3. report.mismatches \in
              SUBSET [entity : Entities, severity : Severities, code : Codes]
        BY <4>2
      <4> QED BY <4>1, <4>2, <4>3
    <3> QED BY <3>1, <3>2 DEF Reported
  <2>4. \A k \in 1..Len(queue) : queue[k].severity \in Severities
    <3>1. \A k \in 1..Len(queue) : queue[k] \in AlertTypes
      BY <1>1 DEF IInv, TallyInv
    <3> QED BY <3>1 DEF AlertTypes
  <2>5. tally \in [{"built", "recorded", "delivered", "taken"} -> 0..MaxAlerts]
    <3>1. /\ tally \in [{"built", "recorded", "delivered", "taken"} -> Nat]
          /\ tally.built <= MaxAlerts /\ AlertsAccounted /\ Len(queue) \in Nat
      BY <1>1 DEF IInv, TallyInv
    <3>2. /\ tally.built \in Nat /\ tally.recorded \in Nat
          /\ tally.delivered \in Nat /\ tally.taken \in Nat /\ MaxAlerts \in Nat
      BY <3>1, ReconciliationAssumption
    <3>3. /\ tally.recorded <= MaxAlerts /\ tally.delivered <= MaxAlerts
          /\ tally.taken <= MaxAlerts
      BY <3>1, <3>2 DEF AlertsAccounted
    <3>4. \A k \in {"built", "recorded", "delivered", "taken"} :
            tally[k] \in 0..MaxAlerts
      BY <3>1, <3>2, <3>3
    <3> QED BY <3>1, <3>4
  <2> QED BY <2>1, <2>2, <2>3, <2>4, <2>5 DEF TypeOK
<1> QED BY <1>1, Inductive, PTL
=============================================================================

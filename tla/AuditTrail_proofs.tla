------------------------- MODULE AuditTrail_proofs -------------------------
(***************************************************************************)
(* The audit files for any number of processes, decisions and kills.  IInv *)
(* relates the files, the batches and the decisions; ReportInv, added to   *)
(* it at the end, balances what the daily report counts.                   *)
(***************************************************************************)
EXTENDS AuditTrail, Integers, FiniteSetTheorems, TLAPS

\* An artifact about a decision carries the decision's time, wherever it is.
Stamped(a, dec) ==
  a.subject # NoDecision =>
    /\ a.subject \in Decisions /\ a.event \in Decided \cup Evaluated
    /\ dec[a.subject].output # "undecided"
    /\ a.time = dec[a.subject].time

StampInv ==
  /\ \A p \in Positions : Stamped(log[p], decided)
  /\ \A p \in 1..Len(packets) : Stamped(packets[p], decided)
  /\ \A w \in Writers : Stamped(writer[w], decided)

\* Files hold what the builders of their event make.
Made(a, types) ==
  /\ a.event \in Events /\ a.source = ArtifactsOf(a.event).source
  /\ a.type \in types

RecordsOf(e) == ArtifactsOf(e).records

MadeInv ==
  /\ \A p \in Positions : Made(log[p], RecordsOf(log[p].event))
  /\ \A p \in 1..Len(packets) :
       Made(packets[p], ArtifactsOf(packets[p].event).packets)

\* The types of the records of batch n, stamped t, in a journal.
RecordedIn(l, n, t) ==
  {l[p].type : p \in {q \in 1..Len(l) : l[q].batch = n /\ l[q].time = t}}

\* A record of a batch that is not in the journal is still to be written.
Progress(b, l) ==
  b.pc # "idle" =>
    /\ b.no # 0
    /\ b.records \subseteq RecordsOf(b.event)
    /\ b.packets \subseteq ArtifactsOf(b.event).packets
    /\ b.pc \in {"text", "newline"} => b.type \in RecordsOf(b.event)
    /\ RecordsOf(b.event) \subseteq
         RecordedIn(l, b.no, b.time) \cup b.records
           \cup (IF b.pc = "text" THEN {b.type} ELSE {})
    /\ b.pc = "newline" => b.type \in RecordedIn(l, b.no, b.time)

ProgressInv == \A w \in Writers : Progress(writer[w], log)

\* The packet of a restart follows its record.
Covered(a, l) ==
  a.event = "restart" =>
    RecordsOf(a.event) \subseteq RecordedIn(l, a.batch, a.time)

CoveredInv == \A p \in 1..Len(packets) : Covered(packets[p], log)

\* A text without its newline is a long one.
OpenInv == \A p \in Positions \ ends : log[p].type \in Long

\* The line number is that of the line after the texts the writer counted.
Counted(r, l, at) ==
  /\ r.seen <= Len(l)
  /\ r.line = Cardinality({i \in at : i < r.seen})
                + (IF r.seen = 0 THEN 0 ELSE 1) + 1

CountInv ==
  /\ \A r \in returned : Counted(r, log, ends)
  /\ \A w \in Writers :
       writer[w].pc \in {"text", "newline"} => Counted(writer[w], log, ends)

IInv == /\ TypeOK /\ StampInv /\ MadeInv /\ ProgressInv /\ CoveredInv
        /\ OpenInv /\ CountInv

-----------------------------------------------------------------------------
\* What each event leaves: records and at most one packet of known types.
LEMMA ArtifactTypes ==
  ASSUME NEW e \in Events
  PROVE  /\ ArtifactsOf(e).records \subseteq RecordTypes
         /\ ArtifactsOf(e).records # {}
         /\ ArtifactsOf(e).packets \subseteq PacketTypes
         /\ \A t, u \in ArtifactsOf(e).packets : t = u
         /\ ArtifactsOf(e).source \in DOMAIN SourceRank
<1> DEFINE a == ArtifactsOf(e)
<1> USE DEF RecordTypes, PacketTypes, SourceRank
<1>1. CASE e = "restart"
  BY <1>1 DEF ArtifactsOf, RestartArtifacts, RestartPacket, Decided, Evaluated,
       Commanded
<1>2. CASE e \in Decided
  <2>1. a = DecisionArtifacts(e)
    BY <1>2 DEF ArtifactsOf, Decided, Evaluated, Commanded
  <2> QED BY <2>1 DEF DecisionArtifacts, ProposalPacket
<1>3. CASE e \in Evaluated
  <2>1. a = EvaluationArtifacts(e)
    BY <1>3 DEF ArtifactsOf, Decided, Evaluated, Commanded
  <2> QED BY <2>1 DEF EvaluationArtifacts, RiskDecisionPacket
<1>4. CASE e \in Commanded
  <2>1. a = CommandArtifacts(e)
    BY <1>4 DEF ArtifactsOf, Decided, Evaluated, Commanded
  <2>2. CASE e = "unfreeze"
    BY <2>1, <2>2 DEF CommandArtifacts
  <2>3. CASE e # "unfreeze"
    BY <2>1, <2>3 DEF CommandArtifacts, FreezePacket
  <2> QED BY <2>2, <2>3
<1>5. CASE e = "flatten"
  <2>1. a = FlattenArtifacts
    BY <1>5 DEF ArtifactsOf, Decided, Evaluated, Commanded
  <2> QED BY <2>1 DEF FlattenArtifacts, FlattenPacket
<1>6. CASE e = "mismatch"
  <2>1. a = MismatchArtifacts
    BY <1>6 DEF ArtifactsOf, Decided, Evaluated, Commanded
  <2> QED BY <2>1 DEF MismatchArtifacts, MismatchPacket
<1> QED BY <1>1, <1>2, <1>3, <1>4, <1>5, <1>6 DEF Events

\* What each event leaves, by its type.
LEMMA ArtifactTable ==
  ASSUME NEW e \in Events
  PROVE  /\ e = "restart" => /\ ArtifactsOf(e).records = {"restart"}
                             /\ ArtifactsOf(e).packets = {"restart"}
         /\ e \in Decided =>
              /\ ArtifactsOf(e).records = {"proposal_input", "proposal_output"}
              /\ ArtifactsOf(e).packets
                   \subseteq {"proposal_generated", "proposal_rejected"}
         /\ e = "verdict" => /\ ArtifactsOf(e).records = {"risk_decision"}
                             /\ ArtifactsOf(e).packets = {"risk_decision"}
         /\ e = "veto" => /\ ArtifactsOf(e).records = {"risk_decision"}
                          /\ ArtifactsOf(e).packets = {"risk_veto"}
         /\ e = "freeze" => /\ ArtifactsOf(e).records = {"freeze"}
                            /\ ArtifactsOf(e).packets = {"risk_freeze"}
         /\ e = "kill" => /\ ArtifactsOf(e).records = {"freeze"}
                          /\ ArtifactsOf(e).packets = {"kill_switch_activated"}
         /\ e = "unfreeze" => /\ ArtifactsOf(e).records = {"supervisor_action"}
                              /\ ArtifactsOf(e).packets = {}
         /\ e = "flatten_command" => /\ ArtifactsOf(e).records = {"freeze"}
                                     /\ ArtifactsOf(e).packets = {}
         /\ e = "flatten" => /\ ArtifactsOf(e).records = {"supervisor_action"}
                             /\ ArtifactsOf(e).packets = {"flatten_requested"}
         /\ e = "mismatch" => /\ ArtifactsOf(e).records = {"mismatch"}
                              /\ ArtifactsOf(e).packets = {"reconciliation_mismatch"}
<1> USE DEF Decided, Evaluated, Commanded
<1>1. CASE e \in {"restart", "flatten", "mismatch"}
  BY <1>1 DEF ArtifactsOf, RestartArtifacts, RestartPacket, FlattenArtifacts,
              FlattenPacket, MismatchArtifacts, MismatchPacket
<1>2. CASE e \in Decided
  <2>1. ArtifactsOf(e) = DecisionArtifacts(e)
    BY <1>2 DEF ArtifactsOf
  <2> QED BY <1>2, <2>1 DEF DecisionArtifacts, ProposalPacket
<1>3. CASE e \in Evaluated
  <2>1. ArtifactsOf(e) = EvaluationArtifacts(e)
    BY <1>3 DEF ArtifactsOf
  <2>2. CASE e = "verdict"
    BY <2>1, <2>2 DEF EvaluationArtifacts, RiskDecisionPacket
  <2>3. CASE e = "veto"
    BY <2>1, <2>3 DEF EvaluationArtifacts, RiskDecisionPacket
  <2> QED BY <1>3, <2>2, <2>3
<1>4. CASE e \in Commanded
  <2>1. ArtifactsOf(e) = CommandArtifacts(e)
    BY <1>4 DEF ArtifactsOf
  <2>2. CASE e = "freeze"
    BY <2>1, <2>2 DEF CommandArtifacts, FreezePacket
  <2>3. CASE e = "kill"
    BY <2>1, <2>3 DEF CommandArtifacts, FreezePacket
  <2>4. CASE e = "unfreeze"
    BY <2>1, <2>4 DEF CommandArtifacts, FreezePacket
  <2>5. CASE e = "flatten_command"
    BY <2>1, <2>5 DEF CommandArtifacts, FreezePacket
  <2> QED BY <1>4, <2>2, <2>3, <2>4, <2>5
<1> QED BY <1>1, <1>2, <1>3, <1>4 DEF Events

\* The records of a batch stay in a journal that grows.
LEMMA RecordedGrows ==
  ASSUME NEW S, NEW l \in Seq(S), NEW x, NEW n, NEW t
  PROVE  /\ RecordedIn(l, n, t) \subseteq RecordedIn(Append(l, x), n, t)
         /\ x.batch = n /\ x.time = t =>
              x.type \in RecordedIn(Append(l, x), n, t)
<1> DEFINE m == Append(l, x)
<1>1. /\ Len(m) = Len(l) + 1 /\ Len(l) \in Nat /\ m[Len(l) + 1] = x
      /\ \A p \in 1..Len(l) : m[p] = l[p]
  OBVIOUS
<1> HIDE DEF m
<1>2. ASSUME NEW u \in RecordedIn(l, n, t) PROVE u \in RecordedIn(m, n, t)
  <2>1. PICK p \in 1..Len(l) :
          l[p].batch = n /\ l[p].time = t /\ l[p].type = u
    BY DEF RecordedIn
  <2>2. p \in 1..Len(m) /\ m[p].batch = n /\ m[p].time = t /\ m[p].type = u
    BY <1>1, <2>1
  <2> QED BY <2>2 DEF RecordedIn
<1>3. ASSUME x.batch = n, x.time = t PROVE x.type \in RecordedIn(m, n, t)
  <2>1. Len(l) + 1 \in 1..Len(m) /\ m[Len(l) + 1].batch = n
        /\ m[Len(l) + 1].time = t /\ m[Len(l) + 1].type = x.type
    BY <1>1, <1>3
  <2> QED BY <2>1 DEF RecordedIn
<1>4. RecordedIn(l, n, t) \subseteq RecordedIn(m, n, t)
  BY <1>2
<1> QED BY <1>3, <1>4 DEF m

\* Lines that end later do not change a line number.
LEMMA CountedStays ==
  ASSUME NEW r, NEW l, NEW at, NEW n \in Nat, NEW m, r.seen \in Nat,
         Len(l) \in Nat, Counted(r, l, at), Len(l) <= n, Len(m) \in Nat,
         Len(l) <= Len(m), at \subseteq Nat
  PROVE  Counted(r, m, at \cup {n}) /\ Counted(r, m, at)
<1>1. {i \in at \cup {n} : i < r.seen} = {i \in at : i < r.seen}
  BY DEF Counted
<1>2. r.seen <= Len(m)
  BY DEF Counted
<1> QED BY <1>1, <1>2 DEF Counted

\* What _existing_line_count finds is one less than the number of the line
\* after the texts of the file.
LEMMA CountIsExact ==
  ASSUME TypeOK, NEW r, r.seen = Len(log), r.line = LineCount + 1
  PROVE  Counted(r, log, ends) /\ r.line \in Nat
<1> DEFINE n == Len(log)
           before == {i \in ends : i < n}
<1>1. n \in Nat /\ ends \subseteq 1..n
  BY DEF TypeOK, Positions
<1>2. IsFiniteSet(before) /\ IsFiniteSet(ends)
  <2>1. IsFiniteSet(1..n)
    BY <1>1, FS_Interval
  <2>2. before \in SUBSET (1..n) /\ ends \in SUBSET (1..n)
    BY <1>1
  <2> QED BY <2>1, <2>2, FS_Subset
<1>3. Cardinality(before) \in Nat /\ Cardinality(ends) \in Nat
  BY <1>2, FS_CardinalityType
<1>4. Cardinality(ends) = Cardinality(before) + (IF n \in ends THEN 1 ELSE 0)
  <2>1. CASE n \in ends
    <3>1. ends = before \cup {n} /\ n \notin before
      <4>1. \A i \in ends : i < n \/ i = n
        BY <1>1
      <4>2. ~(n < n)
        BY <1>1
      <4>3. ends = before \cup {n}
        BY <2>1, <4>1
      <4> QED BY <4>2, <4>3
    <3> HIDE DEF before
    <3>2. Cardinality(before \cup {n}) = Cardinality(before) + 1
      BY <1>2, <3>1, FS_AddElement
    <3> QED BY <2>1, <3>1, <3>2
  <2>2. CASE n \notin ends
    <3>1. ends = before
      <4>1. \A i \in ends : i < n
        BY <1>1, <2>2
      <4> QED BY <4>1
    <3> HIDE DEF before
    <3> QED BY <1>3, <2>2, <3>1
  <2> QED BY <2>1, <2>2
<1>5. 0 \notin ends
  BY <1>1
<1> HIDE DEF before
<1>6. LineCount = Cardinality(before) + (IF n = 0 THEN 0 ELSE 1)
  BY <1>1, <1>3, <1>4, <1>5 DEF LineCount
<1>7. r.line \in Nat
  BY <1>3, <1>6
<1> QED BY <1>1, <1>3, <1>6, <1>7 DEF Counted, before

-----------------------------------------------------------------------------
\* What is known of a process.
LEMMA StateFields ==
  ASSUME TypeOK, NEW w \in Writers
  PROVE  /\ writer[w] \in WriterStates
         /\ writer[w].pc \in {"idle", "next", "text", "newline"}
         /\ writer[w].no \in 0..MaxBatches /\ writer[w].event \in Events
         /\ writer[w].time \in 0..MaxTime
         /\ writer[w].subject \in Decisions \cup {NoDecision}
         /\ writer[w].records \subseteq RecordTypes
         /\ writer[w].packets \subseteq PacketTypes
         /\ writer[w].type \in RecordTypes
         /\ writer[w].line \in Nat /\ writer[w].seen \in Nat
         /\ writer[w].pos \in Nat
<1>1. writer[w] \in WriterStates
  BY DEF TypeOK
<1> QED BY <1>1 DEF WriterStates

\* A process that goes on has the rest of its batch to do, or is done with it.
LEMMA LeftOf ==
  ASSUME NEW b \in WriterStates
  PROVE  /\ Left(b) \in WriterStates
         /\ Finished(b) => /\ Left(b).pc = "idle" /\ Left(b).no = 0
                           /\ Left(b).subject = NoDecision
         /\ ~Finished(b) =>
              /\ Left(b).pc = "next" /\ Left(b).no = b.no
              /\ Left(b).event = b.event /\ Left(b).time = b.time
              /\ Left(b).subject = b.subject /\ Left(b).records = b.records
              /\ Left(b).packets = b.packets
<1> DEFINE c == [Idle EXCEPT !.pc = "next", !.no = b.no, !.event = b.event,
                             !.time = b.time, !.subject = b.subject,
                             !.records = b.records, !.packets = b.packets]
<1>1. Idle \in WriterStates /\ Idle.pc = "idle" /\ Idle.no = 0
      /\ Idle.subject = NoDecision
  BY AuditAssumption DEF Idle, WriterStates, Events, RecordTypes
<1>2. /\ b.no \in 0..MaxBatches /\ b.event \in Events /\ b.time \in 0..MaxTime
      /\ b.subject \in Decisions \cup {NoDecision}
      /\ b.records \in SUBSET RecordTypes /\ b.packets \in SUBSET PacketTypes
  BY DEF WriterStates
<1>3. /\ c.pc = "next" /\ c.no = b.no /\ c.event = b.event /\ c.time = b.time
      /\ c.subject = b.subject /\ c.records = b.records /\ c.packets = b.packets
  BY DEF Idle
<1>4. c \in WriterStates
  BY <1>1, <1>2 DEF WriterStates
<1> HIDE DEF c
<1>5. Left(b) = IF Finished(b) THEN Idle ELSE c
  BY DEF Left, c
<1> QED BY <1>1, <1>3, <1>4, <1>5

\* What it holds then is still to be written, and of the same decision.
LEMMA LeftProgress ==
  ASSUME NEW b \in WriterStates, NEW l, b.no # 0,
         b.records \subseteq RecordsOf(b.event),
         b.packets \subseteq ArtifactsOf(b.event).packets,
         RecordsOf(b.event) \subseteq RecordedIn(l, b.no, b.time) \cup b.records
  PROVE  /\ Progress(Left(b), l)
         /\ \A dec : Stamped(b, dec) => Stamped(Left(b), dec)
<1>1. CASE Finished(b)
  <2>1. Left(b).pc = "idle" /\ Left(b).subject = NoDecision
    BY <1>1, LeftOf
  <2> QED BY <2>1 DEF Progress, Stamped
<1>2. CASE ~Finished(b)
  <2> DEFINE c == Left(b)
  <2>1. /\ c.pc = "next" /\ c.no = b.no
        /\ c.event = b.event /\ c.time = b.time
        /\ c.subject = b.subject /\ c.records = b.records
        /\ c.packets = b.packets
    BY <1>2, LeftOf
  <2> HIDE DEF c
  <2>2. Progress(c, l)
    BY <2>1 DEF Progress
  <2>3. \A dec : Stamped(b, dec) => Stamped(c, dec)
    BY <2>1 DEF Stamped
  <2> QED BY <2>2, <2>3 DEF c
<1> QED BY <1>1, <1>2

\* An artifact of a batch has the type of the file it is written to.
LEMMA ArtifactTyped ==
  ASSUME TypeOK, NEW w \in Writers, writer[w].no # 0, NEW types,
         NEW type \in types
  PROVE  /\ Artifact(type, writer[w]) \in Artifacts(types)
         /\ Artifact(type, writer[w]).type = type
         /\ Artifact(type, writer[w]).batch = writer[w].no
         /\ Artifact(type, writer[w]).event = writer[w].event
         /\ Artifact(type, writer[w]).time = writer[w].time
         /\ Made(Artifact(type, writer[w]), types)
         /\ Stamped(writer[w], decided) =>
              Stamped(Artifact(type, writer[w]), decided)
<1> DEFINE b == writer[w]
           a == Artifact(type, b)
<1>1. /\ b.no \in 1..MaxBatches /\ b.event \in Events /\ b.time \in 0..MaxTime
      /\ b.subject \in Decisions \cup {NoDecision}
  BY StateFields, AuditAssumption
<1>2. ArtifactsOf(b.event).source \in DOMAIN SourceRank
  BY <1>1, ArtifactTypes
<1> HIDE DEF b
<1>3. a = [type |-> type, source |-> ArtifactsOf(b.event).source,
           time |-> b.time, batch |-> b.no, event |-> b.event,
           subject |-> b.subject]
  BY DEF Artifact
<1>4. /\ a.type = type /\ a.source = ArtifactsOf(b.event).source
      /\ a.time = b.time /\ a.batch = b.no /\ a.event = b.event
      /\ a.subject = b.subject
  BY <1>3
<1>5. a \in Artifacts(types)
  BY <1>1, <1>2, <1>3 DEF Artifacts
<1> HIDE DEF a
<1>6. Made(a, types)
  BY <1>1, <1>4 DEF Made
<1>7. Stamped(b, decided) => Stamped(a, decided)
  BY <1>4 DEF Stamped
<1> QED BY <1>4, <1>5, <1>6, <1>7 DEF a, b

\* A process about to write a record has one, of its event.
LEMMA HasRecord ==
  ASSUME IInv, NEW w \in Writers, writer[w].pc \in {"text", "newline"}
  PROVE  /\ writer[w].type \in RecordTypes
         /\ writer[w].type \in RecordsOf(writer[w].event)
         /\ Progress(writer[w], log) /\ writer[w].no # 0
         /\ writer[w].seen \in Nat /\ writer[w].event \in Events
         /\ Counted(writer[w], log, ends) /\ Stamped(writer[w], decided)
<1>1. /\ writer[w].type \in RecordTypes /\ writer[w].seen \in Nat
      /\ writer[w].event \in Events
  BY StateFields DEF IInv
<1>2. Progress(writer[w], log) /\ Stamped(writer[w], decided)
      /\ Counted(writer[w], log, ends)
  BY DEF IInv, ProgressInv, StampInv, CountInv
<1>3. writer[w].no # 0 /\ writer[w].type \in RecordsOf(writer[w].event)
  BY <1>2 DEF Progress
<1> QED BY <1>1, <1>2, <1>3

\* A process that holds what it should afterwards leaves the rest in place.
LEMMA Moved ==
  ASSUME IInv, NEW w \in Writers, NEW c \in WriterStates,
         writer' = [writer EXCEPT ![w] = c], decided' = decided,
         Stamped(c, decided), Progress(c, log'),
         c.pc \in {"text", "newline"} => Counted(c, log', ends'),
         \A no, at : RecordedIn(log, no, at) \subseteq RecordedIn(log', no, at),
         \A r : r.seen \in Nat /\ Counted(r, log, ends) =>
           Counted(r, log', ends'),
         \A r \in returned' :
           r \in returned \/ (r.seen \in Nat /\ Counted(r, log, ends))
  PROVE  /\ writer' \in [Writers -> WriterStates]
         /\ \A v \in Writers : Stamped(writer'[v], decided)
         /\ ProgressInv' /\ CountInv'
<1>1. /\ writer' \in [Writers -> WriterStates] /\ writer'[w] = c
      /\ \A v \in Writers \ {w} : writer'[v] = writer[v]
      /\ \A r \in returned : r.seen \in Nat
  BY DEF IInv, TypeOK
<1>2. \A v \in Writers : Stamped(writer'[v], decided)
  BY <1>1 DEF IInv, StampInv
<1>3. ProgressInv'
  <2>1. \A v \in Writers \ {w} : Progress(writer[v], log')
    <3>1. ASSUME NEW v \in Writers \ {w} PROVE Progress(writer[v], log')
      <4>1. Progress(writer[v], log)
        BY DEF IInv, ProgressInv
      <4>2. RecordedIn(log, writer[v].no, writer[v].time)
              \subseteq RecordedIn(log', writer[v].no, writer[v].time)
        OBVIOUS
      <4> QED BY <4>1, <4>2 DEF Progress
    <3> QED BY <3>1
  <2>2. ASSUME NEW v \in Writers PROVE Progress(writer'[v], log')
    BY <1>1, <2>1
  <2> QED BY <2>2 DEF ProgressInv
<1>4. CountInv'
  <2>1. \A r \in returned' : Counted(r, log', ends')
    BY <1>1 DEF IInv, CountInv
  <2>2. ASSUME NEW v \in Writers, writer'[v].pc \in {"text", "newline"}
        PROVE  Counted(writer'[v], log', ends')
    <3>1. CASE v = w
      BY <1>1, <2>2, <3>1
    <3>2. CASE v # w
      <4>1. writer'[v] = writer[v] /\ writer[v].seen \in Nat
        BY <1>1, <3>2, StateFields DEF IInv
      <4> QED BY <2>2, <4>1 DEF IInv, CountInv
    <3> QED BY <3>1, <3>2
  <2> QED BY <2>1, <2>2 DEF CountInv
<1> QED BY <1>1, <1>2, <1>3, <1>4

\* What the next record does to the journal, with its newline or without.
LEMMA Appended ==
  ASSUME IInv, NEW w \in Writers, writer[w].pc = "text",
         log' = Append(log, NextRecord(w)), packets' = packets,
         decided' = decided,
         \/ ends' = ends \cup {Len(log) + 1}
         \/ ends' = ends /\ writer[w].type \in Long
  PROVE  /\ log' \in Seq(Artifacts(RecordTypes)) /\ ends' \subseteq 1..Len(log')
         /\ \A p \in 1..Len(log') : Stamped(log'[p], decided)
         /\ MadeInv' /\ CoveredInv' /\ OpenInv'
         /\ \A no, at : RecordedIn(log, no, at) \subseteq RecordedIn(log', no, at)
         /\ writer[w].type \in RecordedIn(log', writer[w].no, writer[w].time)
         /\ \A r : r.seen \in Nat /\ Counted(r, log, ends) =>
              Counted(r, log', ends')
<1> DEFINE type == writer[w].type
           x == NextRecord(w)
           n == Len(log)
<1>1. /\ TypeOK /\ log \in Seq(Artifacts(RecordTypes)) /\ ends \subseteq 1..n
      /\ n \in Nat
  BY DEF IInv, TypeOK, Positions
<1>2. type \in RecordTypes /\ type \in RecordsOf(writer[w].event)
      /\ writer[w].no # 0 /\ Stamped(writer[w], decided)
  BY HasRecord
<1>3. x = Artifact(type, writer[w])
  BY DEF NextRecord
<1>4. /\ x \in Artifacts(RecordTypes) /\ x.type = type
      /\ x.batch = writer[w].no /\ x.event = writer[w].event
      /\ x.time = writer[w].time /\ Stamped(x, decided)
  BY <1>1, <1>2, <1>3, ArtifactTyped
<1>5. Made(x, RecordsOf(x.event))
  BY <1>1, <1>2, <1>3, <1>4, ArtifactTyped
<1> HIDE DEF x
<1>6. /\ log' = Append(log, x) /\ Len(log') = n + 1 /\ log'[n + 1] = x
      /\ \A p \in 1..n : log'[p] = log[p]
      /\ log' \in Seq(Artifacts(RecordTypes))
      /\ \A p \in 1..Len(log') : p \in 1..n \/ p = n + 1
  BY <1>1, <1>4 DEF x
<1>7. ends' \subseteq 1..Len(log')
  <2>1. /\ \A i \in ends : i \in 1..Len(log')
        /\ n + 1 \in 1..Len(log')
    BY <1>1, <1>6
  <2> QED BY <2>1
<1>8. \A p \in 1..Len(log') : Stamped(log'[p], decided)
  BY <1>4, <1>6 DEF IInv, StampInv, Positions
<1>9. MadeInv'
  BY <1>5, <1>6 DEF IInv, MadeInv, Positions
<1>10. /\ \A k, t : RecordedIn(log, k, t) \subseteq RecordedIn(log', k, t)
       /\ type \in RecordedIn(log', writer[w].no, writer[w].time)
  BY <1>1, <1>4, <1>6, RecordedGrows
<1>11. CoveredInv'
  BY <1>10 DEF IInv, CoveredInv, Covered
<1>12. OpenInv'
  <2>1. \A p \in 1..n : p \notin ends' => log'[p].type \in Long
    BY <1>6 DEF IInv, OpenInv, Positions
  <2>2. n + 1 \notin ends' => log'[n + 1].type \in Long
    BY <1>4, <1>6
  <2> QED BY <1>6, <2>1, <2>2 DEF OpenInv, Positions
<1>13. ASSUME NEW r, r.seen \in Nat, Counted(r, log, ends)
       PROVE  Counted(r, log', ends')
  <2>1. /\ n + 1 \in Nat /\ n <= n + 1 /\ ends \subseteq Nat
        /\ Len(log') \in Nat /\ n <= Len(log')
    BY <1>1, <1>6
  <2>2. Counted(r, log', ends \cup {n + 1}) /\ Counted(r, log', ends)
    BY <1>1, <1>13, <2>1, CountedStays
  <2> QED BY <2>2
<1> QED BY <1>6, <1>7, <1>8, <1>9, <1>10, <1>11, <1>12, <1>13

\* What it does to the process, once the record is in the journal.
LEMMA Returned ==
  ASSUME IInv, NEW w \in Writers, writer[w].pc \in {"text", "newline"},
         NEW pos \in Nat, Return(w, pos), decided' = decided,
         \A no, at : RecordedIn(log, no, at) \subseteq RecordedIn(log', no, at),
         writer[w].type \in RecordedIn(log', writer[w].no, writer[w].time),
         \A r : r.seen \in Nat /\ Counted(r, log, ends) =>
           Counted(r, log', ends')
  PROVE  /\ writer' \in [Writers -> WriterStates]
         /\ returned' \subseteq [pos : Nat, line : Nat, seen : Nat]
         /\ completed' \in [Events -> Nat]
         /\ \A v \in Writers : Stamped(writer'[v], decided)
         /\ ProgressInv' /\ CountInv'
<1> DEFINE b == writer[w]
           x == [pos |-> pos, line |-> b.line, seen |-> b.seen]
<1>1. /\ TypeOK /\ b \in WriterStates /\ b.line \in Nat
      /\ returned \subseteq [pos : Nat, line : Nat, seen : Nat]
      /\ completed \in [Events -> Nat]
  BY StateFields DEF IInv, TypeOK
<1>2. /\ b.event \in Events /\ Progress(b, log) /\ b.no # 0 /\ b.seen \in Nat
      /\ Counted(b, log, ends) /\ Stamped(b, decided)
  BY HasRecord
<1>3. writer' = [writer EXCEPT ![w] = Left(b)] /\ returned' = returned \cup {x}
  BY DEF Return, Proceed
<1>4. /\ Left(b) \in WriterStates /\ Left(b).pc \notin {"text", "newline"}
  BY <1>1, LeftOf
<1>5. Progress(Left(b), log') /\ Stamped(Left(b), decided)
  <2>1. /\ b.records \subseteq RecordsOf(b.event)
        /\ b.packets \subseteq ArtifactsOf(b.event).packets
        /\ RecordsOf(b.event) \subseteq
             RecordedIn(log, b.no, b.time) \cup b.records \cup {b.type}
    BY <1>2 DEF Progress
  <2>2. RecordsOf(b.event) \subseteq RecordedIn(log', b.no, b.time) \cup b.records
    BY <2>1
  <2> QED BY <1>1, <1>2, <2>1, <2>2, LeftProgress
<1>6. x.seen = b.seen /\ Counted(x, log, ends)
      /\ x \in [pos : Nat, line : Nat, seen : Nat]
  BY <1>1, <1>2 DEF Counted
<1> HIDE DEF x
<1>7. returned' \subseteq [pos : Nat, line : Nat, seen : Nat]
  BY <1>1, <1>3, <1>6
<1>8. \A r \in returned' :
        r \in returned \/ (r.seen \in Nat /\ Counted(r, log, ends))
  <2>1. x.seen \in Nat /\ Counted(x, log, ends)
    BY <1>2, <1>6
  <2>2. \A r \in returned' : r \in returned \/ r = x
    BY <1>3
  <2> QED BY <2>1, <2>2
<1>9. completed' \in [Events -> Nat]
  BY <1>1, <1>2 DEF Return, Proceed
<1> HIDE DEF b
<1> QED BY <1>3, <1>4, <1>5, <1>7, <1>8, <1>9, Moved

-----------------------------------------------------------------------------
\* The inductive invariant holds at the start.
LEMMA InitIInv == Init => IInv
<1> SUFFICES ASSUME Init PROVE IInv
  OBVIOUS
<1>1. Idle \in WriterStates
  BY AuditAssumption DEF Idle, WriterStates, Events, RecordTypes
<1>2. TypeOK
  BY <1>1, AuditAssumption DEF Init, TypeOK, Positions
<1>3. StampInv
  BY DEF Init, StampInv, Stamped, Positions, Idle
<1>4. MadeInv /\ CoveredInv /\ OpenInv
  BY DEF Init, MadeInv, CoveredInv, OpenInv, Positions
<1>5. ProgressInv
  BY DEF Init, ProgressInv, Progress, Idle
<1>6. CountInv
  BY DEF Init, CountInv, Idle
<1> QED BY <1>2, <1>3, <1>4, <1>5, <1>6 DEF IInv

\* A batch that is begun carries the time of its decision.
LEMMA BeginKeeps ==
  ASSUME IInv, NEW w \in Writers, NEW e \in Events, NEW time \in 0..MaxTime,
         NEW subject \in Decisions \cup {NoDecision},
         Begin(w, e, time, subject),
         decided' \in [Decisions -> [output : {"undecided", "proposal", "no_trade"},
                                    time : 0..MaxTime]],
         \A a : Stamped(a, decided) => Stamped(a, decided'),
         subject # NoDecision =>
           /\ e \in Decided \cup Evaluated
           /\ decided'[subject].output # "undecided"
           /\ time = decided'[subject].time
  PROVE  IInv'
<1> DEFINE records == ArtifactsOf(e).records
           b == [pc |-> "next", no |-> batches + 1, event |-> e, time |-> time,
                 subject |-> subject, records |-> records,
                 packets |-> ArtifactsOf(e).packets, type |-> "restart",
                 line |-> 0, seen |-> 0, pos |-> 0]
<1>1. /\ TypeOK /\ batches < MaxBatches /\ batches' = batches + 1
      /\ writer' = [writer EXCEPT ![w] = b]
      /\ UNCHANGED <<log, ends, packets, returned, completed, now, crashes>>
  BY DEF IInv, Begin
<1>2. records \subseteq RecordTypes /\ ArtifactsOf(e).packets \subseteq PacketTypes
  BY ArtifactTypes
<1>3. batches + 1 \in 0..MaxBatches /\ batches + 1 # 0
  BY <1>1, AuditAssumption DEF TypeOK
<1>4. /\ b.pc = "next" /\ b.no = batches + 1 /\ b.event = e /\ b.time = time
      /\ b.subject = subject /\ b.records = records
      /\ b.packets = ArtifactsOf(e).packets
  OBVIOUS
<1>5. b \in WriterStates
  BY <1>2, <1>3 DEF WriterStates, RecordTypes
<1> HIDE DEF b, records
<1>6. /\ writer' \in [Writers -> WriterStates] /\ writer'[w] = b
      /\ \A v \in Writers \ {w} : writer'[v] = writer[v]
  BY <1>1, <1>5 DEF TypeOK
<1>7. TypeOK'
  BY <1>1, <1>3, <1>6 DEF TypeOK, Positions
<1>8. StampInv'
  <2>1. Stamped(b, decided')
    BY <1>4 DEF Stamped
  <2>2. \A v \in Writers : Stamped(writer'[v], decided')
    BY <1>6, <2>1 DEF IInv, StampInv
  <2> QED BY <1>1, <2>2 DEF IInv, StampInv, Positions
<1>9. ProgressInv'
  <2>1. Progress(b, log)
    BY <1>2, <1>3, <1>4 DEF Progress, RecordsOf, records
  <2> QED BY <1>1, <1>6, <2>1 DEF IInv, ProgressInv
<1>10. CountInv'
  BY <1>1, <1>4, <1>6 DEF IInv, CountInv
<1>11. MadeInv' /\ CoveredInv' /\ OpenInv'
  BY <1>1 DEF IInv, MadeInv, CoveredInv, OpenInv, Positions
<1> QED BY <1>7, <1>8, <1>9, <1>10, <1>11 DEF IInv

\* A decision keeps its time, and its artifacts carry it.
LEMMA DecideKeeps ==
  ASSUME IInv, NEW w \in Writers, NEW d \in Decisions, NEW e \in Decided,
         Decide(w, d, e)
  PROVE  IInv'
<1> DEFINE known == decided[d].output # "undecided"
           time == IF known THEN decided[d].time ELSE now
<1>1. /\ known => decided[d].output = e
      /\ Begin(w, e, time, d)
      /\ decided' = [decided EXCEPT ![d] = [output |-> e, time |-> time]]
  BY DEF Decide
<1>2. /\ decided \in [Decisions -> [output : {"undecided", "proposal", "no_trade"},
                                    time : 0..MaxTime]]
      /\ now \in 0..MaxTime
  BY DEF IInv, TypeOK
<1>3. time \in 0..MaxTime
  BY <1>2
<1>4. e \in Events /\ d # NoDecision /\ e \in {"proposal", "no_trade"}
  BY AuditAssumption DEF Events, Decided
<1> HIDE DEF time
<1>5. /\ decided' \in [Decisions -> [output : {"undecided", "proposal", "no_trade"},
                                     time : 0..MaxTime]]
      /\ decided'[d] = [output |-> e, time |-> time]
      /\ \A x \in Decisions \ {d} : decided'[x] = decided[x]
  BY <1>1, <1>2, <1>3, <1>4
<1>6. ASSUME NEW a, Stamped(a, decided) PROVE Stamped(a, decided')
  <2>1. CASE a.subject = d
    <3>1. known /\ a.time = decided[d].time
      BY <1>4, <1>6, <2>1 DEF Stamped
    <3>2. time = decided[d].time
      BY <3>1 DEF time
    <3> QED BY <1>4, <1>5, <1>6, <2>1, <3>1, <3>2 DEF Stamped
  <2>2. CASE a.subject # d
    BY <1>5, <1>6, <2>2 DEF Stamped
  <2> QED BY <2>1, <2>2
<1>7. decided'[d].output # "undecided" /\ time = decided'[d].time
  BY <1>4, <1>5
<1> QED BY <1>1, <1>3, <1>4, <1>5, <1>6, <1>7, BeginKeeps

\* The other batches leave the decisions alone; a verdict carries the time of
\* its proposal.
LEMMA OtherBatchKeeps ==
  ASSUME IInv, NEW w \in Writers,
         \/ Bootstrap(w)
         \/ \E d \in Decisions, e \in Evaluated : Evaluate(w, d, e)
         \/ \E e \in Commands \cup {"mismatch"} : Control(w, e)
  PROVE  IInv'
<1>1. /\ decided \in [Decisions -> [output : {"undecided", "proposal", "no_trade"},
                                    time : 0..MaxTime]]
      /\ now \in 0..MaxTime
  BY DEF IInv, TypeOK
<1>2. CASE Bootstrap(w)
  <2>1. Begin(w, "restart", now, NoDecision) /\ decided' = decided
        /\ "restart" \in Events
    BY <1>2 DEF Bootstrap, Events
  <2> QED BY <1>1, <2>1, BeginKeeps
<1>3. CASE \E d \in Decisions, e \in Evaluated : Evaluate(w, d, e)
  <2>1. PICK d \in Decisions, e \in Evaluated : Evaluate(w, d, e)
    BY <1>3
  <2>2. /\ Begin(w, e, decided[d].time, d) /\ decided' = decided
        /\ decided[d].output # "undecided" /\ e \in Events
        /\ decided[d].time \in 0..MaxTime
    BY <1>1, <2>1 DEF Evaluate, Events
  <2> QED BY <1>1, <2>2, BeginKeeps
<1>4. CASE \E e \in Commands \cup {"mismatch"} : Control(w, e)
  <2>1. PICK e \in Commands \cup {"mismatch"} : Control(w, e)
    BY <1>4
  <2>2. Begin(w, e, now, NoDecision) /\ decided' = decided /\ e \in Events
    BY <2>1, AuditAssumption DEF Control, Events, Commanded
  <2> QED BY <1>1, <2>2, BeginKeeps
<1> QED BY <1>2, <1>3, <1>4

\* The lines are counted right.
LEMMA CountLinesKeeps ==
  ASSUME IInv, NEW w \in Writers, CountLines(w)
  PROVE  IInv'
<1> DEFINE b == writer[w]
<1>1. /\ TypeOK /\ b.pc = "next" /\ b \in WriterStates
      /\ writer \in [Writers -> WriterStates]
      /\ UNCHANGED <<log, ends, packets, returned, decided, completed, now,
                     batches, crashes>>
  BY DEF IInv, TypeOK, CountLines
<1>2. PICK t \in b.records :
        writer' = [writer EXCEPT ![w].pc = "text", ![w].type = t,
                                 ![w].records = @ \ {t},
                                 ![w].line = LineCount + 1, ![w].seen = Len(log)]
  BY DEF CountLines
<1> DEFINE c == [b EXCEPT !.pc = "text", !.type = t, !.records = @ \ {t},
                          !.line = LineCount + 1, !.seen = Len(log)]
<1>3. writer' = [writer EXCEPT ![w] = c]
  BY <1>1, <1>2
<1>4. /\ c.pc = "text" /\ c.line = LineCount + 1 /\ c.seen = Len(log)
      /\ c.no = b.no /\ c.event = b.event /\ c.time = b.time
      /\ c.subject = b.subject /\ c.records = b.records \ {t}
      /\ c.packets = b.packets /\ c.type = t
  BY <1>1 DEF WriterStates
<1>5. Counted(c, log, ends) /\ c.line \in Nat
  BY <1>1, <1>4, CountIsExact
<1>6. c \in WriterStates
  <2>1. LineCount + 1 \in Nat /\ Len(log) \in Nat /\ t \in RecordTypes
        /\ b.records \ {t} \in SUBSET RecordTypes
    BY <1>1, <1>4, <1>5, StateFields DEF TypeOK
  <2> HIDE DEF b
  <2> QED BY <1>1, <2>1 DEF WriterStates
<1>7. Progress(c, log) /\ Stamped(c, decided)
  <2>1. Progress(b, log) /\ Stamped(b, decided)
    BY DEF IInv, ProgressInv, StampInv
  <2> HIDE DEF b, c
  <2>2. /\ b.no # 0 /\ b.records \subseteq RecordsOf(b.event)
        /\ b.packets \subseteq ArtifactsOf(b.event).packets
        /\ RecordsOf(b.event) \subseteq RecordedIn(log, b.no, b.time) \cup b.records
    BY <1>1, <2>1 DEF Progress
  <2>3. Progress(c, log)
    BY <1>2, <1>4, <2>2 DEF Progress
  <2>4. Stamped(c, decided)
    BY <1>4, <2>1 DEF Stamped
  <2> QED BY <2>3, <2>4
<1> HIDE DEF c
<1>8. /\ writer' \in [Writers -> WriterStates]
      /\ \A v \in Writers : Stamped(writer'[v], decided)
      /\ ProgressInv' /\ CountInv'
  <2>1. /\ \A no, at : RecordedIn(log, no, at) \subseteq RecordedIn(log', no, at)
        /\ \A r : r.seen \in Nat /\ Counted(r, log, ends) =>
             Counted(r, log', ends')
        /\ \A r \in returned' :
             r \in returned \/ (r.seen \in Nat /\ Counted(r, log, ends))
        /\ decided' = decided
    BY <1>1
  <2>2. Progress(c, log') /\ Counted(c, log', ends')
    BY <1>1, <1>5, <1>7
  <2> QED BY <1>3, <1>6, <1>7, <2>1, <2>2, Moved
<1>9. TypeOK'
  BY <1>1, <1>8 DEF TypeOK, Positions
<1>10. StampInv'
  BY <1>1, <1>8 DEF IInv, StampInv, Positions
<1>11. MadeInv' /\ CoveredInv' /\ OpenInv'
  BY <1>1 DEF IInv, MadeInv, CoveredInv, OpenInv, Positions
<1> QED BY <1>8, <1>9, <1>10, <1>11 DEF IInv

\* A record written with its newline, or a long one without.
LEMMA WriteKeeps ==
  ASSUME IInv, NEW w \in Writers, WriteLine(w) \/ WriteText(w)
  PROVE  IInv'
<1>1. /\ TypeOK /\ writer[w].pc = "text" /\ log' = Append(log, NextRecord(w))
      /\ UNCHANGED <<packets, decided, now, batches, crashes>>
      /\ \/ ends' = ends \cup {Len(log) + 1}
         \/ ends' = ends /\ writer[w].type \in Long
  BY DEF IInv, WriteLine, WriteText
<1>2. /\ log' \in Seq(Artifacts(RecordTypes)) /\ ends' \subseteq 1..Len(log')
      /\ \A p \in 1..Len(log') : Stamped(log'[p], decided)
      /\ MadeInv' /\ CoveredInv' /\ OpenInv'
      /\ \A no, at : RecordedIn(log, no, at) \subseteq RecordedIn(log', no, at)
      /\ writer[w].type \in RecordedIn(log', writer[w].no, writer[w].time)
      /\ \A r : r.seen \in Nat /\ Counted(r, log, ends) =>
           Counted(r, log', ends')
  BY <1>1, Appended
<1>3. /\ writer' \in [Writers -> WriterStates]
      /\ returned' \subseteq [pos : Nat, line : Nat, seen : Nat]
      /\ completed' \in [Events -> Nat]
      /\ \A v \in Writers : Stamped(writer'[v], decided)
      /\ ProgressInv' /\ CountInv'
  <2>1. CASE WriteLine(w)
    <3>1. Return(w, Len(log) + 1) /\ Len(log) + 1 \in Nat
      BY <1>1, <2>1 DEF WriteLine, TypeOK
    <3>2. writer[w].pc \in {"text", "newline"} /\ decided' = decided
      BY <1>1
    <3> QED BY <1>2, <3>1, <3>2, Returned
  <2>2. CASE WriteText(w)
    <3> DEFINE b == writer[w]
               c == [b EXCEPT !.pc = "newline", !.pos = Len(log) + 1]
    <3>1. /\ b \in WriterStates /\ writer \in [Writers -> WriterStates]
          /\ returned' = returned /\ completed' = completed /\ b.pc = "text"
      BY <1>1, <2>2 DEF TypeOK, WriteText
    <3>2. writer' = [writer EXCEPT ![w] = c]
      BY <2>2, <3>1 DEF WriteText
    <3>3. /\ c.pc = "newline" /\ c.line = b.line /\ c.seen = b.seen
          /\ c.no = b.no /\ c.event = b.event /\ c.time = b.time
          /\ c.subject = b.subject /\ c.records = b.records
          /\ c.packets = b.packets /\ c.type = b.type
      BY <3>1 DEF WriterStates
    <3>4. c \in WriterStates
      <4>1. Len(log) + 1 \in Nat
        BY <1>1 DEF TypeOK
      <4> HIDE DEF b
      <4> QED BY <3>1, <4>1 DEF WriterStates
    <3>5. /\ Counted(b, log, ends) /\ Stamped(b, decided) /\ Progress(b, log)
          /\ b.seen \in Nat
      BY <1>1, HasRecord
    <3>6. b.type \in RecordedIn(log', b.no, b.time)
          /\ RecordedIn(log, b.no, b.time) \subseteq RecordedIn(log', b.no, b.time)
      BY <1>2
    <3> HIDE DEF b, c
    <3>7. Progress(c, log')
      <4>1. /\ b.no # 0 /\ b.records \subseteq RecordsOf(b.event)
            /\ b.packets \subseteq ArtifactsOf(b.event).packets
            /\ b.type \in RecordsOf(b.event)
            /\ RecordsOf(b.event) \subseteq
                 RecordedIn(log, b.no, b.time) \cup b.records \cup {b.type}
        BY <3>1, <3>5 DEF Progress
      <4> QED BY <3>3, <3>6, <4>1 DEF Progress
    <3>8. Stamped(c, decided) /\ Counted(c, log, ends)
      BY <3>3, <3>5 DEF Stamped, Counted
    <3>9. Counted(c, log', ends')
      BY <1>2, <3>3, <3>5, <3>8
    <3>10. returned' \subseteq [pos : Nat, line : Nat, seen : Nat]
           /\ completed' \in [Events -> Nat]
      BY <1>1, <3>1 DEF TypeOK
    <3>11. /\ \A no, at : RecordedIn(log, no, at) \subseteq RecordedIn(log', no, at)
           /\ \A r : r.seen \in Nat /\ Counted(r, log, ends) =>
                Counted(r, log', ends')
           /\ \A r \in returned' :
                r \in returned \/ (r.seen \in Nat /\ Counted(r, log, ends))
           /\ decided' = decided
      BY <1>1, <1>2, <3>1
    <3> QED BY <3>2, <3>4, <3>7, <3>8, <3>9, <3>10, <3>11, Moved
  <2> QED BY <2>1, <2>2
<1>4. TypeOK'
  BY <1>1, <1>2, <1>3 DEF TypeOK, Positions
<1>5. StampInv'
  BY <1>1, <1>2, <1>3 DEF IInv, StampInv, Positions
<1> QED BY <1>2, <1>3, <1>4, <1>5 DEF IInv

\* The newline of a long record ends the line on which the file ends by then.
LEMMA NewlineKeeps ==
  ASSUME IInv, NEW w \in Writers, WriteNewline(w)
  PROVE  IInv'
<1>1. /\ TypeOK /\ writer[w].pc = "newline" /\ ends' = ends \cup {Len(log)}
      /\ Return(w, writer[w].pos)
      /\ UNCHANGED <<log, packets, decided, now, batches, crashes>>
  BY DEF IInv, WriteNewline
<1>2. /\ writer[w].type \in RecordedIn(log, writer[w].no, writer[w].time)
      /\ writer[w].pos \in Nat
  BY <1>1, HasRecord, StateFields DEF Progress
<1>3. /\ Len(log) \in Nat /\ ends \subseteq 1..Len(log) /\ Len(log) # 0
  <2>1. PICK p \in 1..Len(log) : TRUE
    BY <1>2 DEF RecordedIn
  <2> QED BY <1>1, <2>1 DEF TypeOK, Positions
<1>4. ends' \subseteq 1..Len(log)
  <2>1. Len(log) \in 1..Len(log)
    BY <1>3
  <2> QED BY <1>1, <1>3, <2>1
<1>5. \A r : r.seen \in Nat /\ Counted(r, log, ends) => Counted(r, log', ends')
  <2> SUFFICES ASSUME NEW r, r.seen \in Nat, Counted(r, log, ends)
               PROVE  Counted(r, log', ends')
    OBVIOUS
  <2>1. ends \subseteq Nat /\ Len(log) <= Len(log)
    BY <1>3
  <2>2. Counted(r, log, ends \cup {Len(log)})
    BY <1>3, <2>1, CountedStays
  <2> QED BY <1>1, <2>2
<1>6. /\ writer' \in [Writers -> WriterStates]
      /\ returned' \subseteq [pos : Nat, line : Nat, seen : Nat]
      /\ completed' \in [Events -> Nat]
      /\ \A v \in Writers : Stamped(writer'[v], decided)
      /\ ProgressInv' /\ CountInv'
  <2>1. /\ writer[w].pc \in {"text", "newline"} /\ decided' = decided
        /\ \A no, at : RecordedIn(log, no, at) \subseteq RecordedIn(log', no, at)
        /\ writer[w].type \in RecordedIn(log', writer[w].no, writer[w].time)
    BY <1>1, <1>2
  <2> QED BY <1>1, <1>2, <1>5, <2>1, Returned
<1>7. TypeOK'
  BY <1>1, <1>4, <1>6 DEF TypeOK, Positions
<1>8. StampInv'
  BY <1>1, <1>6 DEF IInv, StampInv, Positions
<1>9. MadeInv' /\ CoveredInv' /\ OpenInv'
  BY <1>1 DEF IInv, MadeInv, CoveredInv, OpenInv, Positions
<1> QED BY <1>6, <1>7, <1>8, <1>9 DEF IInv

\* A process that is killed holds nothing.
LEMMA Released ==
  ASSUME IInv, NEW w \in Writers, writer' = [writer EXCEPT ![w] = Idle],
         UNCHANGED <<log, ends, returned, decided>>
  PROVE  /\ writer' \in [Writers -> WriterStates]
         /\ \A v \in Writers : Stamped(writer'[v], decided)
         /\ ProgressInv' /\ CountInv' /\ OpenInv'
<1>1. /\ Idle \in WriterStates /\ Idle.pc = "idle" /\ Idle.subject = NoDecision
  BY AuditAssumption DEF Idle, WriterStates, Events, RecordTypes
<1>2. Stamped(Idle, decided) /\ Progress(Idle, log')
  BY <1>1 DEF Stamped, Progress
<1>3. OpenInv'
  BY DEF IInv, OpenInv, Positions
<1>4. /\ \A no, at : RecordedIn(log, no, at) \subseteq RecordedIn(log', no, at)
      /\ \A r : r.seen \in Nat /\ Counted(r, log, ends) =>
           Counted(r, log', ends')
      /\ \A r \in returned' :
           r \in returned \/ (r.seen \in Nat /\ Counted(r, log, ends))
      /\ decided' = decided
  OBVIOUS
<1> QED BY <1>1, <1>2, <1>3, <1>4, Moved

\* A packet is appended, a restart's when its record is in the journal.
LEMMA PacketKeeps ==
  ASSUME IInv, NEW w \in Writers, WritePacket(w)
  PROVE  IInv'
<1> DEFINE b == writer[w]
           n == Len(packets)
<1>1. /\ TypeOK /\ b.pc = "next" /\ (b.event = "restart" => b.records = {})
      /\ b \in WriterStates /\ completed \in [Events -> Nat]
      /\ UNCHANGED <<log, ends, returned, decided, now, batches, crashes>>
  BY DEF IInv, TypeOK, WritePacket, PacketReady
<1>2. PICK t \in b.packets :
        /\ packets' = Append(packets, Artifact(t, b))
        /\ Proceed(w, [b EXCEPT !.packets = @ \ {t}])
  BY DEF WritePacket
<1>3. /\ b.event \in Events /\ b.no # 0 /\ Stamped(b, decided)
      /\ t \in PacketTypes /\ t \in ArtifactsOf(b.event).packets
      /\ b.records \subseteq RecordsOf(b.event)
      /\ b.packets \subseteq ArtifactsOf(b.event).packets
      /\ RecordsOf(b.event) \subseteq RecordedIn(log, b.no, b.time) \cup b.records
  <2>1. b.event \in Events /\ Progress(b, log) /\ Stamped(b, decided)
        /\ b.packets \subseteq PacketTypes
    BY <1>1, StateFields DEF IInv, ProgressInv, StampInv
  <2> HIDE DEF b
  <2> QED BY <1>1, <1>2, <2>1 DEF Progress
<1> DEFINE x == Artifact(t, b)
           d == [b EXCEPT !.packets = @ \ {t}]
<1>4. x.event = b.event /\ x.batch = b.no /\ x.time = b.time
      /\ Stamped(x, decided) /\ x \in Artifacts(PacketTypes)
  BY <1>1, <1>3, ArtifactTyped
<1>5. Made(x, ArtifactsOf(x.event).packets)
  BY <1>1, <1>3, <1>4, ArtifactTyped
<1>6. /\ d.no = b.no /\ d.event = b.event /\ d.time = b.time
      /\ d.subject = b.subject /\ d.records = b.records
      /\ d.packets = b.packets \ {t}
  BY <1>1 DEF WriterStates
<1>7. d \in WriterStates
  <2>1. b.packets \ {t} \in SUBSET PacketTypes
    BY <1>1, StateFields
  <2> HIDE DEF b
  <2> QED BY <1>1, <2>1 DEF WriterStates
<1>8. Proceed(w, d)
  BY <1>2
<1> HIDE DEF x, b, d
<1>9. /\ packets' \in Seq(Artifacts(PacketTypes)) /\ Len(packets') = n + 1
      /\ packets'[n + 1] = x /\ \A p \in 1..n : packets'[p] = packets[p]
      /\ \A p \in 1..Len(packets') : p \in 1..n \/ p = n + 1
  BY <1>1, <1>2, <1>4 DEF TypeOK, x
<1>10. /\ writer' \in [Writers -> WriterStates]
       /\ \A v \in Writers : Stamped(writer'[v], decided)
       /\ ProgressInv' /\ CountInv'
  <2>1. Left(d) \in WriterStates /\ Left(d).pc \notin {"text", "newline"}
    BY <1>7, LeftOf
  <2>2. /\ d.no # 0 /\ d.records \subseteq RecordsOf(d.event)
        /\ d.packets \subseteq ArtifactsOf(d.event).packets
        /\ RecordsOf(d.event) \subseteq RecordedIn(log, d.no, d.time) \cup d.records
    BY <1>3, <1>6
  <2>3. Progress(Left(d), log)
    BY <1>7, <2>2, LeftProgress
  <2>4. Stamped(d, decided)
    BY <1>3, <1>6 DEF Stamped
  <2>5. Stamped(Left(d), decided)
    BY <1>7, <2>2, <2>4, LeftProgress
  <2>6. writer' = [writer EXCEPT ![w] = Left(d)]
    BY <1>8 DEF Proceed
  <2>7. /\ \A no, at : RecordedIn(log, no, at) \subseteq RecordedIn(log', no, at)
        /\ \A r : r.seen \in Nat /\ Counted(r, log, ends) =>
             Counted(r, log', ends')
        /\ \A r \in returned' :
             r \in returned \/ (r.seen \in Nat /\ Counted(r, log, ends))
        /\ decided' = decided
    BY <1>1
  <2>8. Progress(Left(d), log')
    BY <1>1, <2>3
  <2> QED BY <2>1, <2>5, <2>6, <2>7, <2>8, Moved
<1>11. TypeOK'
  <2>1. completed' \in [Events -> Nat]
    BY <1>1, <1>3, <1>6, <1>8 DEF Proceed
  <2> QED BY <1>1, <1>9, <1>10, <2>1 DEF TypeOK, Positions
<1>12. StampInv'
  <2>1. \A p \in 1..Len(packets') : Stamped(packets'[p], decided)
    BY <1>4, <1>9 DEF IInv, StampInv
  <2> QED BY <1>1, <1>10, <2>1 DEF IInv, StampInv, Positions
<1>13. MadeInv'
  <2>1. \A p \in 1..Len(packets') :
          Made(packets'[p], ArtifactsOf(packets'[p].event).packets)
    BY <1>5, <1>9 DEF IInv, MadeInv
  <2> QED BY <1>1, <2>1 DEF IInv, MadeInv, Positions
<1>14. CoveredInv'
  <2>1. Covered(x, log)
    BY <1>1, <1>3, <1>4 DEF Covered
  <2>2. \A p \in 1..Len(packets') : Covered(packets'[p], log)
    BY <1>9, <2>1 DEF IInv, CoveredInv
  <2> QED BY <1>1, <2>2 DEF CoveredInv
<1>15. OpenInv'
  BY <1>1 DEF IInv, OpenInv, Positions
<1> QED BY <1>10, <1>11, <1>12, <1>13, <1>14, <1>15 DEF IInv

\* The process is killed; the files stay.
LEMMA CrashKeeps ==
  ASSUME IInv, NEW w \in Writers, Crash(w)
  PROVE  IInv'
<1>1. /\ TypeOK /\ writer' = [writer EXCEPT ![w] = Idle]
      /\ crashes' = crashes + 1 /\ crashes < MaxCrashes
      /\ UNCHANGED <<log, ends, packets, returned, decided, completed, now,
                     batches>>
  BY DEF IInv, Crash
<1>2. /\ writer' \in [Writers -> WriterStates]
      /\ \A v \in Writers : Stamped(writer'[v], decided)
      /\ ProgressInv' /\ CountInv' /\ OpenInv'
  BY <1>1, Released
<1>3. crashes' \in 0..MaxCrashes
  BY <1>1, AuditAssumption DEF TypeOK
<1>4. TypeOK'
  BY <1>1, <1>2, <1>3 DEF TypeOK, Positions
<1>5. StampInv'
  BY <1>1, <1>2 DEF IInv, StampInv, Positions
<1>6. MadeInv' /\ CoveredInv'
  BY <1>1 DEF IInv, MadeInv, CoveredInv, Positions
<1> QED BY <1>2, <1>4, <1>5, <1>6 DEF IInv

\* Time changes nothing else, and stuttering nothing at all.
LEMMA TickKeeps ==
  ASSUME IInv, Tick \/ UNCHANGED vars
  PROVE  IInv'
<1>1. /\ UNCHANGED <<log, ends, packets, writer, returned, decided, completed,
                     batches, crashes>>
      /\ now' \in 0..MaxTime
  <2>1. CASE Tick
    BY <2>1, AuditAssumption DEF Tick, IInv, TypeOK
  <2>2. CASE UNCHANGED vars
    BY <2>2 DEF vars, IInv, TypeOK
  <2> QED BY <2>1, <2>2
<1>2. TypeOK'
  BY <1>1 DEF IInv, TypeOK, Positions
<1>3. StampInv' /\ MadeInv'
  BY <1>1 DEF IInv, StampInv, MadeInv, Positions
<1>4. ProgressInv' /\ CoveredInv' /\ OpenInv' /\ CountInv'
  BY <1>1 DEF IInv, ProgressInv, CoveredInv, OpenInv, CountInv, Positions
<1> QED BY <1>2, <1>3, <1>4 DEF IInv

\* The invariant is inductive.
LEMMA StepKeeps == IInv /\ [Next]_vars => IInv'
<1> SUFFICES ASSUME IInv, [Next]_vars PROVE IInv'
  OBVIOUS
<1>1. CASE Tick \/ UNCHANGED vars
  BY <1>1, TickKeeps
<1>2. ASSUME NEW w \in Writers,
             \/ Bootstrap(w)
             \/ \E d \in Decisions :
                  \/ \E e \in Decided : Decide(w, d, e)
                  \/ \E e \in Evaluated : Evaluate(w, d, e)
             \/ \E e \in Commands \cup {"mismatch"} : Control(w, e)
             \/ CountLines(w) \/ WriteLine(w) \/ WriteText(w) \/ WriteNewline(w)
             \/ WritePacket(w) \/ Crash(w)
      PROVE  IInv'
  <2>1. CASE \E d \in Decisions, e \in Decided : Decide(w, d, e)
    BY <2>1, DecideKeeps
  <2>2. CASE \/ Bootstrap(w)
             \/ \E d \in Decisions, e \in Evaluated : Evaluate(w, d, e)
             \/ \E e \in Commands \cup {"mismatch"} : Control(w, e)
    BY <2>2, OtherBatchKeeps
  <2>3. CASE CountLines(w)
    BY <2>3, CountLinesKeeps
  <2>4. CASE WriteLine(w) \/ WriteText(w)
    BY <2>4, WriteKeeps
  <2>5. CASE WriteNewline(w)
    BY <2>5, NewlineKeeps
  <2>6. CASE WritePacket(w)
    BY <2>6, PacketKeeps
  <2>7. CASE Crash(w)
    BY <2>7, CrashKeeps
  <2> QED BY <1>2, <2>1, <2>2, <2>3, <2>4, <2>5, <2>6, <2>7
<1> QED BY <1>1, <1>2 DEF Next

\* In every reachable state.
LEMMA Inductive == Spec => []IInv
<1>1. Init => IInv
  BY InitIInv
<1>2. IInv /\ [Next]_vars => IInv'
  BY StepKeeps
<1> QED BY <1>1, <1>2, PTL DEF Spec

-----------------------------------------------------------------------------
\* Every variable keeps its type.
THEOREM TypeCorrect == Spec => []TypeOK
<1>1. IInv => TypeOK
  BY DEF IInv
<1> QED BY <1>1, Inductive, PTL

\* A replay that shows the packet of a restart shows its record before it, for
\* any number of processes that may be killed between any two writes.
THEOREM RestartRecordsComeFirst == Spec => []RestartsAreJournaled
<1>1. ASSUME IInv PROVE RestartsAreJournaled
  <2> SUFFICES ASSUME NEW b \in PacketItems, b.of.type = "restart"
               PROVE  \E a \in JournalItems :
                        /\ a.of.type = "restart" /\ a.of.batch = b.of.batch
                        /\ a.of.time = b.of.time /\ ShownBefore(a, b)
    BY DEF RestartsAreJournaled
  <2>1. PICK i \in 1..Len(packets) :
          b = [kind |-> "event_packet", of |-> packets[i]]
    BY DEF PacketItems
  <2>2. b.kind = "event_packet" /\ b.of = packets[i]
    BY <2>1
  <2>3. /\ packets[i].event \in Events
        /\ packets[i].type \in ArtifactsOf(packets[i].event).packets
        /\ Covered(packets[i], log)
    BY <1>1 DEF IInv, MadeInv, Made, CoveredInv
  <2>4. packets[i].event = "restart" /\ ArtifactsOf("restart").records = {"restart"}
    <3>1. "restart" \in Events
      BY DEF Events
    <3>2. \A e \in Events : "restart" \in ArtifactsOf(e).packets => e = "restart"
      BY ArtifactTable DEF Events, Evaluated, Commanded
    <3> QED BY <2>2, <2>3, <3>1, <3>2, ArtifactTable
  <2>5. PICK p \in 1..Len(log) :
          /\ log[p].type = "restart" /\ log[p].batch = packets[i].batch
          /\ log[p].time = packets[i].time
    <3>1. "restart" \in RecordedIn(log, packets[i].batch, packets[i].time)
      BY <2>3, <2>4 DEF Covered, RecordsOf
    <3> QED BY <3>1 DEF RecordedIn
  <2> DEFINE a == [kind |-> "journal", of |-> log[p]]
  <2>6. a \in JournalItems
    BY DEF JournalItems, Positions
  <2>7. a.kind = "journal" /\ a.of = log[p]
    OBVIOUS
  <2> HIDE DEF a
  <2>8. ShownBefore(a, b)
    <3>1. SortKey(a)[1] = SortKey(b)[1] /\ SortKey(a)[2] = 0 /\ SortKey(b)[2] = 1
      BY <2>2, <2>5, <2>7 DEF SortKey
    <3>2. SortKey(a)[2] < SortKey(b)[2]
      BY <3>1
    <3>3. \A j \in 1..2-1 : SortKey(a)[j] = SortKey(b)[j]
      BY <3>1
    <3> QED BY <3>2, <3>3 DEF ShownBefore
  <2> QED BY <2>2, <2>5, <2>6, <2>7, <2>8
<1> QED BY <1>1, Inductive, PTL

\* Only a record longer than the write buffer can be glued to the next one.
THEOREM ShortNeverGlued == Spec => []GluedToLongOnly
<1>1. ASSUME IInv PROVE GluedToLongOnly
  <2> SUFFICES ASSUME NEW p \in Glued PROVE log[p - 1].type \in Long
    BY DEF GluedToLongOnly
  <2>1. p \in 1..Len(log) /\ p > 1 /\ p - 1 \notin ends /\ Len(log) \in Nat
    BY <1>1 DEF Glued, Positions, IInv, TypeOK
  <2>2. p - 1 \in Positions \ ends
    BY <2>1 DEF Positions
  <2> QED BY <1>1, <2>2 DEF IInv, OpenInv
<1> QED BY <1>1, Inductive, PTL

\* The line number append returns is the record's, if the file ended in a
\* newline and nobody else wrote in between.
THEOREM LineNumbers == Spec => []LineNumbersExact
<1>1. ASSUME IInv PROVE LineNumbersExact
  <2> SUFFICES ASSUME NEW r \in returned, r.pos = r.seen + 1,
                      r.seen \in {0} \cup ends
               PROVE  r.line = LineOf(r.pos)
    BY DEF LineNumbersExact
  <2> DEFINE before == {i \in ends : i < r.seen}
  <2>1. /\ r.seen \in Nat /\ ends \subseteq 1..Len(log) /\ Len(log) \in Nat
        /\ r.line = Cardinality(before) + (IF r.seen = 0 THEN 0 ELSE 1) + 1
    BY <1>1 DEF IInv, TypeOK, CountInv, Counted, Positions
  <2>2. IsFiniteSet(before)
    <3>1. IsFiniteSet(1..Len(log))
      BY <2>1, FS_Interval
    <3>2. before \in SUBSET (1..Len(log))
      BY <2>1
    <3> QED BY <3>1, <3>2, FS_Subset
  <2>3. Cardinality(before) \in Nat
    BY <2>2, FS_CardinalityType
  <2>4. Cardinality({i \in ends : i < r.pos})
          = Cardinality(before) + (IF r.seen = 0 THEN 0 ELSE 1)
    <3>1. CASE r.seen = 0
      <4>1. \A i \in ends : i < r.pos <=> i < r.seen
        BY <2>1, <3>1
      <4>2. {i \in ends : i < r.pos} = before
        BY <4>1
      <4> HIDE DEF before
      <4> QED BY <2>3, <3>1, <4>2
    <3>2. CASE r.seen # 0
      <4>1. \A i \in ends : i < r.pos <=> (i < r.seen \/ i = r.seen)
        BY <2>1, <3>2
      <4>2. r.seen \in ends /\ r.seen \notin before
        BY <2>1, <3>2
      <4>3. {i \in ends : i < r.pos} = before \cup {r.seen}
        BY <4>1, <4>2
      <4> HIDE DEF before
      <4>4. Cardinality(before \cup {r.seen}) = Cardinality(before) + 1
        BY <2>2, <4>2, FS_AddElement
      <4> QED BY <3>2, <4>3, <4>4
    <3> QED BY <3>1, <3>2
  <2> HIDE DEF before
  <2> QED BY <2>1, <2>3, <2>4 DEF LineOf
<1> QED BY <1>1, Inductive, PTL

\* What an item of a timeline is of.
LEMMA ItemOf ==
  ASSUME IInv, NEW lo, NEW hi, NEW i \in Timeline(lo, hi)
  PROVE  /\ Stamped(i.of, decided) /\ i.of.time \in lo..hi
         /\ \/ /\ i.kind = "journal" /\ i.of.type \in RecordsOf(i.of.event)
               /\ Made(i.of, RecordsOf(i.of.event))
            \/ /\ i.kind = "event_packet"
               /\ Made(i.of, ArtifactsOf(i.of.event).packets)
<1>1. i.of.time \in lo..hi /\ i \in JournalItems \cup PacketItems
  BY DEF Timeline, Matches
<1>2. CASE i \in JournalItems
  <2>1. PICK p \in Positions : i = [kind |-> "journal", of |-> log[p]]
    BY <1>2 DEF JournalItems
  <2>2. i.kind = "journal" /\ i.of = log[p]
    BY <2>1
  <2> QED BY <1>1, <2>2 DEF IInv, StampInv, MadeInv, Made
<1>3. CASE i \in PacketItems
  <2>1. PICK p \in 1..Len(packets) : i = [kind |-> "event_packet", of |-> packets[p]]
    BY <1>3 DEF PacketItems
  <2>2. i.kind = "event_packet" /\ i.of = packets[p]
    BY <2>1
  <2> QED BY <1>1, <2>2 DEF IInv, StampInv, MadeInv
<1> QED BY <1>1, <1>2, <1>3

\* A replay of a range of time shows all of a decision or nothing: every
\* artifact about it carries its time.
THEOREM RangesShowAll == Spec => []RangesKeepDecisions
<1>1. ASSUME IInv PROVE RangesKeepDecisions
  <2> SUFFICES ASSUME NEW lo \in 0..MaxTime, NEW hi \in 0..MaxTime,
                      NEW a \in Timeline(lo, hi),
                      NEW b \in Timeline(0, MaxTime), b \notin Timeline(lo, hi),
                      a.of.subject = b.of.subject, a.of.subject # NoDecision
               PROVE  FALSE
    BY DEF RangesKeepDecisions
  <2>1. a.of.time = b.of.time /\ a.of.time \in lo..hi
    BY <1>1, ItemOf DEF Stamped
  <2> QED BY <2>1 DEF Timeline, Matches
<1> QED BY <1>1, Inductive, PTL

\* Where an artifact of a decision stands in the order of a replay, after its
\* time.
LEMMA StageOf ==
  ASSUME IInv, NEW i \in Timeline(0, MaxTime), i.of.subject # NoDecision
  PROVE  LET x == SortKey(i) IN
         /\ x[1] = i.of.time /\ i.of.time \in Nat
         /\ \/ Stage(i) = 1 /\ x[2] = 0 /\ x[3] = 1 /\ x[4] = 6
            \/ Stage(i) = 2 /\ x[2] = 0 /\ x[3] = 1 /\ x[4] = 7
            \/ Stage(i) = 3 /\ x[2] = 0 /\ x[3] = 3 /\ x[4] = 11
            \/ Stage(i) = 4 /\ x[2] = 1 /\ x[3] = 1 /\ x[4] \in {5, 8}
            \/ Stage(i) = 5 /\ x[2] = 1 /\ x[3] = 3 /\ x[4] \in {11, 13}
<1> DEFINE e == i.of.event
           x == SortKey(i)
<1>1. /\ i.of.time \in 0..MaxTime /\ e \in Decided \cup Evaluated
      /\ i.of.source = ArtifactsOf(e).source
      /\ \/ i.kind = "journal" /\ i.of.type \in RecordsOf(e)
         \/ i.kind = "event_packet" /\ i.of.type \in ArtifactsOf(e).packets
  BY ItemOf DEF Stamped, Made
<1>2. i.of.time \in Nat
  BY <1>1, AuditAssumption
<1>3. /\ x[1] = i.of.time /\ x[2] = IF i.kind = "journal" THEN 0 ELSE 1
      /\ x[3] = SourceRank[i.of.source] /\ x[4] = TypeRank[i.of.type]
  BY DEF SortKey
<1> HIDE DEF x
<1>4. /\ SourceRank["decision_engine"] = 1 /\ SourceRank["supervisor"] = 3
      /\ TypeRank["proposal_input"] = 6 /\ TypeRank["proposal_output"] = 7
      /\ TypeRank["risk_decision"] = 11 /\ TypeRank["risk_veto"] = 13
      /\ TypeRank["proposal_generated"] = 5 /\ TypeRank["proposal_rejected"] = 8
  BY DEF SourceRank, TypeRank
<1>5. CASE e \in Decided
  <2>1. ArtifactsOf(e) = DecisionArtifacts(e) /\ e \notin Evaluated
    BY <1>5 DEF ArtifactsOf, Decided, Evaluated, Commanded
  <2>2. /\ ArtifactsOf(e).source = "decision_engine"
        /\ ArtifactsOf(e).records = {"proposal_input", "proposal_output"}
        /\ ArtifactsOf(e).packets \subseteq {"proposal_rejected", "proposal_generated"}
    BY <2>1 DEF DecisionArtifacts, ProposalPacket
  <2>3. RecordsOf(e) \subseteq {"proposal_input", "proposal_output"}
    BY <2>2 DEF RecordsOf
  <2>4. CASE i.kind = "journal"
    <3>1. i.of.type \in {"proposal_input", "proposal_output"}
      BY <1>1, <2>3, <2>4
    <3>2. CASE i.of.type = "proposal_input"
      <4>1. Stage(i) = 1
        BY <2>1, <2>4, <3>2 DEF Stage
      <4> QED BY <1>1, <1>2, <1>3, <1>4, <2>2, <2>4, <3>2, <4>1 DEF x
    <3>3. CASE i.of.type = "proposal_output"
      <4>1. Stage(i) = 2
        BY <2>1, <2>4, <3>3 DEF Stage
      <4> QED BY <1>1, <1>2, <1>3, <1>4, <2>2, <2>4, <3>3, <4>1 DEF x
    <3> QED BY <3>1, <3>2, <3>3
  <2>5. CASE i.kind = "event_packet"
    <3>1. i.of.type \in {"proposal_rejected", "proposal_generated"}
      BY <1>1, <2>2, <2>5
    <3>2. Stage(i) = 4
      BY <1>5, <2>1, <2>5, <3>1 DEF Stage
    <3>3. x[4] \in {5, 8} /\ x[2] = 1 /\ x[3] = 1
      BY <1>1, <1>3, <1>4, <2>2, <2>5, <3>1
    <3> QED BY <1>2, <1>3, <3>2, <3>3 DEF x
  <2> QED BY <1>1, <2>4, <2>5
<1>6. CASE e \in Evaluated
  <2>1. ArtifactsOf(e) = EvaluationArtifacts(e) /\ e \notin Decided
    BY <1>6 DEF ArtifactsOf, Decided, Evaluated, Commanded
  <2>2. /\ ArtifactsOf(e).source = "supervisor"
        /\ ArtifactsOf(e).records = {"risk_decision"}
        /\ ArtifactsOf(e).packets \subseteq {"risk_decision", "risk_veto"}
    BY <2>1 DEF EvaluationArtifacts, RiskDecisionPacket
  <2>3. RecordsOf(e) \subseteq {"risk_decision"}
    BY <2>2 DEF RecordsOf
  <2>4. CASE i.kind = "journal"
    <3>1. i.of.type = "risk_decision"
      BY <1>1, <2>3, <2>4
    <3>2. Stage(i) = 3
      BY <1>6, <2>4, <3>1 DEF Stage
    <3> QED BY <1>1, <1>2, <1>3, <1>4, <2>2, <2>4, <3>1, <3>2 DEF x
  <2>5. CASE i.kind = "event_packet"
    <3>1. i.of.type \in {"risk_decision", "risk_veto"}
      BY <1>1, <2>2, <2>5
    <3>2. Stage(i) = 5
      BY <1>6, <2>1, <2>5, <3>1 DEF Stage
    <3>3. x[4] \in {11, 13} /\ x[2] = 1 /\ x[3] = 3
      BY <1>1, <1>3, <1>4, <2>2, <2>5, <3>1
    <3> QED BY <1>2, <1>3, <3>2, <3>3 DEF x
  <2> QED BY <1>1, <2>4, <2>5
<1> QED BY <1>1, <1>5, <1>6

\* A replay shows a decision's input, output and verdict in that order, and the
\* packets in theirs, whichever process reached the files first.
THEOREM ChainsOrdered == Spec => []ChainsInOrder
<1>1. ASSUME IInv PROVE ChainsInOrder
  <2> SUFFICES ASSUME NEW a \in Timeline(0, MaxTime), NEW b \in Timeline(0, MaxTime),
                      a.of.subject = b.of.subject, a.of.subject # NoDecision,
                      Stage(a) < Stage(b)
               PROVE  ShownBefore(a, b)
    BY DEF ChainsInOrder
  <2> DEFINE x == SortKey(a)
             y == SortKey(b)
  <2>1. a.of.time = b.of.time
    BY <1>1, ItemOf DEF Stamped
  <2>2. /\ x[1] = a.of.time /\ y[1] = b.of.time /\ a.of.time \in Nat
        /\ \/ Stage(a) = 1 /\ x[2] = 0 /\ x[3] = 1 /\ x[4] = 6
           \/ Stage(a) = 2 /\ x[2] = 0 /\ x[3] = 1 /\ x[4] = 7
           \/ Stage(a) = 3 /\ x[2] = 0 /\ x[3] = 3 /\ x[4] = 11
           \/ Stage(a) = 4 /\ x[2] = 1 /\ x[3] = 1 /\ x[4] \in {5, 8}
           \/ Stage(a) = 5 /\ x[2] = 1 /\ x[3] = 3 /\ x[4] \in {11, 13}
        /\ \/ Stage(b) = 1 /\ y[2] = 0 /\ y[3] = 1 /\ y[4] = 6
           \/ Stage(b) = 2 /\ y[2] = 0 /\ y[3] = 1 /\ y[4] = 7
           \/ Stage(b) = 3 /\ y[2] = 0 /\ y[3] = 3 /\ y[4] = 11
           \/ Stage(b) = 4 /\ y[2] = 1 /\ y[3] = 1 /\ y[4] \in {5, 8}
           \/ Stage(b) = 5 /\ y[2] = 1 /\ y[3] = 3 /\ y[4] \in {11, 13}
    BY <1>1, StageOf
  <2> HIDE DEF x, y
  <2>3. /\ x[1] = y[1]
        /\ \/ x[2] < y[2]
           \/ x[2] = y[2] /\ x[3] < y[3]
           \/ x[2] = y[2] /\ x[3] = y[3] /\ x[4] < y[4]
    BY <2>1, <2>2
  <2>4. \E i \in 1..4 : x[i] < y[i] /\ \A j \in 1..i-1 : x[j] = y[j]
    <3>1. CASE x[2] < y[2]
      <4>1. \A j \in 1..2-1 : x[j] = y[j]
        BY <2>3
      <4> QED BY <3>1, <4>1
    <3>2. CASE x[2] = y[2] /\ x[3] < y[3]
      <4>1. \A j \in 1..3-1 : x[j] = y[j]
        BY <2>3, <3>2
      <4> QED BY <3>2, <4>1
    <3>3. CASE x[2] = y[2] /\ x[3] = y[3] /\ x[4] < y[4]
      <4>1. \A j \in 1..4-1 : x[j] = y[j]
        BY <2>3, <3>3
      <4> QED BY <3>3, <4>1
    <3> QED BY <2>3, <3>1, <3>2, <3>3
  <2> QED BY <2>4 DEF ShownBefore, x, y
<1> QED BY <1>1, Inductive, PTL

-----------------------------------------------------------------------------
\* A record appended leaves the lines before it as they were.
LEMMA AppendAdds ==
  ASSUME IInv, NEW x, log' = Append(log, x),
         ends' = ends \/ ends' = ends \cup {Len(log) + 1}
  PROVE  Store!LogNext
<1>1. /\ Len(log) \in Nat /\ Len(log') = Len(log) + 1
      /\ SubSeq(log', 1, Len(log)) = log
  <2>1. log \in Seq(Artifacts(RecordTypes))
    BY DEF IInv, TypeOK
  <2>2. Len(log) \in Nat /\ Len(log') = Len(log) + 1
        /\ \A p \in 1..Len(log) : log'[p] = log[p]
    BY <2>1
  <2>3. /\ DOMAIN SubSeq(log', 1, Len(log)) = 1..Len(log)
        /\ \A p \in 1..Len(log) : SubSeq(log', 1, Len(log))[p] = log'[p]
    BY <2>2
  <2>4. SubSeq(log', 1, Len(log)) = log
    BY <2>1, <2>2, <2>3
  <2> QED BY <2>2, <2>4
<1>2. Glued \subseteq Glued'
  <2> SUFFICES ASSUME NEW p \in Glued PROVE p \in Glued'
    OBVIOUS
  <2>1. p \in 1..Len(log) /\ p > 1 /\ p - 1 \notin ends
    BY DEF Glued, Positions
  <2>2. p \in 1..Len(log') /\ p - 1 # Len(log) + 1
    BY <1>1, <2>1
  <2>3. p - 1 \notin ends'
    BY <2>1, <2>2
  <2> QED BY <2>1, <2>2, <2>3 DEF Glued, Positions
<1>3. Readable' \in BOOLEAN /\ (Readable' => Readable)
  BY <1>2 DEF Readable
<1> QED BY <1>1, <1>3 DEF Store!LogNext, Store!Add

\* Where a line ends does not matter for what can be read when the last text is
\* on it.
LEMMA NewlineStutters ==
  ASSUME IInv, log' = log, ends' = ends \/ ends' = ends \cup {Len(log)}
  PROVE  Readable' = Readable
<1>1. Len(log) \in Nat
  BY DEF IInv, TypeOK
<1>2. ASSUME NEW p \in 1..Len(log) PROVE p - 1 \in ends' <=> p - 1 \in ends
  BY <1>1
<1>3. Glued' = Glued
  BY <1>2 DEF Glued, Positions
<1> QED BY <1>3 DEF Readable

\* The journal implements the append-only log.
THEOREM Implements == Spec => StoreSpec
<1>1. Init => Store!LogInit
  BY DEF Init, Store!LogInit, Readable, Glued, Positions
<1>2. ASSUME IInv, [Next]_vars
      PROVE  [Store!LogNext]_<<log, Readable>>
  <2>1. ASSUME NEW w \in Writers, WriteLine(w) \/ WriteText(w)
        PROVE  Store!LogNext
    <3>1. /\ log' = Append(log, NextRecord(w))
          /\ ends' = ends \/ ends' = ends \cup {Len(log) + 1}
      BY <2>1 DEF WriteLine, WriteText
    <3> QED BY <1>2, <3>1, AppendAdds
  <2>2. ASSUME log' = log, ends' = ends \/ ends' = ends \cup {Len(log)}
        PROVE  UNCHANGED <<log, Readable>>
    BY <1>2, <2>2, NewlineStutters
  <2>3. ASSUME NEW w \in Writers,
               \/ Bootstrap(w)
               \/ \E d \in Decisions :
                    \/ \E e \in Decided : Decide(w, d, e)
                    \/ \E e \in Evaluated : Evaluate(w, d, e)
               \/ \E e \in Commands \cup {"mismatch"} : Control(w, e)
        PROVE  log' = log /\ ends' = ends
    BY <2>3 DEF Bootstrap, Decide, Evaluate, Control, Begin
  <2>4. ASSUME NEW w \in Writers,
               CountLines(w) \/ WriteNewline(w) \/ WritePacket(w) \/ Crash(w)
        PROVE  log' = log /\ (ends' = ends \/ ends' = ends \cup {Len(log)})
    BY <2>4 DEF CountLines, WriteNewline, WritePacket, Crash
  <2>5. CASE Tick \/ UNCHANGED vars
    <3>1. log' = log /\ ends' = ends
      BY <2>5 DEF Tick, vars
    <3> QED BY <2>2, <3>1
  <2> QED BY <1>2, <2>1, <2>2, <2>3, <2>4, <2>5 DEF Next
<1> QED BY <1>1, <1>2, Inductive, PTL DEF Spec, StoreSpec, Store!LogSpec

-----------------------------------------------------------------------------
(* The daily report.  What it counts is, for each figure, what completed   *)
(* batches contribute, what each batch under way has in the files by now,  *)
(* and at most two artifacts of each batch cut short.                      *)

Figures == {"restarts", "riskDecisions", "mismatches", "incidents"}

\* The types a figure counts.
TypesOf(k) ==
  CASE k = "restarts"      -> {"restart"}
    [] k = "riskDecisions" -> RiskDecisionTypes
    [] k = "mismatches"    -> {"mismatch", "reconciliation_mismatch"}
    [] k = "incidents"     -> IncidentTypes

\* The events whose record and packet both count, and whose packet alone does.
BothOf(k) ==
  CASE k = "restarts"      -> {"restart"}
    [] k = "riskDecisions" -> Evaluated
    [] k = "mismatches"    -> {"mismatch"}
    [] k = "incidents"     -> {"mismatch"}

PacketOf(k) ==
  IF k = "incidents" THEN {"veto", "freeze", "kill", "flatten"} ELSE {}

\* What the completed batches contribute to a figure.
Due(k, c) ==
  CASE k = "restarts"      -> 2 * c["restart"]
    [] k = "riskDecisions" -> 2 * (c["verdict"] + c["veto"])
    [] k = "mismatches"    -> 2 * c["mismatch"]
    [] k = "incidents"     -> c["veto"] + c["freeze"] + c["kill"]
                                + c["flatten"] + 2 * c["mismatch"]

\* The items a figure counts.
Items(k) == {i \in JournalItems \cup PacketItems : i.of.type \in TypesOf(k)}

Busy == {w \in Writers : writer[w].pc # "idle"}

\* What is in the files of a batch: all its records, all its packets.
JournalDone(b) == b.pc = "newline" \/ (b.pc = "next" /\ b.records = {})
PacketsDone(b) == b.pc # "idle" /\ b.packets = {}

\* The part of a batch that goes to one of the files is there, and counts.
HalfDone(b, file, k) ==
  IF file = "journal"
  THEN JournalDone(b) /\ b.event \in BothOf(k)
  ELSE PacketsDone(b) /\ b.event \in BothOf(k) \cup PacketOf(k)

Halfway(file, k) == {w \in Writers : HalfDone(writer[w], file, k)}

Num(x) == IF x THEN 1 ELSE 0

\* What a figure counts of a batch under way, and of all of them.
Gain(b, k) == Num(HalfDone(b, "journal", k)) + Num(HalfDone(b, "packets", k))

UnderWay(k) ==
  Cardinality(Halfway("journal", k)) + Cardinality(Halfway("packets", k))

FiguresInv ==
  \A k \in Figures :
    /\ IsFiniteSet(Items(k))
    /\ Due(k, completed) + UnderWay(k) <= Cardinality(Items(k))
    /\ Cardinality(Items(k))
         <= Due(k, completed) + UnderWay(k) + 2 * crashes

\* Batches are numbered apart.
NumberInv ==
  /\ \A w \in Writers : writer[w].no <= batches
  /\ \A v, w \in Busy : v # w => writer[v].no # writer[w].no
  /\ \A p \in Positions : log[p].batch <= batches
  /\ \A p \in 1..Len(packets) : packets[p].batch <= batches

Single(e) == \E t : ArtifactsOf(e).records = {t}

\* What a process has still to write of its batch is not in the files.
Fresh(b, l, q) ==
  b.pc # "idle" =>
    /\ b.packets # {} => \A p \in 1..Len(q) : q[p].batch # b.no
    /\ Single(b.event) =>
         /\ b.pc \in {"text", "newline"} => b.records = {}
         /\ b.pc = "text" \/ b.records # {} =>
              \A p \in 1..Len(l) : l[p].batch # b.no

FreshInv == \A w \in Writers : Fresh(writer[w], log, packets)

ReportInv == IsFiniteSet(Busy) /\ FiguresInv /\ NumberInv /\ FreshInv

\* Which artifacts of an event a figure counts: its one record and its packet,
\* its packet alone, or none.
LEMMA FigureEvents ==
  ASSUME NEW k \in Figures, NEW e \in Events
  PROVE  /\ e \in BothOf(k) =>
              /\ Single(e) /\ RecordsOf(e) \subseteq TypesOf(k)
              /\ ArtifactsOf(e).packets # {} /\ e \notin PacketOf(k)
         /\ e \notin BothOf(k) => RecordsOf(e) \cap TypesOf(k) = {}
         /\ e \in PacketOf(k) => ArtifactsOf(e).packets # {}
         /\ e \in BothOf(k) \cup PacketOf(k) =>
              ArtifactsOf(e).packets \subseteq TypesOf(k)
         /\ e \notin BothOf(k) \cup PacketOf(k) =>
              ArtifactsOf(e).packets \cap TypesOf(k) = {}
<1> DEFINE r == ArtifactsOf(e).records
           q == ArtifactsOf(e).packets
<1> USE DEF Figures
<1>1. e = "restart" => r = {"restart"} /\ q = {"restart"}
  BY ArtifactTable
<1>2. e \in Decided =>
        /\ r = {"proposal_input", "proposal_output"}
        /\ q \subseteq {"proposal_generated", "proposal_rejected"}
  BY ArtifactTable
<1>3. e = "verdict" => r = {"risk_decision"} /\ q = {"risk_decision"}
  BY ArtifactTable
<1>4. e = "veto" => r = {"risk_decision"} /\ q = {"risk_veto"}
  BY ArtifactTable
<1>5. e = "freeze" => r = {"freeze"} /\ q = {"risk_freeze"}
  BY ArtifactTable
<1>6. e = "kill" => r = {"freeze"} /\ q = {"kill_switch_activated"}
  BY ArtifactTable
<1>7. e = "unfreeze" => r = {"supervisor_action"} /\ q = {}
  BY ArtifactTable
<1>8. e = "flatten_command" => r = {"freeze"} /\ q = {}
  BY ArtifactTable
<1>9. e = "flatten" => r = {"supervisor_action"} /\ q = {"flatten_requested"}
  BY ArtifactTable
<1>10. e = "mismatch" => r = {"mismatch"} /\ q = {"reconciliation_mismatch"}
  BY ArtifactTable
<1>11. \A t : r = {t} => RecordsOf(e) = {t} /\ Single(e)
  BY DEF RecordsOf, Single
<1>12. \A t, u : r = {t, u} => RecordsOf(e) = {t, u}
  BY DEF RecordsOf
<1> HIDE DEF r
<1>13. e \in Decided => RecordsOf(e) = {"proposal_input", "proposal_output"}
  BY <1>2, <1>12
<1> USE DEF TypesOf, BothOf, PacketOf, RiskDecisionTypes, IncidentTypes, Evaluated
<1>14. CASE e \in Decided
  <2>1. e \notin BothOf(k) \cup PacketOf(k)
    BY <1>14 DEF Decided
  <2> QED BY <1>2, <1>13, <1>14, <2>1
<1>15. CASE e = "restart"
  BY <1>1, <1>11, <1>15
<1>16. CASE e = "verdict"
  BY <1>3, <1>11, <1>16
<1>17. CASE e = "veto"
  BY <1>4, <1>11, <1>17
<1>18. CASE e = "freeze"
  BY <1>5, <1>11, <1>18
<1>19. CASE e = "kill"
  BY <1>6, <1>11, <1>19
<1>20. CASE e = "unfreeze"
  BY <1>7, <1>11, <1>20
<1>21. CASE e = "flatten_command"
  BY <1>8, <1>11, <1>21
<1>22. CASE e = "flatten"
  BY <1>9, <1>11, <1>22
<1>23. CASE e = "mismatch"
  BY <1>10, <1>11, <1>23
<1> QED BY <1>14, <1>15, <1>16, <1>17, <1>18, <1>19, <1>20, <1>21, <1>22, <1>23
        DEF Events, Commanded

\* A batch completed contributes what the figure counts of it.
LEMMA DueAdds ==
  ASSUME NEW k \in Figures, NEW e \in Events, NEW c \in [Events -> Nat]
  PROVE  /\ Due(k, c) \in Nat
         /\ Due(k, [c EXCEPT ![e] = @ + 1]) =
              Due(k, c) + (IF e \in BothOf(k) THEN 2
                           ELSE IF e \in PacketOf(k) THEN 1 ELSE 0)
<1> DEFINE d == [c EXCEPT ![e] = @ + 1]
<1>1. \A x \in Events : c[x] \in Nat /\ d[x] = IF x = e THEN c[x] + 1 ELSE c[x]
  OBVIOUS
<1>2. {"restart", "verdict", "veto", "mismatch", "freeze", "kill", "flatten"}
        \subseteq Events
  BY DEF Events, Evaluated, Commanded
<1> HIDE DEF d
<1>3. CASE k = "restarts"
  BY <1>1, <1>2, <1>3 DEF Due, BothOf, PacketOf
<1>4. CASE k = "riskDecisions"
  BY <1>1, <1>2, <1>4 DEF Due, BothOf, PacketOf, Evaluated
<1>5. CASE k = "mismatches"
  BY <1>1, <1>2, <1>5 DEF Due, BothOf, PacketOf
<1>6. CASE k = "incidents"
  <2>1. Due(k, c) = c["veto"] + c["freeze"] + c["kill"] + c["flatten"]
                      + 2 * c["mismatch"]
    BY <1>6 DEF Due
  <2>2. Due(k, d) = d["veto"] + d["freeze"] + d["kill"] + d["flatten"]
                      + 2 * d["mismatch"]
    BY <1>6 DEF Due
  <2> DEFINE w == IF e = "mismatch" THEN 2
                  ELSE IF e \in {"veto", "freeze", "kill", "flatten"} THEN 1 ELSE 0
             S(f) == f["veto"] + f["freeze"] + f["kill"] + f["flatten"]
  <2>3. (IF e \in BothOf(k) THEN 2 ELSE IF e \in PacketOf(k) THEN 1 ELSE 0) = w
    BY <1>6 DEF BothOf, PacketOf
  <2>4. /\ d["mismatch"] = IF e = "mismatch" THEN c["mismatch"] + 1 ELSE c["mismatch"]
        /\ c["mismatch"] \in Nat /\ S(c) \in Nat
    BY <1>1, <1>2
  <2>5. S(d) = IF e \in {"veto", "freeze", "kill", "flatten"} THEN S(c) + 1 ELSE S(c)
    <3>1. CASE e = "veto"
      BY <1>1, <1>2, <3>1
    <3>2. CASE e = "freeze"
      BY <1>1, <1>2, <3>2
    <3>3. CASE e = "kill"
      BY <1>1, <1>2, <3>3
    <3>4. CASE e = "flatten"
      BY <1>1, <1>2, <3>4
    <3>5. CASE e \notin {"veto", "freeze", "kill", "flatten"}
      BY <1>1, <1>2, <3>5
    <3> QED BY <3>1, <3>2, <3>3, <3>4, <3>5
  <2>6. Due(k, c) = S(c) + 2 * c["mismatch"] /\ Due(k, d) = S(d) + 2 * d["mismatch"]
    BY <2>1, <2>2
  <2>7. Due(k, d) = Due(k, c) + w /\ Due(k, c) \in Nat
    <3> DEFINE m == c["mismatch"]
               n == d["mismatch"]
               x == S(c)
               y == S(d)
    <3>1. m \in Nat /\ x \in Nat /\ Due(k, c) = x + 2 * m /\ Due(k, d) = y + 2 * n
      BY <2>4, <2>6
    <3>2. \/ n = m + 1 /\ y = x /\ w = 2
          \/ n = m /\ y = x + 1 /\ w = 1
          \/ n = m /\ y = x /\ w = 0
      BY <2>4, <2>5
    <3> HIDE DEF m, n, x, y, w
    <3> QED BY <3>1, <3>2
  <2> QED BY <2>3, <2>7 DEF d
<1> QED BY <1>3, <1>4, <1>5, <1>6 DEF Figures, d

\* What a figure counts of a batch under way is a small number.
LEMMA GainIsSmall ==
  ASSUME NEW b, NEW k
  PROVE  /\ Gain(b, k) \in {0, 1, 2}
         /\ b.pc = "idle" => Gain(b, k) = 0
<1>1. \A x : Num(x) \in {0, 1}
  BY DEF Num
<1>2. b.pc = "idle" => ~HalfDone(b, "journal", k) /\ ~HalfDone(b, "packets", k)
  BY DEF HalfDone, JournalDone, PacketsDone
<1>3. b.pc = "idle" =>
        Num(HalfDone(b, "journal", k)) = 0 /\ Num(HalfDone(b, "packets", k)) = 0
  BY <1>2 DEF Num
<1> DEFINE i == Num(HalfDone(b, "journal", k))
           j == Num(HalfDone(b, "packets", k))
<1>4. i \in {0, 1} /\ j \in {0, 1} /\ (b.pc = "idle" => i = 0 /\ j = 0)
  BY <1>1, <1>3
<1>5. Gain(b, k) = i + j
  BY DEF Gain
<1> HIDE DEF i, j
<1> QED BY <1>4, <1>5

\* What a figure compares are natural numbers.
LEMMA Sizes ==
  ASSUME TypeOK, ReportInv, NEW k \in Figures
  PROVE  /\ IsFiniteSet(Items(k)) /\ Cardinality(Items(k)) \in Nat
         /\ \A file : /\ IsFiniteSet(Halfway(file, k))
                      /\ Cardinality(Halfway(file, k)) \in Nat
         /\ Cardinality(Busy) \in Nat /\ UnderWay(k) \in Nat
         /\ UnderWay(k) <= 2 * Cardinality(Busy)
         /\ Due(k, completed) \in Nat /\ crashes \in Nat
         /\ Due(k, completed) + UnderWay(k) <= Cardinality(Items(k))
         /\ Cardinality(Items(k))
              <= Due(k, completed) + UnderWay(k) + 2 * crashes
<1>1. IsFiniteSet(Busy) /\ IsFiniteSet(Items(k))
  BY DEF ReportInv, FiguresInv
<1>2. Cardinality(Busy) \in Nat /\ Cardinality(Items(k)) \in Nat
  BY <1>1, FS_CardinalityType
<1>3. ASSUME NEW file
      PROVE  /\ IsFiniteSet(Halfway(file, k))
             /\ Cardinality(Halfway(file, k)) \in Nat
             /\ Cardinality(Halfway(file, k)) <= Cardinality(Busy)
  <2>1. Halfway(file, k) \in SUBSET Busy
    BY DEF Halfway, Busy, HalfDone, JournalDone, PacketsDone
  <2> QED BY <1>1, <2>1, FS_Subset, FS_CardinalityType
<1>4. UnderWay(k) \in Nat /\ UnderWay(k) <= 2 * Cardinality(Busy)
  BY <1>2, <1>3 DEF UnderWay
<1>5. Due(k, completed) \in Nat /\ crashes \in Nat
  <2>1. completed \in [Events -> Nat] /\ crashes \in Nat
    BY AuditAssumption DEF TypeOK
  <2>2. "restart" \in Events
    BY DEF Events
  <2> QED BY <2>1, <2>2, DueAdds
<1> QED BY <1>1, <1>2, <1>3, <1>4, <1>5 DEF ReportInv, FiguresInv

\* A process that moves on changes what is under way by itself.
LEMMA Moves ==
  ASSUME TypeOK, ReportInv, NEW w \in Writers, NEW c,
         writer' = [writer EXCEPT ![w] = c]
  PROVE  /\ IsFiniteSet(Busy')
         /\ \A k \in Figures :
              UnderWay(k)' = UnderWay(k) + Gain(c, k) - Gain(writer[w], k)
<1>1. writer'[w] = c /\ \A v \in Writers \ {w} : writer'[v] = writer[v]
  BY DEF TypeOK
<1>2. IsFiniteSet(Busy')
  <2>1. Busy' \in SUBSET (Busy \cup {w})
    BY <1>1 DEF Busy
  <2>2. IsFiniteSet(Busy \cup {w})
    BY FS_AddElement DEF ReportInv
  <2> QED BY <2>1, <2>2, FS_Subset
<1>3. ASSUME NEW k \in Figures, NEW file
      PROVE  /\ Cardinality(Halfway(file, k)') =
                  Cardinality(Halfway(file, k)) + Num(HalfDone(c, file, k))
                    - Num(HalfDone(writer[w], file, k))
             /\ Cardinality(Halfway(file, k)) \in Nat
  <2>1. /\ w \in Halfway(file, k) <=> HalfDone(writer[w], file, k)
        /\ HalfDone(c, file, k) => Halfway(file, k)' = Halfway(file, k) \cup {w}
        /\ ~HalfDone(c, file, k) => Halfway(file, k)' = Halfway(file, k) \ {w}
    BY <1>1 DEF Halfway
  <2>2. IsFiniteSet(Halfway(file, k)) /\ Cardinality(Halfway(file, k)) \in Nat
    BY Sizes
  <2> DEFINE H == Halfway(file, k)
  <2>3. /\ w \in H => Cardinality(H \cup {w}) = Cardinality(H)
        /\ w \notin H => Cardinality(H \cup {w}) = Cardinality(H) + 1
        /\ w \in H => Cardinality(H \ {w}) = Cardinality(H) - 1
        /\ w \notin H => Cardinality(H \ {w}) = Cardinality(H)
    BY <2>2, FS_AddElement, FS_RemoveElement
  <2>4. CASE HalfDone(c, file, k) /\ w \in H
    <3>1. Num(HalfDone(c, file, k)) = 1 /\ Num(HalfDone(writer[w], file, k)) = 1
      BY <2>1, <2>4 DEF Num
    <3> QED BY <2>1, <2>2, <2>3, <2>4, <3>1
  <2>5. CASE HalfDone(c, file, k) /\ w \notin H
    <3>1. Num(HalfDone(c, file, k)) = 1 /\ Num(HalfDone(writer[w], file, k)) = 0
      BY <2>1, <2>5 DEF Num
    <3>2. Halfway(file, k)' = H \cup {w} /\ Cardinality(H \cup {w}) = Cardinality(H) + 1
      BY <2>1, <2>3, <2>5
    <3> QED BY <2>2, <3>1, <3>2
  <2>6. CASE ~HalfDone(c, file, k) /\ w \in H
    <3>1. Num(HalfDone(c, file, k)) = 0 /\ Num(HalfDone(writer[w], file, k)) = 1
      BY <2>1, <2>6 DEF Num
    <3> QED BY <2>1, <2>2, <2>3, <2>6, <3>1
  <2>7. CASE ~HalfDone(c, file, k) /\ w \notin H
    <3>1. Num(HalfDone(c, file, k)) = 0 /\ Num(HalfDone(writer[w], file, k)) = 0
      BY <2>1, <2>7 DEF Num
    <3> QED BY <2>1, <2>2, <2>3, <2>7, <3>1
  <2> QED BY <2>4, <2>5, <2>6, <2>7
<1>4. ASSUME NEW k \in Figures
      PROVE  UnderWay(k)' = UnderWay(k) + Gain(c, k) - Gain(writer[w], k)
  <2> DEFINE i == Cardinality(Halfway("journal", k))
             j == Cardinality(Halfway("packets", k))
             i2 == Cardinality(Halfway("journal", k)')
             j2 == Cardinality(Halfway("packets", k)')
             ci == Num(HalfDone(c, "journal", k))
             cj == Num(HalfDone(c, "packets", k))
             wi == Num(HalfDone(writer[w], "journal", k))
             wj == Num(HalfDone(writer[w], "packets", k))
  <2>1. i2 = i + ci - wi /\ j2 = j + cj - wj /\ i \in Nat /\ j \in Nat
    BY <1>3
  <2>2. ci \in Nat /\ cj \in Nat /\ wi \in Nat /\ wj \in Nat
    BY DEF Num
  <2>3. UnderWay(k) = i + j /\ UnderWay(k)' = i2 + j2 /\ Gain(c, k) = ci + cj
        /\ Gain(writer[w], k) = wi + wj
    BY DEF UnderWay, Gain
  <2> HIDE DEF i, j, i2, j2, ci, cj, wi, wj
  <2> QED BY <2>1, <2>2, <2>3
<1> QED BY <1>2, <1>4

\* What a figure counts of a batch no record or packet of which is being written.
Part(b, k) ==
  Num(b.records = {} /\ b.event \in BothOf(k))
    + Num(b.packets = {} /\ b.event \in BothOf(k) \cup PacketOf(k))

\* That, and what is due then, make up what the figure counts of it.
LEMMA LeftGain ==
  ASSUME NEW w, NEW b \in WriterStates, NEW k \in Figures, Proceed(w, b),
         completed \in [Events -> Nat]
  PROVE  /\ Due(k, completed') + Gain(Left(b), k) = Due(k, completed) + Part(b, k)
         /\ Due(k, completed) \in Nat /\ Due(k, completed') \in Nat
         /\ Part(b, k) \in {0, 1, 2}
<1>1. b.event \in Events
  BY DEF WriterStates
<1>2. Due(k, completed) \in Nat
  BY <1>1, DueAdds
<1>3. Part(b, k) \in {0, 1, 2}
  BY DEF Part, Num
<1>4. CASE Finished(b)
  <2>1. completed' = [completed EXCEPT ![b.event] = @ + 1]
        /\ b.records = {} /\ b.packets = {}
    BY <1>4 DEF Proceed, Finished
  <2>2. Due(k, completed') =
          Due(k, completed) + (IF b.event \in BothOf(k) THEN 2
                               ELSE IF b.event \in PacketOf(k) THEN 1 ELSE 0)
    BY <1>1, <2>1, DueAdds
  <2>3. Gain(Left(b), k) = 0
    BY <1>4, LeftOf, GainIsSmall
  <2>4. Part(b, k) = IF b.event \in BothOf(k) THEN 2
                     ELSE IF b.event \in PacketOf(k) THEN 1 ELSE 0
    BY <2>1 DEF Part, Num
  <2> QED BY <1>2, <1>3, <2>2, <2>3, <2>4
<1>5. CASE ~Finished(b)
  <2>1. completed' = completed
    BY <1>5 DEF Proceed
  <2>2. /\ Left(b).pc = "next" /\ Left(b).event = b.event
        /\ Left(b).records = b.records /\ Left(b).packets = b.packets
    BY <1>5, LeftOf
  <2>3. /\ HalfDone(Left(b), "journal", k)
             <=> b.records = {} /\ b.event \in BothOf(k)
        /\ HalfDone(Left(b), "packets", k)
             <=> b.packets = {} /\ b.event \in BothOf(k) \cup PacketOf(k)
    BY <2>2 DEF HalfDone, JournalDone, PacketsDone
  <2>4. Gain(Left(b), k) = Part(b, k)
    BY <2>3 DEF Gain, Part, Num
  <2> QED BY <1>2, <1>3, <2>1, <2>4
<1> QED BY <1>4, <1>5

\* A record appended is an item of the figures that count its event.
LEMMA RecordCounts ==
  ASSUME IInv, ReportInv, NEW w \in Writers, writer[w].pc = "text",
         log' = Append(log, NextRecord(w)), packets' = packets, NEW k \in Figures
  PROVE  /\ IsFiniteSet(Items(k)')
         /\ Cardinality(Items(k)') =
              IF writer[w].event \in BothOf(k) THEN Cardinality(Items(k)) + 1
                                               ELSE Cardinality(Items(k))
<1> DEFINE e == writer[w].event
           x == NextRecord(w)
           i == [kind |-> "journal", of |-> x]
<1>1. /\ writer[w].no # 0 /\ writer[w].type \in RecordTypes
      /\ writer[w].type \in RecordsOf(e) /\ e \in Events
      /\ TypeOK /\ log \in Seq(Artifacts(RecordTypes))
  BY HasRecord DEF IInv, TypeOK
<1>2. x.type \in RecordsOf(e) /\ x.batch = writer[w].no
      /\ x \in Artifacts(RecordTypes)
  BY <1>1, ArtifactTyped DEF NextRecord
<1>3. JournalItems' = JournalItems \cup {i} /\ PacketItems' = PacketItems
  <2>1. /\ Len(log') = Len(log) + 1 /\ Len(log) \in Nat /\ log'[Len(log) + 1] = x
        /\ \A p \in 1..Len(log) : log'[p] = log[p]
    BY <1>1, <1>2
  <2>2. 1..Len(log') = (1..Len(log)) \cup {Len(log) + 1}
    BY <2>1
  <2> HIDE DEF x
  <2>3. JournalItems' = {[kind |-> "journal", of |-> log'[p]] : p \in 1..Len(log')}
    BY DEF JournalItems, Positions
  <2>4. JournalItems = {[kind |-> "journal", of |-> log[p]] : p \in 1..Len(log)}
    BY DEF JournalItems, Positions
  <2>5. JournalItems' = JournalItems \cup {i}
    BY <2>1, <2>2, <2>3, <2>4
  <2> QED BY <2>5 DEF PacketItems
<1> HIDE DEF x
<1>4. i.of = x /\ i.kind = "journal"
  OBVIOUS
<1>5. CASE e \in BothOf(k)
  <2>1. x.type \in TypesOf(k) /\ Single(e)
    BY <1>1, <1>2, <1>5, FigureEvents
  <2>2. i \notin JournalItems
    <3>1. \A p \in Positions : log[p].batch # writer[w].no
      BY <2>1 DEF ReportInv, FreshInv, Fresh, Positions
    <3>2. \A p \in Positions : [kind |-> "journal", of |-> log[p]].of = log[p]
      OBVIOUS
    <3> QED BY <1>2, <1>4, <3>1, <3>2 DEF JournalItems
  <2>3. i \notin PacketItems
    <3>1. \A p \in 1..Len(packets) :
            [kind |-> "event_packet", of |-> packets[p]].kind = "event_packet"
      OBVIOUS
    <3> QED BY <1>4, <3>1 DEF PacketItems
  <2>4. Items(k)' = Items(k) \cup {i} /\ i \notin Items(k)
    <3> HIDE DEF i
    <3> QED BY <1>3, <1>4, <2>1, <2>2, <2>3 DEF Items
  <2>5. IsFiniteSet(Items(k))
    BY <1>1, Sizes
  <2> QED BY <1>5, <2>4, <2>5, FS_AddElement
<1>6. CASE e \notin BothOf(k)
  <2>1. x.type \notin TypesOf(k)
    BY <1>1, <1>2, <1>6, FigureEvents
  <2>2. Items(k)' = Items(k)
    <3> HIDE DEF i
    <3> QED BY <1>3, <1>4, <2>1 DEF Items
  <2>3. IsFiniteSet(Items(k))
    BY <1>1, Sizes
  <2> QED BY <1>6, <2>2, <2>3
<1> QED BY <1>5, <1>6

\* So is a packet.
LEMMA PacketCounts ==
  ASSUME IInv, ReportInv, NEW w \in Writers, writer[w].pc = "next",
         NEW t \in writer[w].packets,
         packets' = Append(packets, Artifact(t, writer[w])), log' = log,
         NEW k \in Figures
  PROVE  /\ IsFiniteSet(Items(k)')
         /\ Cardinality(Items(k)') =
              IF writer[w].event \in BothOf(k) \cup PacketOf(k)
              THEN Cardinality(Items(k)) + 1 ELSE Cardinality(Items(k))
<1> DEFINE e == writer[w].event
           x == Artifact(t, writer[w])
           i == [kind |-> "event_packet", of |-> x]
<1>1. TypeOK /\ packets \in Seq(Artifacts(PacketTypes)) /\ e \in Events
      /\ writer[w].no # 0
  BY StateFields DEF IInv, TypeOK, ProgressInv, Progress
<1>2. t \in PacketTypes /\ t \in ArtifactsOf(e).packets
  BY <1>1, StateFields DEF IInv, ProgressInv, Progress
<1>3. x.type = t /\ x.batch = writer[w].no /\ x \in Artifacts(PacketTypes)
  BY <1>1, <1>2, ArtifactTyped
<1>4. PacketItems' = PacketItems \cup {i} /\ JournalItems' = JournalItems
  <2>1. /\ Len(packets') = Len(packets) + 1 /\ Len(packets) \in Nat
        /\ packets'[Len(packets) + 1] = x
        /\ \A p \in 1..Len(packets) : packets'[p] = packets[p]
    BY <1>1, <1>3
  <2>2. 1..Len(packets') = (1..Len(packets)) \cup {Len(packets) + 1}
    BY <2>1
  <2> HIDE DEF x
  <2>3. PacketItems' = PacketItems \cup {i}
    BY <2>1, <2>2 DEF PacketItems
  <2> QED BY <2>3 DEF JournalItems, Positions
<1> HIDE DEF x
<1>5. i.of = x /\ i.kind = "event_packet"
  OBVIOUS
<1>6. IsFiniteSet(Items(k))
  BY <1>1, Sizes
<1>7. CASE e \in BothOf(k) \cup PacketOf(k)
  <2>1. x.type \in TypesOf(k)
    BY <1>1, <1>2, <1>3, <1>7, FigureEvents
  <2>2. i \notin PacketItems
    <3>1. \A p \in 1..Len(packets) : packets[p].batch # writer[w].no
      BY DEF ReportInv, FreshInv, Fresh
    <3>2. \A p \in 1..Len(packets) :
            [kind |-> "event_packet", of |-> packets[p]].of = packets[p]
      OBVIOUS
    <3> QED BY <1>3, <1>5, <3>1, <3>2 DEF PacketItems
  <2>3. i \notin JournalItems
    <3>1. \A p \in Positions : [kind |-> "journal", of |-> log[p]].kind = "journal"
      OBVIOUS
    <3> QED BY <1>5, <3>1 DEF JournalItems
  <2>4. Items(k)' = Items(k) \cup {i} /\ i \notin Items(k)
    <3> HIDE DEF i
    <3> QED BY <1>4, <1>5, <2>1, <2>2, <2>3 DEF Items
  <2> QED BY <1>6, <1>7, <2>4, FS_AddElement
<1>8. CASE e \notin BothOf(k) \cup PacketOf(k)
  <2>1. x.type \notin TypesOf(k)
    BY <1>1, <1>2, <1>3, <1>8, FigureEvents
  <2>2. Items(k)' = Items(k)
    <3> HIDE DEF i
    <3> QED BY <1>4, <1>5, <2>1 DEF Items
  <2> QED BY <1>6, <1>8, <2>2
<1> QED BY <1>7, <1>8

\* A step changes what a figure counts by what it then is due and what is under
\* way, or a kill leaves at most two items that are neither.
Balances(k) ==
  /\ IsFiniteSet(Items(k)')
  /\ \E i, d, h \in Int :
       /\ Cardinality(Items(k)') = Cardinality(Items(k)) + i
       /\ Due(k, completed') = Due(k, completed) + d
       /\ UnderWay(k)' = UnderWay(k) + h
       /\ \/ crashes' = crashes /\ i = d + h
          \/ /\ crashes' = crashes + 1 /\ i = 0 /\ d = 0
             /\ h \in {0, -1, -2}

\* So the figures stay as they should be.
LEMMA Balanced ==
  ASSUME TypeOK, ReportInv, \A k \in Figures : Balances(k)
  PROVE  FiguresInv'
<1> SUFFICES ASSUME NEW k \in Figures
             PROVE  /\ Due(k, completed') + UnderWay(k)' <= Cardinality(Items(k)')
                    /\ Cardinality(Items(k)')
                         <= Due(k, completed') + UnderWay(k)' + 2 * crashes'
  BY DEF FiguresInv, Balances
<1> DEFINE n == Cardinality(Items(k))
           u == Due(k, completed)
           m == UnderWay(k)
           n2 == Cardinality(Items(k)')
           u2 == Due(k, completed')
           m2 == UnderWay(k)'
<1>1. PICK i \in Int, d \in Int, h \in Int :
        /\ n2 = n + i /\ u2 = u + d /\ m2 = m + h
        /\ \/ crashes' = crashes /\ i = d + h
           \/ crashes' = crashes + 1 /\ i = 0 /\ d = 0 /\ h \in {0, -1, -2}
  BY DEF Balances
<1>2. /\ n \in Nat /\ u \in Nat /\ m \in Nat /\ crashes \in Nat
      /\ u + m <= n /\ n <= u + m + 2 * crashes
  BY Sizes
<1> HIDE DEF n, u, m, n2, u2, m2
<1>3. u2 + m2 <= n2 /\ n2 <= u2 + m2 + 2 * crashes'
  BY <1>1, <1>2
<1> QED BY <1>3 DEF n2, u2, m2

\* The numbers of the batches stay apart, and what is to be written new, when a
\* process writes of its own batch.
LEMMA Apart ==
  ASSUME IInv, ReportInv, NEW w \in Writers, writer[w].pc # "idle", NEW c,
         writer' = [writer EXCEPT ![w] = c], batches' = batches,
         c.no <= batches, c.pc # "idle" => c.no = writer[w].no,
         log' = log \/ \E x : x.batch = writer[w].no /\ log' = Append(log, x),
         packets' = packets
           \/ \E x : x.batch = writer[w].no /\ packets' = Append(packets, x),
         Fresh(c, log', packets')
  PROVE  NumberInv' /\ FreshInv'
<1>1. /\ writer'[w] = c /\ \A v \in Writers \ {w} : writer'[v] = writer[v]
      /\ log \in Seq(Artifacts(RecordTypes)) /\ packets \in Seq(Artifacts(PacketTypes))
  BY DEF IInv, TypeOK
<1>2. writer[w].no <= batches
  BY DEF ReportInv, NumberInv
<1>3. /\ \A p \in 1..Len(log') :
           \/ p \in 1..Len(log) /\ log'[p] = log[p]
           \/ log'[p].batch = writer[w].no
      /\ \A p \in 1..Len(packets') :
           \/ p \in 1..Len(packets) /\ packets'[p] = packets[p]
           \/ packets'[p].batch = writer[w].no
  <2>1. ASSUME NEW S, NEW s \in Seq(S), NEW x
        PROVE  \A p \in 1..Len(Append(s, x)) :
                 \/ p \in 1..Len(s) /\ Append(s, x)[p] = s[p]
                 \/ Append(s, x)[p] = x
    OBVIOUS
  <2> QED BY <1>1, <2>1
<1>4. NumberInv'
  <2>1. \A v \in Writers : writer'[v].no <= batches
    BY <1>1 DEF ReportInv, NumberInv
  <2>2. ASSUME NEW u \in Busy', NEW v \in Busy', u # v
        PROVE  writer'[u].no # writer'[v].no
    <3>1. \A x \in Busy' : x \in Busy /\ writer'[x].no = writer[x].no
      BY <1>1 DEF Busy
    <3> QED BY <2>2, <3>1 DEF ReportInv, NumberInv
  <2>3. /\ \A p \in 1..Len(log') : log'[p].batch <= batches
        /\ \A p \in 1..Len(packets') : packets'[p].batch <= batches
    BY <1>2, <1>3 DEF ReportInv, NumberInv, Positions
  <2> QED BY <2>1, <2>2, <2>3 DEF NumberInv, Positions
<1>5. ASSUME NEW v \in Writers, v # w PROVE Fresh(writer[v], log', packets')
  <2> SUFFICES ASSUME writer[v].pc # "idle" PROVE Fresh(writer[v], log', packets')
    BY DEF Fresh
  <2>1. writer[v].no # writer[w].no
    BY <1>5 DEF ReportInv, NumberInv, Busy
  <2>2. Fresh(writer[v], log, packets)
    BY DEF ReportInv, FreshInv
  <2> QED BY <1>3, <2>1, <2>2 DEF Fresh
<1>6. FreshInv'
  BY <1>1, <1>5 DEF FreshInv
<1> QED BY <1>4, <1>6

\* A new batch is in no file and counts nowhere.
LEMMA BeginReports ==
  ASSUME IInv, ReportInv, NEW w \in Writers, NEW e \in Events, NEW time,
         NEW subject, Begin(w, e, time, subject)
  PROVE  ReportInv'
<1> DEFINE c == [pc |-> "next", no |-> batches + 1, event |-> e, time |-> time,
                 subject |-> subject, records |-> ArtifactsOf(e).records,
                 packets |-> ArtifactsOf(e).packets, type |-> "restart",
                 line |-> 0, seen |-> 0, pos |-> 0]
<1>1. /\ TypeOK /\ writer[w].pc = "idle" /\ batches \in Nat
      /\ batches' = batches + 1 /\ writer' = [writer EXCEPT ![w] = c]
      /\ UNCHANGED <<log, ends, packets, completed, crashes>>
  BY AuditAssumption DEF Begin, IInv, TypeOK
<1>2. /\ c.pc = "next" /\ c.no = batches + 1 /\ c.event = e
      /\ c.records = ArtifactsOf(e).records /\ c.records # {}
      /\ c.packets = ArtifactsOf(e).packets
  BY ArtifactTypes
<1> HIDE DEF c
<1>3. /\ IsFiniteSet(Busy')
      /\ \A k \in Figures : UnderWay(k)' = UnderWay(k)
  <2>1. ASSUME NEW k \in Figures PROVE Gain(c, k) = 0 /\ Gain(writer[w], k) = 0
    <3>1. e \in BothOf(k) \cup PacketOf(k) => c.packets # {}
      BY <1>2, FigureEvents
    <3> QED BY <1>1, <1>2, <3>1
            DEF Gain, Num, HalfDone, JournalDone, PacketsDone
  <2>2. /\ IsFiniteSet(Busy')
        /\ \A k \in Figures :
             UnderWay(k)' = UnderWay(k) + Gain(c, k) - Gain(writer[w], k)
    BY <1>1, Moves
  <2>3. ASSUME NEW k \in Figures PROVE UnderWay(k)' = UnderWay(k)
    <3>1. UnderWay(k) \in Nat
      BY <1>1, Sizes
    <3>2. UnderWay(k)' = UnderWay(k) + 0 - 0
      BY <2>1, <2>2
    <3> QED BY <3>1, <3>2
  <2> QED BY <2>2, <2>3
<1>4. FiguresInv'
  BY <1>1, <1>3 DEF ReportInv, FiguresInv, Items, JournalItems, PacketItems, Positions
<1>5. writer'[w] = c /\ \A v \in Writers \ {w} : writer'[v] = writer[v]
  BY <1>1 DEF IInv, TypeOK
<1>6. /\ \A v \in Writers : writer[v].no \in Nat
      /\ \A p \in 1..Len(log) : log[p].batch \in Nat
      /\ \A p \in 1..Len(packets) : packets[p].batch \in Nat
  <2>1. \A v \in Writers : writer[v].no \in Nat
    BY <1>1, StateFields, AuditAssumption
  <2>2. /\ \A p \in 1..Len(log) : log[p] \in Artifacts(RecordTypes)
        /\ \A p \in 1..Len(packets) : packets[p] \in Artifacts(PacketTypes)
    BY <1>1 DEF TypeOK
  <2> QED BY <2>1, <2>2, AuditAssumption DEF Artifacts
<1>7. /\ \A v \in Writers : writer[v].no <= batches
      /\ \A p \in 1..Len(log) : log[p].batch <= batches
      /\ \A p \in 1..Len(packets) : packets[p].batch <= batches
  BY DEF ReportInv, NumberInv, Positions
<1>8. NumberInv'
  <2>1. \A v \in Writers : writer'[v].no <= batches + 1
    BY <1>1, <1>2, <1>5, <1>6, <1>7
  <2>2. ASSUME NEW u \in Busy', NEW v \in Busy', u # v
        PROVE  writer'[u].no # writer'[v].no
    <3>1. \A x \in Busy' \ {w} :
            x \in Busy /\ writer'[x] = writer[x] /\ writer[x].no # batches + 1
      BY <1>1, <1>5, <1>6, <1>7 DEF Busy
    <3>2. CASE u # w /\ v # w
      BY <2>2, <3>1, <3>2 DEF ReportInv, NumberInv
    <3>3. CASE u = w \/ v = w
      BY <1>2, <1>5, <2>2, <3>1, <3>3
    <3> QED BY <3>2, <3>3
  <2>3. /\ \A p \in 1..Len(log) : log[p].batch <= batches + 1
        /\ \A p \in 1..Len(packets) : packets[p].batch <= batches + 1
    BY <1>1, <1>6, <1>7
  <2> QED BY <1>1, <2>1, <2>2, <2>3 DEF NumberInv, Positions
<1>9. FreshInv'
  <2>1. Fresh(c, log, packets)
    <3>1. /\ \A p \in 1..Len(log) : log[p].batch # batches + 1
          /\ \A p \in 1..Len(packets) : packets[p].batch # batches + 1
      <4>1. \A n \in Nat : n <= batches => n # batches + 1
        BY <1>1
      <4> QED BY <1>6, <1>7, <4>1
    <3> QED BY <1>2, <3>1 DEF Fresh
  <2> QED BY <1>1, <1>5, <2>1 DEF ReportInv, FreshInv
<1> QED BY <1>3, <1>4, <1>8, <1>9 DEF ReportInv

\* Counting the lines changes nothing a report depends on.
LEMMA CountLinesReports ==
  ASSUME IInv, ReportInv, NEW w \in Writers, CountLines(w)
  PROVE  ReportInv'
<1> DEFINE b == writer[w]
<1>1. /\ TypeOK /\ b.pc = "next" /\ b \in WriterStates
      /\ writer \in [Writers -> WriterStates]
      /\ UNCHANGED <<log, ends, packets, completed, batches, crashes>>
  BY DEF IInv, TypeOK, CountLines
<1>2. PICK t \in b.records :
        writer' = [writer EXCEPT ![w].pc = "text", ![w].type = t,
                                 ![w].records = @ \ {t},
                                 ![w].line = LineCount + 1, ![w].seen = Len(log)]
  BY DEF CountLines
<1> DEFINE c == [b EXCEPT !.pc = "text", !.type = t, !.records = @ \ {t},
                          !.line = LineCount + 1, !.seen = Len(log)]
<1>3. writer' = [writer EXCEPT ![w] = c]
  BY <1>1, <1>2
<1>4. /\ c.pc = "text" /\ c.no = b.no /\ c.event = b.event
      /\ c.records = b.records \ {t} /\ c.packets = b.packets
  BY <1>1 DEF WriterStates
<1>5. /\ Fresh(b, log, packets) /\ b.no <= batches /\ b.event \in Events
      /\ b.records \subseteq RecordsOf(b.event)
  <2>1. Progress(b, log)
    BY DEF IInv, ProgressInv
  <2>2. Fresh(b, log, packets) /\ b.no <= batches /\ b.event \in Events
    BY <1>1, StateFields DEF ReportInv, FreshInv, NumberInv
  <2> HIDE DEF b
  <2> QED BY <1>1, <2>1, <2>2 DEF Progress
<1> HIDE DEF b, c
<1>6. Single(b.event) => c.records = {}
  BY <1>2, <1>4, <1>5 DEF Single, RecordsOf
<1>7. ASSUME NEW k \in Figures PROVE Gain(c, k) = Gain(b, k)
  <2>1. ~JournalDone(c) /\ ~JournalDone(b) /\ (PacketsDone(c) <=> PacketsDone(b))
    BY <1>1, <1>2, <1>4 DEF JournalDone, PacketsDone
  <2> QED BY <1>4, <2>1 DEF Gain, Num, HalfDone
<1>8. IsFiniteSet(Busy') /\ \A k \in Figures : UnderWay(k)' = UnderWay(k)
  <2>1. /\ IsFiniteSet(Busy')
        /\ \A k \in Figures : UnderWay(k)' = UnderWay(k) + Gain(c, k) - Gain(b, k)
    BY <1>1, <1>3, Moves DEF b
  <2>2. ASSUME NEW k \in Figures PROVE UnderWay(k)' = UnderWay(k)
    <3>1. UnderWay(k) \in Nat /\ Gain(b, k) \in {0, 1, 2}
      BY <1>1, Sizes, GainIsSmall
    <3>2. UnderWay(k)' = UnderWay(k) + Gain(c, k) - Gain(b, k) /\ Gain(c, k) = Gain(b, k)
      BY <1>7, <2>1
    <3> QED BY <3>1, <3>2
  <2> QED BY <2>1, <2>2
<1>9. FiguresInv'
  BY <1>1, <1>8 DEF ReportInv, FiguresInv, Items, JournalItems, PacketItems, Positions
<1>10. Fresh(c, log', packets')
  <2>1. b.records # {} /\ b.pc # "idle"
    BY <1>1, <1>2
  <2> QED BY <1>1, <1>4, <1>5, <1>6, <2>1 DEF Fresh
<1>11. NumberInv' /\ FreshInv'
  <2>1. /\ writer[w].pc # "idle" /\ c.no <= batches
        /\ c.no = writer[w].no
    BY <1>1, <1>4, <1>5 DEF b
  <2> QED BY <1>1, <1>3, <1>10, <2>1, Apart
<1> QED BY <1>8, <1>9, <1>11 DEF ReportInv

\* What a process goes on with is not in the files, if neither its packet nor the
\* only record of its event is.
LEMMA LeftFresh ==
  ASSUME NEW b \in WriterStates, NEW l, NEW q, batches \in Nat, b.no <= batches,
         b.packets # {} => \A p \in 1..Len(q) : q[p].batch # b.no,
         Single(b.event) /\ b.records # {} =>
           \A p \in 1..Len(l) : l[p].batch # b.no
  PROVE  /\ Fresh(Left(b), l, q) /\ Left(b).no <= batches
         /\ Left(b).pc # "idle" => Left(b).no = b.no
<1>1. CASE Finished(b)
  <2>1. Left(b).pc = "idle" /\ Left(b).no = 0
    BY <1>1, LeftOf
  <2> QED BY <2>1 DEF Fresh
<1>2. CASE ~Finished(b)
  <2> DEFINE c == Left(b)
  <2>1. /\ c.pc = "next" /\ c.no = b.no /\ c.event = b.event
        /\ c.records = b.records /\ c.packets = b.packets
    BY <1>2, LeftOf
  <2> HIDE DEF c
  <2> QED BY <2>1 DEF Fresh, c
<1> QED BY <1>1, <1>2

\* A record written adds to its figures what its process then has there.
LEMMA WriteReports ==
  ASSUME IInv, ReportInv, NEW w \in Writers, WriteLine(w) \/ WriteText(w)
  PROVE  ReportInv'
<1> DEFINE b == writer[w]
<1>1. /\ TypeOK /\ b.pc = "text" /\ log' = Append(log, NextRecord(w))
      /\ UNCHANGED <<packets, batches, crashes>> /\ b \in WriterStates
      /\ batches \in Nat /\ completed \in [Events -> Nat]
  BY AuditAssumption DEF IInv, TypeOK, WriteLine, WriteText
<1>2. NextRecord(w).batch = writer[w].no
  <2>1. writer[w].no # 0 /\ writer[w].type \in RecordTypes
    BY <1>1, HasRecord
  <2> QED BY <1>1, <2>1, ArtifactTyped DEF NextRecord
<1>3. /\ Fresh(b, log, packets) /\ b.no <= batches /\ b.event \in Events
      /\ b.packets # {} => \A p \in 1..Len(packets) : packets[p].batch # b.no
      /\ Single(b.event) => b.records = {}
  <2>1. Fresh(b, log, packets) /\ b.no <= batches /\ b.event \in Events
    BY <1>1, StateFields DEF ReportInv, FreshInv, NumberInv
  <2> HIDE DEF b
  <2> QED BY <1>1, <2>1 DEF Fresh
<1>4. ASSUME NEW k \in Figures
      PROVE  /\ b.event \in BothOf(k) => b.records = {}
             /\ Gain(b, k) =
                  Num(b.packets = {} /\ b.event \in BothOf(k) \cup PacketOf(k))
  <2>1. b.event \in BothOf(k) => b.records = {}
    BY <1>3, FigureEvents
  <2>2. ~HalfDone(b, "journal", k)
    BY <1>1 DEF HalfDone, JournalDone
  <2>3. HalfDone(b, "packets", k)
          <=> b.packets = {} /\ b.event \in BothOf(k) \cup PacketOf(k)
    BY <1>1 DEF HalfDone, PacketsDone
  <2> QED BY <2>1, <2>2, <2>3 DEF Gain, Num
<1>5. PICK c : /\ writer' = [writer EXCEPT ![w] = c]
               /\ c.no <= batches /\ (c.pc # "idle" => c.no = b.no)
               /\ Fresh(c, log', packets)
               /\ \A k \in Figures :
                    /\ Due(k, completed') \in Nat
                    /\ Due(k, completed') + Gain(c, k) =
                         Due(k, completed) + Gain(b, k)
                           + Num(b.event \in BothOf(k))
  <2>1. CASE WriteLine(w)
    <3>1. Proceed(w, b) /\ writer' = [writer EXCEPT ![w] = Left(b)]
      BY <2>1 DEF WriteLine, Return, Proceed
    <3> HIDE DEF b
    <3>2. /\ Left(b).no <= batches /\ (Left(b).pc # "idle" => Left(b).no = b.no)
          /\ Fresh(Left(b), log', packets)
      BY <1>1, <1>3, LeftFresh
    <3>3. ASSUME NEW k \in Figures
          PROVE  /\ Due(k, completed') \in Nat
                 /\ Due(k, completed') + Gain(Left(b), k) =
                      Due(k, completed) + Gain(b, k) + Num(b.event \in BothOf(k))
      <4>1. /\ Due(k, completed') + Gain(Left(b), k)
                 = Due(k, completed) + Part(b, k)
            /\ Due(k, completed') \in Nat /\ Due(k, completed) \in Nat
        BY <1>1, <3>1, LeftGain
      <4>2. Num(b.records = {} /\ b.event \in BothOf(k)) = Num(b.event \in BothOf(k))
        BY <1>4 DEF Num
      <4>3. Part(b, k) = Num(b.event \in BothOf(k)) + Gain(b, k)
        BY <1>4, <4>2 DEF Part
      <4>4. Num(b.event \in BothOf(k)) \in {0, 1} /\ Gain(b, k) \in {0, 1, 2}
        BY GainIsSmall DEF Num
      <4> QED BY <4>1, <4>3, <4>4
    <3> QED BY <3>1, <3>2, <3>3
  <2>2. CASE WriteText(w)
    <3> DEFINE c == [b EXCEPT !.pc = "newline", !.pos = Len(log) + 1]
    <3>1. writer' = [writer EXCEPT ![w] = c] /\ completed' = completed
      BY <1>1, <2>2 DEF WriteText, TypeOK
    <3>2. /\ c.pc = "newline" /\ c.no = b.no /\ c.event = b.event
          /\ c.records = b.records /\ c.packets = b.packets
      BY <1>1 DEF WriterStates
    <3> HIDE DEF b, c
    <3>3. Fresh(c, log', packets)
      BY <1>3, <3>2 DEF Fresh
    <3>4. ASSUME NEW k \in Figures
          PROVE  /\ Due(k, completed') \in Nat
                 /\ Due(k, completed') + Gain(c, k) =
                      Due(k, completed) + Gain(b, k) + Num(b.event \in BothOf(k))
      <4>1. /\ HalfDone(c, "journal", k) <=> b.event \in BothOf(k)
            /\ HalfDone(c, "packets", k)
                 <=> b.packets = {} /\ b.event \in BothOf(k) \cup PacketOf(k)
        BY <3>2 DEF HalfDone, JournalDone, PacketsDone
      <4>2. Num(HalfDone(c, "journal", k)) = Num(b.event \in BothOf(k))
            /\ Num(HalfDone(c, "packets", k)) = Gain(b, k)
        BY <1>4, <4>1 DEF Num
      <4>3. Gain(c, k) = Num(b.event \in BothOf(k)) + Gain(b, k)
        BY <4>2 DEF Gain
      <4>4. Num(b.event \in BothOf(k)) \in {0, 1} /\ Gain(b, k) \in {0, 1, 2}
            /\ Due(k, completed) \in Nat
        BY <1>1, <1>3, GainIsSmall, DueAdds DEF Num
      <4> QED BY <3>1, <4>3, <4>4
    <3> QED BY <1>3, <3>1, <3>2, <3>3, <3>4
  <2> QED BY <2>1, <2>2 DEF WriteLine, WriteText
<1>6. NumberInv' /\ FreshInv'
  <2>1. \E x : x.batch = writer[w].no /\ log' = Append(log, x)
    BY <1>1, <1>2
  <2>2. Fresh(c, log', packets') /\ packets' = packets /\ batches' = batches
        /\ writer[w].pc # "idle" /\ c.no <= batches
        /\ (c.pc # "idle" => c.no = writer[w].no)
    BY <1>1, <1>5
  <2> QED BY <1>5, <2>1, <2>2, Apart
<1>7. /\ IsFiniteSet(Busy')
      /\ \A k \in Figures : UnderWay(k)' = UnderWay(k) + Gain(c, k) - Gain(b, k)
  BY <1>1, <1>5, Moves
<1>8. ASSUME NEW k \in Figures
      PROVE  Balances(k)
  <2> DEFINE i == Num(b.event \in BothOf(k))
             h == Gain(c, k) - Gain(b, k)
             d == Due(k, completed') - Due(k, completed)
  <2>1. /\ IsFiniteSet(Items(k)')
        /\ Cardinality(Items(k)') = Cardinality(Items(k)) + i
    <3>1. Cardinality(Items(k)) \in Nat
      BY <1>1, Sizes
    <3>2. /\ IsFiniteSet(Items(k)')
          /\ Cardinality(Items(k)') =
               IF writer[w].event \in BothOf(k) THEN Cardinality(Items(k)) + 1
                                                ELSE Cardinality(Items(k))
      BY <1>1, RecordCounts
    <3> QED BY <3>1, <3>2 DEF Num
  <2>2. /\ Due(k, completed) \in Nat /\ Due(k, completed') \in Nat
        /\ UnderWay(k) \in Nat /\ i \in {0, 1}
        /\ Gain(c, k) \in {0, 1, 2} /\ Gain(b, k) \in {0, 1, 2}
    BY <1>1, <1>5, Sizes, GainIsSmall DEF Num
  <2>3. Due(k, completed') + Gain(c, k) = Due(k, completed) + Gain(b, k) + i
    BY <1>5
  <2>4. UnderWay(k)' = UnderWay(k) + Gain(c, k) - Gain(b, k)
    BY <1>7
  <2> HIDE DEF b, i
  <2>5. /\ i \in Int /\ d \in Int /\ h \in Int /\ i = d + h
        /\ Due(k, completed') = Due(k, completed) + d
        /\ UnderWay(k)' = UnderWay(k) + h
    BY <2>2, <2>3, <2>4
  <2> HIDE DEF d, h
  <2> QED BY <1>1, <2>1, <2>5 DEF Balances
<1>9. FiguresInv'
  BY <1>1, <1>8, Balanced
<1> QED BY <1>6, <1>7, <1>9 DEF ReportInv

\* Its newline adds nothing.
LEMMA NewlineReports ==
  ASSUME IInv, ReportInv, NEW w \in Writers, WriteNewline(w)
  PROVE  ReportInv'
<1> DEFINE b == writer[w]
<1>1. /\ TypeOK /\ b.pc = "newline" /\ Proceed(w, b) /\ b \in WriterStates
      /\ batches \in Nat /\ completed \in [Events -> Nat]
      /\ UNCHANGED <<log, packets, batches, crashes>>
  BY AuditAssumption DEF IInv, TypeOK, WriteNewline, Return
<1>2. /\ Fresh(b, log, packets) /\ b.no <= batches /\ b.event \in Events
      /\ b.packets # {} => \A p \in 1..Len(packets) : packets[p].batch # b.no
      /\ Single(b.event) => b.records = {}
  <2>1. Fresh(b, log, packets) /\ b.no <= batches /\ b.event \in Events
    BY <1>1, StateFields DEF ReportInv, FreshInv, NumberInv
  <2> HIDE DEF b
  <2> QED BY <1>1, <2>1 DEF Fresh
<1>3. writer' = [writer EXCEPT ![w] = Left(b)]
  BY <1>1 DEF Proceed
<1>4. writer[w].pc # "idle" /\ b = writer[w]
  BY <1>1
<1> HIDE DEF b
<1>5. /\ Left(b).no <= batches /\ (Left(b).pc # "idle" => Left(b).no = b.no)
      /\ Fresh(Left(b), log', packets')
  BY <1>1, <1>2, LeftFresh
<1>6. NumberInv' /\ FreshInv'
  BY <1>1, <1>3, <1>4, <1>5, Apart
<1>7. /\ IsFiniteSet(Busy')
      /\ \A k \in Figures :
           UnderWay(k)' = UnderWay(k) + Gain(Left(b), k) - Gain(b, k)
  BY <1>1, <1>3, <1>4, Moves
<1>8. ASSUME NEW k \in Figures
      PROVE  Balances(k)
  <2>1. Gain(b, k) = Part(b, k)
    <3>1. b.event \in BothOf(k) => b.records = {}
      BY <1>2, FigureEvents
    <3>2. /\ HalfDone(b, "journal", k)
               <=> b.records = {} /\ b.event \in BothOf(k)
          /\ HalfDone(b, "packets", k)
               <=> b.packets = {} /\ b.event \in BothOf(k) \cup PacketOf(k)
      BY <1>1, <3>1 DEF HalfDone, JournalDone, PacketsDone
    <3> QED BY <3>2 DEF Gain, Part, Num
  <2>2. /\ Due(k, completed') + Gain(Left(b), k) = Due(k, completed) + Part(b, k)
        /\ Due(k, completed) \in Nat /\ Due(k, completed') \in Nat
    BY <1>1, LeftGain
  <2>3. Items(k)' = Items(k) /\ IsFiniteSet(Items(k))
        /\ Cardinality(Items(k)) \in Nat /\ UnderWay(k) \in Nat
        /\ Gain(b, k) \in {0, 1, 2} /\ Gain(Left(b), k) \in {0, 1, 2}
    BY <1>1, Sizes, GainIsSmall
       DEF Items, JournalItems, PacketItems, Positions
  <2>4. UnderWay(k)' = UnderWay(k) + Gain(Left(b), k) - Gain(b, k)
    BY <1>7
  <2> DEFINE d == Due(k, completed') - Due(k, completed)
             h == Gain(Left(b), k) - Gain(b, k)
  <2>5. /\ d \in Int /\ h \in Int /\ 0 = d + h
        /\ Due(k, completed') = Due(k, completed) + d
        /\ UnderWay(k)' = UnderWay(k) + h
        /\ Cardinality(Items(k)') = Cardinality(Items(k)) + 0
    BY <2>1, <2>2, <2>3, <2>4
  <2> HIDE DEF d, h
  <2> QED BY <1>1, <2>3, <2>5 DEF Balances
<1>9. FiguresInv'
  BY <1>1, <1>8, Balanced
<1> QED BY <1>6, <1>7, <1>9 DEF ReportInv

\* A packet adds to the figures that count its event.
LEMMA PacketReports ==
  ASSUME IInv, ReportInv, NEW w \in Writers, WritePacket(w)
  PROVE  ReportInv'
<1> DEFINE b == writer[w]
<1>1. /\ TypeOK /\ b.pc = "next" /\ b \in WriterStates
      /\ batches \in Nat /\ completed \in [Events -> Nat]
      /\ UNCHANGED <<log, batches, crashes>>
  BY AuditAssumption DEF IInv, TypeOK, WritePacket, PacketReady
<1>2. PICK t \in b.packets :
        /\ packets' = Append(packets, Artifact(t, b))
        /\ Proceed(w, [b EXCEPT !.packets = @ \ {t}])
  BY DEF WritePacket
<1> DEFINE rest == [b EXCEPT !.packets = @ \ {t}]
<1>3. /\ rest.no = b.no /\ rest.event = b.event /\ rest.records = b.records
      /\ rest.packets = b.packets \ {t} /\ Artifact(t, b).batch = b.no
  BY <1>1 DEF WriterStates, Artifact
<1>4. rest \in WriterStates
  <2>1. b.packets \ {t} \in SUBSET PacketTypes
    BY <1>1, StateFields
  <2> HIDE DEF b
  <2> QED BY <1>1, <2>1 DEF WriterStates
<1>5. Proceed(w, rest) /\ writer' = [writer EXCEPT ![w] = Left(rest)]
  BY <1>2 DEF Proceed
<1>6. /\ Fresh(b, log, packets) /\ b.no <= batches /\ b.event \in Events
      /\ b.packets \subseteq ArtifactsOf(b.event).packets
  <2>1. Fresh(b, log, packets) /\ b.no <= batches /\ b.event \in Events
        /\ Progress(b, log)
    BY <1>1, StateFields DEF IInv, ProgressInv, ReportInv, FreshInv, NumberInv
  <2> HIDE DEF b
  <2> QED BY <1>1, <2>1 DEF Progress
<1>7. writer[w].pc # "idle" /\ b = writer[w]
  BY <1>1
<1> HIDE DEF b, rest
<1>8. rest.packets = {}
  BY <1>2, <1>3, <1>6, ArtifactTypes
<1>9. /\ Left(rest).no <= batches /\ (Left(rest).pc # "idle" => Left(rest).no = b.no)
      /\ Fresh(Left(rest), log', packets')
  <2>1. Single(rest.event) /\ rest.records # {} => \A p \in 1..Len(log) : log[p].batch # rest.no
    BY <1>1, <1>3, <1>6 DEF Fresh
  <2> QED BY <1>1, <1>3, <1>4, <1>6, <1>8, <2>1, LeftFresh
<1>10. NumberInv' /\ FreshInv'
  <2>1. \E x : x.batch = writer[w].no /\ packets' = Append(packets, x)
    BY <1>2, <1>3, <1>7
  <2> QED BY <1>1, <1>5, <1>7, <1>9, <2>1, Apart
<1>11. /\ IsFiniteSet(Busy')
       /\ \A k \in Figures :
            UnderWay(k)' = UnderWay(k) + Gain(Left(rest), k) - Gain(b, k)
  BY <1>1, <1>5, <1>7, Moves
<1>12. ASSUME NEW k \in Figures
      PROVE  Balances(k)
  <2> DEFINE i == Num(b.event \in BothOf(k) \cup PacketOf(k))
             j == Num(b.records = {} /\ b.event \in BothOf(k))
  <2>1. /\ IsFiniteSet(Items(k)')
        /\ Cardinality(Items(k)') = Cardinality(Items(k)) + i
    <3>1. Cardinality(Items(k)) \in Nat
      BY <1>1, Sizes
    <3>2. /\ IsFiniteSet(Items(k)')
          /\ Cardinality(Items(k)') =
               IF writer[w].event \in BothOf(k) \cup PacketOf(k)
               THEN Cardinality(Items(k)) + 1 ELSE Cardinality(Items(k))
      BY <1>1, <1>2, <1>7, PacketCounts
    <3> QED BY <1>7, <3>1, <3>2 DEF Num
  <2>2. Gain(b, k) = j
    <3>1. /\ HalfDone(b, "journal", k) <=> b.records = {} /\ b.event \in BothOf(k)
          /\ ~HalfDone(b, "packets", k)
      BY <1>1, <1>2 DEF HalfDone, JournalDone, PacketsDone
    <3> QED BY <3>1 DEF Gain, Num
  <2>3. Part(rest, k) = j + i
    BY <1>3, <1>8 DEF Part, Num
  <2>4. /\ Due(k, completed') + Gain(Left(rest), k) = Due(k, completed) + Part(rest, k)
        /\ Due(k, completed) \in Nat /\ Due(k, completed') \in Nat
    BY <1>1, <1>4, <1>5, LeftGain
  <2>5. /\ UnderWay(k) \in Nat /\ i \in {0, 1} /\ j \in {0, 1}
        /\ Gain(Left(rest), k) \in {0, 1, 2}
    BY <1>1, Sizes, GainIsSmall DEF Num
  <2>6. UnderWay(k)' = UnderWay(k) + Gain(Left(rest), k) - Gain(b, k)
    BY <1>11
  <2> HIDE DEF i, j
  <2> DEFINE d == Due(k, completed') - Due(k, completed)
             h == Gain(Left(rest), k) - Gain(b, k)
  <2>7. /\ i \in Int /\ d \in Int /\ h \in Int /\ i = d + h
        /\ Due(k, completed') = Due(k, completed) + d
        /\ UnderWay(k)' = UnderWay(k) + h
    BY <2>2, <2>3, <2>4, <2>5, <2>6
  <2> HIDE DEF d, h
  <2> QED BY <1>1, <2>1, <2>7 DEF Balances
<1>13. FiguresInv'
  BY <1>1, <1>12, Balanced
<1> QED BY <1>10, <1>11, <1>13 DEF ReportInv

\* A process killed leaves what it wrote, which is never due.
LEMMA CrashReports ==
  ASSUME IInv, ReportInv, NEW w \in Writers, Crash(w)
  PROVE  ReportInv'
<1>1. /\ TypeOK /\ writer[w].pc # "idle" /\ writer' = [writer EXCEPT ![w] = Idle]
      /\ crashes' = crashes + 1 /\ batches \in Nat
      /\ UNCHANGED <<log, packets, completed, batches>>
  BY AuditAssumption DEF IInv, TypeOK, Crash
<1>2. Idle.pc = "idle" /\ Idle.no = 0
  BY DEF Idle
<1>3. NumberInv' /\ FreshInv'
  <2>1. Fresh(Idle, log', packets') /\ 0 <= batches
    BY <1>1, <1>2 DEF Fresh
  <2> QED BY <1>1, <1>2, <2>1, Apart
<1>4. /\ IsFiniteSet(Busy')
      /\ \A k \in Figures :
           UnderWay(k)' = UnderWay(k) + Gain(Idle, k) - Gain(writer[w], k)
  BY <1>1, Moves
<1>5. ASSUME NEW k \in Figures
      PROVE  Balances(k)
  <2>1. Items(k)' = Items(k) /\ Due(k, completed') = Due(k, completed)
    BY <1>1 DEF Items, JournalItems, PacketItems, Positions
  <2>2. /\ IsFiniteSet(Items(k)) /\ Cardinality(Items(k)) \in Nat
        /\ Due(k, completed) \in Nat /\ UnderWay(k) \in Nat
        /\ Gain(Idle, k) = 0 /\ Gain(writer[w], k) \in {0, 1, 2}
    BY <1>1, <1>2, Sizes, GainIsSmall
  <2>3. UnderWay(k)' = UnderWay(k) + Gain(Idle, k) - Gain(writer[w], k)
    BY <1>4
  <2> DEFINE h == 0 - Gain(writer[w], k)
  <2>4. h \in {0, -1, -2} /\ h \in Int /\ UnderWay(k)' = UnderWay(k) + h
    BY <2>2, <2>3
  <2> HIDE DEF h
  <2>5. /\ Cardinality(Items(k)') = Cardinality(Items(k)) + 0
        /\ Due(k, completed') = Due(k, completed) + 0
    BY <2>1, <2>2
  <2> QED BY <1>1, <2>1, <2>2, <2>4, <2>5 DEF Balances
<1>6. FiguresInv'
  BY <1>1, <1>5, Balanced
<1> QED BY <1>3, <1>4, <1>6 DEF ReportInv

\* At the start nothing is counted and nothing is due.
LEMMA InitReports == Init => ReportInv
<1> SUFFICES ASSUME Init PROVE ReportInv
  OBVIOUS
<1>1. \A w \in Writers : writer[w].pc = "idle" /\ writer[w].no = 0
  BY DEF Init, Idle
<1>2. Busy = {} /\ \A file, k : Halfway(file, k) = {}
  BY <1>1 DEF Busy, Halfway, HalfDone, JournalDone, PacketsDone
<1>3. \A k : Items(k) = {}
  BY DEF Init, Items, JournalItems, PacketItems, Positions
<1>4. \A k \in Figures : Due(k, completed) = 0
  <2>1. {"restart", "verdict", "veto", "mismatch", "freeze", "kill", "flatten"}
          \subseteq Events
    BY DEF Events, Evaluated, Commanded
  <2>2. /\ completed["restart"] = 0 /\ completed["verdict"] = 0
        /\ completed["veto"] = 0 /\ completed["mismatch"] = 0
        /\ completed["freeze"] = 0 /\ completed["kill"] = 0
        /\ completed["flatten"] = 0
    BY <2>1 DEF Init
  <2>3. /\ Due("restarts", completed) = 0 /\ Due("riskDecisions", completed) = 0
        /\ Due("mismatches", completed) = 0 /\ Due("incidents", completed) = 0
    BY <2>2 DEF Due
  <2> QED BY <2>3 DEF Figures
<1>5. FiguresInv
  <2>1. ASSUME NEW k \in Figures
        PROVE  /\ Cardinality(Items(k)) = 0 /\ IsFiniteSet(Items(k))
               /\ UnderWay(k) = 0 /\ Due(k, completed) = 0
    BY <1>2, <1>3, <1>4, FS_EmptySet DEF UnderWay
  <2>2. crashes = 0
    BY DEF Init
  <2> QED BY <2>1, <2>2 DEF FiguresInv
<1>6. NumberInv /\ FreshInv
  BY <1>1, <1>2 DEF Init, NumberInv, FreshInv, Fresh, Positions
<1> QED BY <1>2, <1>5, <1>6, FS_EmptySet DEF ReportInv

\* Every step keeps the balance of the report.
LEMMA StepReports == IInv /\ ReportInv /\ [Next]_vars => ReportInv'
<1> SUFFICES ASSUME IInv, ReportInv, [Next]_vars PROVE ReportInv'
  OBVIOUS
<1>1. CASE Tick \/ UNCHANGED vars
  <2>1. UNCHANGED <<log, packets, writer, completed, batches, crashes>>
    BY <1>1 DEF Tick, vars
  <2> QED BY <2>1 DEF ReportInv, FiguresInv, NumberInv, FreshInv, Busy, UnderWay,
                      Halfway, Items, JournalItems, PacketItems, Positions
<1>2. ASSUME NEW w \in Writers,
             \/ Bootstrap(w)
             \/ \E d \in Decisions :
                  \/ \E e \in Decided : Decide(w, d, e)
                  \/ \E e \in Evaluated : Evaluate(w, d, e)
             \/ \E e \in Commands \cup {"mismatch"} : Control(w, e)
      PROVE  ReportInv'
  <2>1. \E e \in Events : \E time, subject : Begin(w, e, time, subject)
    BY <1>2, AuditAssumption DEF Bootstrap, Decide, Evaluate, Control, Events, Commanded
  <2> QED BY <2>1, BeginReports
<1>3. ASSUME NEW w \in Writers, CountLines(w) PROVE ReportInv'
  BY <1>3, CountLinesReports
<1>4. ASSUME NEW w \in Writers, WriteLine(w) \/ WriteText(w) PROVE ReportInv'
  BY <1>4, WriteReports
<1>5. ASSUME NEW w \in Writers, WriteNewline(w) PROVE ReportInv'
  BY <1>5, NewlineReports
<1>6. ASSUME NEW w \in Writers, WritePacket(w) PROVE ReportInv'
  BY <1>6, PacketReports
<1>7. ASSUME NEW w \in Writers, Crash(w) PROVE ReportInv'
  BY <1>7, CrashReports
<1> QED BY <1>1, <1>2, <1>3, <1>4, <1>5, <1>6, <1>7 DEF Next

\* The daily report counts a restart, a verdict and a mismatch twice, every
\* other incident once, and a batch under way or cut short no more often, for any
\* number of processes that append in any order and may be killed between any
\* two writes.
THEOREM ReportIsRight == Spec => []ReportCounts
<1>1. IInv /\ ReportInv => ReportCounts
  <2> SUFFICES ASSUME IInv, ReportInv PROVE ReportCounts
    OBVIOUS
  <2>1. TypeOK
    BY DEF IInv
  <2>2. Timeline(0, MaxTime) = JournalItems \cup PacketItems
    <3>1. /\ \A p \in Positions : log[p].time \in 0..MaxTime
          /\ \A p \in 1..Len(packets) : packets[p].time \in 0..MaxTime
      <4>1. /\ \A p \in Positions : log[p] \in Artifacts(RecordTypes)
            /\ \A p \in 1..Len(packets) : packets[p] \in Artifacts(PacketTypes)
        BY <2>1 DEF TypeOK, Positions
      <4> QED BY <4>1 DEF Artifacts
    <3>2. \A i \in JournalItems \cup PacketItems : i.of.time \in 0..MaxTime
      <4>1. \A p \in Positions : [kind |-> "journal", of |-> log[p]].of = log[p]
        OBVIOUS
      <4>2. \A p \in 1..Len(packets) :
              [kind |-> "event_packet", of |-> packets[p]].of = packets[p]
        OBVIOUS
      <4> QED BY <3>1, <4>1, <4>2 DEF JournalItems, PacketItems
    <3> QED BY <3>2 DEF Timeline, Matches
  <2>3. \A k \in Figures : Cardinality(Items(k)) = CountOf(TypesOf(k))
    BY <2>2 DEF Items, CountOf
  <2>4. ASSUME NEW k \in Figures
        PROVE  /\ Due(k, completed) <= CountOf(TypesOf(k))
               /\ CountOf(TypesOf(k)) <= Due(k, completed) + 2 * Unfinished
    <3> DEFINE n == Cardinality(Items(k))
               u == Due(k, completed)
               m == UnderWay(k)
               s == Cardinality(Busy)
    <3>1. /\ n \in Nat /\ u \in Nat /\ m \in Nat /\ s \in Nat /\ crashes \in Nat
          /\ m <= 2 * s /\ u + m <= n /\ n <= u + m + 2 * crashes
      BY <2>1, Sizes
    <3>2. Unfinished = s + crashes
      BY DEF Unfinished, Busy
    <3> HIDE DEF n, u, m, s
    <3>3. u <= n /\ n <= u + 2 * (s + crashes)
      BY <3>1
    <3> QED BY <2>3, <3>2, <3>3 DEF n, u
  <2>5. /\ TypesOf("restarts") = {"restart"}
        /\ TypesOf("riskDecisions") = RiskDecisionTypes
        /\ TypesOf("mismatches") = {"mismatch", "reconciliation_mismatch"}
        /\ TypesOf("incidents") = IncidentTypes
    BY DEF TypesOf
  <2>6. /\ Due("restarts", completed) = 2 * completed["restart"]
        /\ Due("riskDecisions", completed)
             = 2 * (completed["verdict"] + completed["veto"])
        /\ Due("mismatches", completed) = 2 * completed["mismatch"]
        /\ Due("incidents", completed)
             = completed["veto"] + completed["freeze"] + completed["kill"]
                 + completed["flatten"] + 2 * completed["mismatch"]
    BY DEF Due
  <2>7. {"restarts", "riskDecisions", "mismatches", "incidents"} = Figures
    BY DEF Figures
  <2>8. /\ Summary.restarts = CountOf({"restart"})
        /\ Summary.riskDecisions = CountOf(RiskDecisionTypes)
        /\ Summary.mismatches = CountOf({"mismatch", "reconciliation_mismatch"})
        /\ Summary.incidents = CountOf(IncidentTypes)
    BY DEF Summary
  <2> QED BY <2>4, <2>5, <2>6, <2>7, <2>8 DEF ReportCounts
<1>2. Init => ReportInv
  BY InitReports
<1>3. IInv /\ ReportInv /\ [Next]_vars => ReportInv'
  BY StepReports
<1>4. Spec => []ReportInv
  BY <1>2, <1>3, Inductive, PTL DEF Spec
<1> QED BY <1>1, <1>4, Inductive, PTL
=============================================================================

----------------------------- MODULE AuditTrail -----------------------------
(***************************************************************************)
(* The audit files of paper mode: a journal of records (libs/journal) and  *)
(* a file of event packets (libs/event_packets), appended by processes     *)
(* that share no lock and may be killed, and read back by                  *)
(* scripts/replay_event_packets.py and scripts/emit_daily_report.py.       *)
(*                                                                         *)
(* A file is the sequence of texts written to it and the set of positions  *)
(* after which a newline was written; a blank line, which every reader     *)
(* skips, is not represented.                                              *)
(***************************************************************************)
EXTENDS Naturals, Sequences, FiniteSets

CONSTANTS
  Writers,      \* processes that append
  Decisions,    \* decision ids: strategy snapshots that are decided
  Commands,     \* control events that are issued
  Long,         \* types of journal records longer than the write buffer
  MaxTime,      \* bound on the clock
  MaxBatches,   \* bound on the batches of artifacts appended
  MaxCrashes    \* bound on the writers killed

NoDecision == "none"   \* the subject of artifacts that are about no decision

ASSUME AuditAssumption ==
  /\ NoDecision \notin Decisions
  /\ Commands \subseteq {"freeze", "kill", "unfreeze", "flatten_command",
                    "flatten"}
  /\ MaxTime \in Nat /\ MaxBatches \in Nat /\ MaxCrashes \in Nat

VARIABLES
  log, ends,    \* the journal: its texts, and where lines end
  packets,      \* the packet file
  writer,       \* writer[w]: the batch a process appends, and how far it is
  returned,     \* the line numbers JournalWriter.append returned
  decided,      \* decided[d]: the output of decision d and its time
  completed,    \* completed[e]: batches of event e appended whole
  now, batches, crashes

vars == <<log, ends, packets, writer, returned, decided, completed,
          now, batches, crashes>>

-----------------------------------------------------------------------------
(* Packet builders and the artifacts each event leaves.                    *)

ProposalPacket(rejected) ==
  IF rejected THEN "proposal_rejected" ELSE "proposal_generated"
RiskDecisionPacket(allowed) == IF allowed THEN "risk_decision" ELSE "risk_veto"
FreezePacket(kill) == IF kill THEN "kill_switch_activated" ELSE "risk_freeze"
RestartPacket      == "restart"
FlattenPacket      == "flatten_requested"
MismatchPacket     == "reconciliation_mismatch"

\* bootstrap_paper_runtime.
RestartArtifacts ==
  [source |-> "paper_runtime", records |-> {"restart"},
   packets |-> {RestartPacket}]

\* build_decision_audit_artifacts.
DecisionArtifacts(e) ==
  [source |-> "decision_engine",
   records |-> {"proposal_input", "proposal_output"},
   packets |-> {ProposalPacket(e = "no_trade")}]

\* audit_evaluation.
EvaluationArtifacts(e) ==
  [source |-> "supervisor", records |-> {"risk_decision"},
   packets |-> {RiskDecisionPacket(e = "verdict")}]

\* control_command_audit_artifacts: the record is named for the state after the
\* command, the packet for the command.  "flatten_command" is the flatten
\* request given as a command, which has no packet either.
CommandArtifacts(e) ==
  [source |-> "supervisor",
   records |-> {IF e = "unfreeze" THEN "supervisor_action" ELSE "freeze"},
   packets |-> IF e \in {"freeze", "kill"} THEN {FreezePacket(e = "kill")}
               ELSE {}]

\* flatten_workflow_audit_artifacts.
FlattenArtifacts ==
  [source |-> "supervisor", records |-> {"supervisor_action"},
   packets |-> {FlattenPacket}]

\* reconciliation_audit_artifacts of a report with mismatches.
MismatchArtifacts ==
  [source |-> "supervisor", records |-> {"mismatch"},
   packets |-> {MismatchPacket}]

Decided   == {"proposal", "no_trade"}
Evaluated == {"verdict", "veto"}
Commanded == {"freeze", "kill", "unfreeze", "flatten_command"}
Events == Decided \cup Evaluated \cup Commanded
            \cup {"restart", "flatten", "mismatch"}

ArtifactsOf(e) ==
  CASE e = "restart"    -> RestartArtifacts
    [] e \in Decided    -> DecisionArtifacts(e)
    [] e \in Evaluated  -> EvaluationArtifacts(e)
    [] e \in Commanded  -> CommandArtifacts(e)
    [] e = "flatten"    -> FlattenArtifacts
    [] e = "mismatch"   -> MismatchArtifacts

\* What readers use of an artifact of batch b; the batch stands for its ids
\* and its payload.
Artifact(type, b) ==
  [type |-> type, source |-> ArtifactsOf(b.event).source, time |-> b.time,
   batch |-> b.no, event |-> b.event, subject |-> b.subject]

-----------------------------------------------------------------------------
(* The files.                                                              *)

Positions == 1..Len(log)

\* _existing_line_count: non-blank lines, the unfinished last one included.
LineCount ==
  Cardinality(ends) + (IF Len(log) \in {0} \cup ends THEN 0 ELSE 1)

\* The line on which the text at position p stands.
LineOf(p) == Cardinality({i \in ends : i < p}) + 1

\* read_journal_records raises on a line of two texts: it is not JSON.
Glued == {p \in Positions : p > 1 /\ p - 1 \notin ends}
Readable == Glued = {}

-----------------------------------------------------------------------------
(* Replay: items are ordered by time, journal before packets, source and   *)
(* type, as strings.  Entity ids, the last part of the key, order only     *)
(* artifacts of the same type of different decisions or commands.          *)

SourceRank == [decision_engine |-> 1, paper_runtime |-> 2, supervisor |-> 3]

TypeRank ==
  [flatten_requested |-> 1, freeze |-> 2, kill_switch_activated |-> 3,
   mismatch |-> 4, proposal_generated |-> 5, proposal_input |-> 6,
   proposal_output |-> 7, proposal_rejected |-> 8,
   reconciliation_mismatch |-> 9, restart |-> 10, risk_decision |-> 11,
   risk_freeze |-> 12, risk_veto |-> 13, supervisor_action |-> 14]

\* Fault: the kind of an item is left out of the key.
SortKeyWithoutKind(i) ==
  <<i.of.time, SourceRank[i.of.source], TypeRank[i.of.type], 0>>

\* _sort_key.
SortKey(i) ==
  <<i.of.time, IF i.kind = "journal" THEN 0 ELSE 1,
    SourceRank[i.of.source], TypeRank[i.of.type]>>

\* The replay shows item a before item b.
ShownBefore(a, b) ==
  LET x == SortKey(a)
      y == SortKey(b)
  IN \E i \in 1..4 : x[i] < y[i] /\ \A j \in 1..i-1 : x[j] = y[j]

JournalItems == {[kind |-> "journal", of |-> log[p]] : p \in Positions}
PacketItems  ==
  {[kind |-> "event_packet", of |-> packets[p]] : p \in 1..Len(packets)}

\* _matches_filters, for a range of time; both bounds are inclusive.
Matches(i, lo, hi) == i.of.time \in lo..hi

\* build_replay_timeline.
Timeline(lo, hi) == {i \in JournalItems \cup PacketItems : Matches(i, lo, hi)}

-----------------------------------------------------------------------------
(* The daily report counts the items of the timeline by type, records and  *)
(* packets together.                                                       *)

CountOf(types) ==
  Cardinality({i \in Timeline(0, MaxTime) : i.of.type \in types})

RiskDecisionTypes == {"risk_decision", "risk_veto"}

IncidentTypes ==
  {"flatten_requested", "kill_switch_activated", "mismatch",
   "reconciliation_mismatch", "risk_freeze", "risk_veto"}

\* Fault: the journal's freeze records are incidents too.
SummaryOfFreezes ==
  [restarts      |-> CountOf({"restart"}),
   riskDecisions |-> CountOf(RiskDecisionTypes),
   mismatches    |-> CountOf({"mismatch", "reconciliation_mismatch"}),
   incidents     |-> CountOf(IncidentTypes \cup {"freeze"})]

\* _summary_from_timeline, of the whole run.
Summary ==
  [restarts      |-> CountOf({"restart"}),
   riskDecisions |-> CountOf(RiskDecisionTypes),
   mismatches    |-> CountOf({"mismatch", "reconciliation_mismatch"}),
   incidents     |-> CountOf(IncidentTypes)]

-----------------------------------------------------------------------------
(* Batches.  A process takes one batch at a time to the files.  Only        *)
(* bootstrap_paper_runtime says in which order; whoever appends the other   *)
(* artifacts is free to.                                                    *)

Idle == [pc |-> "idle", no |-> 0, event |-> "restart", time |-> 0,
         subject |-> NoDecision, records |-> {}, packets |-> {},
         type |-> "restart", line |-> 0, seen |-> 0, pos |-> 0]

Init ==
  /\ log = <<>> /\ ends = {} /\ packets = <<>>
  /\ writer = [w \in Writers |-> Idle]
  /\ returned = {}
  /\ decided = [d \in Decisions |-> [output |-> "undecided", time |-> 0]]
  /\ completed = [e \in Events |-> 0]
  /\ now = 0 /\ batches = 0 /\ crashes = 0

\* Process w sets out to append the artifacts of event e, stamped time.
Begin(w, e, time, subject) ==
  /\ writer[w].pc = "idle"
  /\ batches < MaxBatches
  /\ batches' = batches + 1
  /\ writer' = [writer EXCEPT ![w] =
       [pc |-> "next", no |-> batches + 1, event |-> e, time |-> time,
        subject |-> subject, records |-> ArtifactsOf(e).records,
        packets |-> ArtifactsOf(e).packets, type |-> "restart",
        line |-> 0, seen |-> 0, pos |-> 0]]
  /\ UNCHANGED <<log, ends, packets, returned, completed, now, crashes>>

\* bootstrap_paper_runtime, run again at every start of the stack.
Bootstrap(w) == Begin(w, "restart", now, NoDecision) /\ UNCHANGED decided

\* build_decision_audit_artifacts: input and output carry the snapshot's time.
\* The same snapshot decided again gives the same artifacts.
Decide(w, d, e) ==
  LET known == decided[d].output # "undecided"
      time  == IF known THEN decided[d].time ELSE now
  IN /\ known => decided[d].output = e
     /\ Begin(w, e, time, d)
     /\ decided' = [decided EXCEPT ![d] = [output |-> e, time |-> time]]

\* Fault: the verdict is stamped with the time it is given.
EvaluateNow(w, d, e) ==
  /\ decided[d].output = "proposal"
  /\ Begin(w, e, now, d)
  /\ UNCHANGED decided

\* audit_evaluation: the verdict carries the proposal's time, not its own.
Evaluate(w, d, e) ==
  /\ decided[d].output = "proposal"
  /\ Begin(w, e, decided[d].time, d)
  /\ UNCHANGED decided

\* The artifacts of a control command, a flatten request or a reconciliation.
Control(w, e) == Begin(w, e, now, NoDecision) /\ UNCHANGED decided

\* What is left of a batch with nothing or something still to be appended.
Finished(b) == b.records = {} /\ b.packets = {}
Left(b) ==
  IF Finished(b) THEN Idle
  ELSE [Idle EXCEPT !.pc = "next", !.no = b.no, !.event = b.event,
                    !.time = b.time, !.subject = b.subject,
                    !.records = b.records, !.packets = b.packets]

\* Process w, its batch being b by now, goes on to the rest of it.
Proceed(w, b) ==
  /\ writer' = [writer EXCEPT ![w] = Left(b)]
  /\ completed' = IF Finished(b) THEN [completed EXCEPT ![b.event] = @ + 1]
                                  ELSE completed

\* JournalWriter.append of a record, before it opens the file: size and line
\* count.
CountLines(w) ==
  /\ writer[w].pc = "next"
  /\ \E t \in writer[w].records :
       writer' = [writer EXCEPT ![w].pc = "text", ![w].type = t,
                                ![w].records = @ \ {t},
                                ![w].line = LineCount + 1, ![w].seen = Len(log)]
  /\ UNCHANGED <<log, ends, packets, returned, decided, completed, now,
                 batches, crashes>>

NextRecord(w) == Artifact(writer[w].type, writer[w])

\* The writer is done with a record: append returns its metadata.
Return(w, pos) ==
  /\ returned' = returned \cup {[pos |-> pos, line |-> writer[w].line,
                                 seen |-> writer[w].seen]}
  /\ Proceed(w, writer[w])

\* Fault: the newline of every record goes to the file by itself.
WriteLineInTwo(w) ==
  /\ writer[w].pc = "text"
  /\ writer[w].type \notin Long
  /\ log' = Append(log, NextRecord(w))
  /\ writer' = [writer EXCEPT ![w].pc = "newline", ![w].pos = Len(log) + 1]
  /\ UNCHANGED <<ends, packets, returned, decided, completed, now, batches,
                 crashes>>

\* Fault: the file is opened for writing, not for appending.
WriteLineOver(w) ==
  /\ writer[w].pc = "text"
  /\ writer[w].type \notin Long
  /\ log' = <<NextRecord(w)>>
  /\ ends' = {1}
  /\ Return(w, 1)
  /\ UNCHANGED <<packets, decided, now, batches, crashes>>

\* A record that fits the buffer reaches the file with its newline when the
\* file is closed.
WriteLine(w) ==
  /\ writer[w].pc = "text"
  /\ writer[w].type \notin Long
  /\ log' = Append(log, NextRecord(w))
  /\ ends' = ends \cup {Len(log) + 1}
  /\ Return(w, Len(log) + 1)
  /\ UNCHANGED <<packets, decided, now, batches, crashes>>

\* A longer one reaches the file by itself ...
WriteText(w) ==
  /\ writer[w].pc = "text"
  /\ writer[w].type \in Long
  /\ log' = Append(log, NextRecord(w))
  /\ writer' = [writer EXCEPT ![w].pc = "newline", ![w].pos = Len(log) + 1]
  /\ UNCHANGED <<ends, packets, returned, decided, completed, now, batches,
                 crashes>>

\* ... and its newline follows, wherever the file ends by then.
WriteNewline(w) ==
  /\ writer[w].pc = "newline"
  /\ ends' = ends \cup {Len(log)}
  /\ Return(w, writer[w].pos)
  /\ UNCHANGED <<log, packets, decided, now, batches, crashes>>

\* Fault: the bootstrap may append its packet first.
PacketInAnyOrder(b) == b.pc = "next"

\* bootstrap_paper_runtime appends its record, then its packet.
PacketReady(b) == b.pc = "next" /\ (b.event = "restart" => b.records = {})

\* A packet, a line of its own, is written at once.
WritePacket(w) ==
  /\ PacketReady(writer[w])
  /\ \E t \in writer[w].packets :
       /\ packets' = Append(packets, Artifact(t, writer[w]))
       /\ Proceed(w, [writer[w] EXCEPT !.packets = @ \ {t}])
  /\ UNCHANGED <<log, ends, returned, decided, now, batches, crashes>>

\* The process is killed between two of its writes.
Crash(w) ==
  /\ writer[w].pc # "idle" /\ crashes < MaxCrashes
  /\ writer' = [writer EXCEPT ![w] = Idle]
  /\ crashes' = crashes + 1
  /\ UNCHANGED <<log, ends, packets, returned, decided, completed, now,
                 batches>>

Tick ==
  /\ now < MaxTime
  /\ now' = now + 1
  /\ UNCHANGED <<log, ends, packets, writer, returned, decided, completed,
                 batches, crashes>>

Next ==
  \/ \E w \in Writers :
       \/ Bootstrap(w)
       \/ \E d \in Decisions :
            \/ \E e \in Decided : Decide(w, d, e)
            \/ \E e \in Evaluated : Evaluate(w, d, e)
       \/ \E e \in Commands \cup {"mismatch"} : Control(w, e)
       \/ CountLines(w) \/ WriteLine(w) \/ WriteText(w) \/ WriteNewline(w)
       \/ WritePacket(w) \/ Crash(w)
  \/ Tick

Spec == Init /\ [][Next]_vars

-----------------------------------------------------------------------------
RecordTypes == {"freeze", "mismatch", "proposal_input", "proposal_output",
                "restart", "risk_decision", "supervisor_action"}

PacketTypes == {"flatten_requested", "kill_switch_activated",
                "proposal_generated", "proposal_rejected",
                "reconciliation_mismatch", "restart", "risk_decision",
                "risk_freeze", "risk_veto"}

Artifacts(types) ==
  [type : types, source : DOMAIN SourceRank, time : 0..MaxTime,
   batch : 1..MaxBatches, event : Events, subject : Decisions \cup {NoDecision}]

WriterStates ==
  [pc : {"idle", "next", "text", "newline"},
   no : 0..MaxBatches, event : Events, time : 0..MaxTime,
   subject : Decisions \cup {NoDecision}, records : SUBSET RecordTypes,
   packets : SUBSET PacketTypes, type : RecordTypes,
   line : Nat, seen : Nat, pos : Nat]

\* Every variable keeps its type.
TypeOK ==
  /\ log \in Seq(Artifacts(RecordTypes))
  /\ ends \subseteq Positions
  /\ packets \in Seq(Artifacts(PacketTypes))
  /\ writer \in [Writers -> WriterStates]
  /\ returned \subseteq [pos : Nat, line : Nat, seen : Nat]
  /\ decided \in [Decisions -> [output : {"undecided", "proposal", "no_trade"},
                               time : 0..MaxTime]]
  /\ completed \in [Events -> Nat]
  /\ now \in 0..MaxTime /\ batches \in 0..MaxBatches
  /\ crashes \in 0..MaxCrashes

\* Whoever is killed when, and however many bootstraps race, a replay that shows
\* the packet of a restart shows the journal's record of the same restart before
\* it: the stack is never restarted without the journal accounting for it.
RestartsAreJournaled ==
  \A b \in PacketItems :
    b.of.type = "restart" =>
      \E a \in JournalItems :
        /\ a.of.type = "restart" /\ a.of.batch = b.of.batch
        /\ a.of.time = b.of.time /\ ShownBefore(a, b)

\* Only a record longer than the buffer can be glued to the next one: with
\* shorter ones no interleaving and no kill makes the journal unreadable.
GluedToLongOnly == \A p \in Glued : log[p - 1].type \in Long

\* The line number append returns is the record's line if the file ended in a
\* newline and no other process wrote to it in between.
LineNumbersExact ==
  \A r \in returned :
    (r.pos = r.seen + 1 /\ r.seen \in {0} \cup ends) => r.line = LineOf(r.pos)

\* A decision's artifacts in the order they follow from each other.
Stage(i) ==
  CASE i.of.type = "proposal_input"                          -> 1
    [] i.of.type = "proposal_output"                         -> 2
    [] i.kind = "journal" /\ i.of.event \in Evaluated        -> 3
    [] i.kind = "event_packet" /\ i.of.event \in Decided     -> 4
    [] i.kind = "event_packet" /\ i.of.event \in Evaluated   -> 5

\* Whichever process reached the files first, a replay shows a decision's
\* input, output and verdict in that order, and the packets in theirs.
ChainsInOrder ==
  \A a, b \in Timeline(0, MaxTime) :
    /\ a.of.subject = b.of.subject /\ a.of.subject # NoDecision
    /\ Stage(a) < Stage(b)
    => ShownBefore(a, b)

\* A replay of a range of time shows all of a decision, with its verdicts, or
\* nothing of it.
RangesKeepDecisions ==
  \A lo, hi \in 0..MaxTime :
    LET shown  == Timeline(lo, hi)
        others == Timeline(0, MaxTime) \ shown
    IN \A a \in shown, b \in others :
         a.of.subject = b.of.subject => a.of.subject = NoDecision

\* Batches that were begun and are not, or will never be, complete.
Unfinished == Cardinality({w \in Writers : writer[w].pc # "idle"}) + crashes

\* The daily report counts a restart, a verdict and a mismatch twice, once from
\* each file, every other incident once, and one whose artifacts are not all
\* there no more often than that.
ReportCounts ==
  LET Within(n, c) == c <= n /\ n <= c + 2 * Unfinished
  IN /\ Within(Summary.restarts, 2 * completed["restart"])
     /\ Within(Summary.riskDecisions,
               2 * (completed["verdict"] + completed["veto"]))
     /\ Within(Summary.mismatches, 2 * completed["mismatch"])
     /\ Within(Summary.incidents,
               completed["veto"] + completed["freeze"] + completed["kill"]
                 + completed["flatten"] + 2 * completed["mismatch"])

Store == INSTANCE AppendOnlyLog WITH entries <- log, readable <- Readable

\* The journal implements the append-only log: what is written stays, and a
\* journal that cannot be read stays so.
StoreSpec == Store!LogSpec
=============================================================================

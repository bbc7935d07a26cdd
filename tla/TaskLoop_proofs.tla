-------------------------- MODULE TaskLoop_proofs --------------------------
(***************************************************************************)
(* The safety of the run loop for every phase map, task set, number of     *)
(* listener threads, crash bound and command bound.  Each part of the      *)
(* inductive invariant says what holds at the loop's program points        *)
(* between one commit and the next.                                        *)
(***************************************************************************)
EXTENDS TaskLoop, TLAPS

-----------------------------------------------------------------------------
(* The inductive invariant                                                 *)

GatePoints == {"ask", "announce", "poll", "sleep", "record"}

\* Points that only a pass working on a task reaches.
TaskPoints == {"dispatch", "note_resume", "assemble", "mark_started", "lint",
               "note_codex", "codex", "note_validation", "validate",
               "skip_risky", "note_skip", "hand_over", "mark_failed",
               "note_failed", "mark_done", "note_done", "await", "reblock"}

\* Points after the task at hand was handed to Codex or to the operator.
StartedPoints == {"note_resume", "lint", "note_codex", "codex",
                  "note_validation", "validate", "hand_over", "mark_failed",
                  "note_failed", "mark_done", "note_done", "await", "reblock"}

\* Which task and phase the loop holds at each point of a pass.
Locals ==
  /\ pc \in {"down", "check", "select", "advance"} => task = NoTask
  /\ pc \in GatePoints => task \in Risky \cup {NoTask}
  /\ pc \in TaskPoints => task \in Tasks
  /\ pc = "pause" /\ outcome \in Awaited => task \in Tasks
  /\ pc = "await" => outcome \in Awaited
  /\ pc \in {"mark_failed", "note_failed"} => outcome = "invalid"
  /\ pc \notin {"pause", "report"} => outcome # "limit"
  /\ pc \notin {"down", "check", "select"} =>
       /\ currentPhase \in Phases
       /\ task \in Tasks => InPhase(task, currentPhase)
  /\ entryPhase = 0 <=> currentPhase = 0

\* An approved row goes back to a row the operator wrote, also where the loop
\* acts on one it read before.
Approvals ==
  /\ \A r \in Ref : decided[r].verdict = "approved" => r \in operatorApproved
  /\ pc = "record" /\ outcome = "approved" => GateRef \in operatorApproved
  /\ pc = "advance" => PhaseRef(currentPhase) \in operatorApproved
  /\ pc \in {"assemble", "mark_started"} /\ task \in Risky =>
       RiskRef(task) \in operatorApproved

\* A task at work was started and is not done before its validation passed.
Attempts ==
  /\ \A t \in Tasks : status[t] \in {"in_progress", "failed"} =>
                        attempt[t] # "none"
  /\ pc \in StartedPoints => attempt[task] # "none"
  /\ pc = "pause" /\ outcome \in Awaited => attempt[task] # "none"
  /\ pc = "mark_done" => attempt[task] = "good"
  /\ task # NoTask /\ pc # "note_done" /\ outcome # "limit" =>
       status[task] # "done"

\* A loop that stopped for the operator is recording the stop or is paused.
Stopped ==
  needsHuman /\ crashes = 0 =>
    \/ pc \in {"mark_failed", "note_failed", "pause"}
    \/ paused /\ pc \in {"await", "reblock", "report", "check", "down"}

\* A session at its limit is on its way out.
Limited ==
  completed >= MaxAutoTasks =>
    \/ pc = "down"
    \/ pc \in {"pause", "report"} /\ outcome = "limit"

\* Codex or the validation is announced only between the announcement and the
\* event that ends it.
Announced ==
  crashes = 0 /\ lastEvent = "validating" =>
    pc \in {"codex", "note_validation", "validate", "mark_failed",
            "note_failed", "mark_done", "note_done", "pause", "await",
            "reblock", "report"}

IInv == /\ TypeOK /\ Locals /\ Approvals /\ PhaseGated /\ Attempts
        /\ GateBeforeWork /\ DoneWasValidated
        /\ Stopped /\ Limited /\ Announced
-----------------------------------------------------------------------------
(* Proofs.  One lemma per part of the invariant, one step per action that  *)
(* can disturb the part; the actions that only move past it share a step.  *)

USE DEF Goto, EndPass, Record, Mark, SameDb, SameLocals, SameRest,
        dbVars, loopVars, cmdVars, history, vars

ListenerStep ==
  \/ Operator \/ (\E s \in Sessions : Write(s)) \/ ReviewEvent
  \/ ListenerRestart

\* What the listener may do to the loop's world: no local of the loop and no
\* phase changes, a task's row only becomes skipped, an approved row comes with
\* the operator's approval, and only a !resume clears the pause flag.
ListenerEffect ==
  /\ UNCHANGED <<pc, mode, task, outcome, completed, crashes>>
  /\ UNCHANGED <<currentPhase, entryPhase, attempt>>
  /\ \A t \in Tasks : status'[t] \in {status[t], "skipped"}
  /\ operatorApproved \subseteq operatorApproved'
  /\ \A r \in Ref : \/ decided'[r] = decided[r]
                    \/ decided'[r].verdict = "approved" =>
                         r \in operatorApproved'
  /\ lastEvent' \in {lastEvent, "terminal", "reviewing", "resume_received"}
  /\ needsHuman' => needsHuman /\ (paused => paused')

\* Every command and every write of the listener stays within that effect.
LEMMA ListenerKeepsOut ==
  TypeOK /\ ListenerStep => ListenerEffect
<1> SUFFICES ASSUME TypeOK, ListenerStep PROVE ListenerEffect
  OBVIOUS
<1> USE DEF TypeOK, ListenerEffect
<1>1. ASSUME NEW r \in Ref, NEW v \in {"approved", "rejected"}, Decide(r, v)
      PROVE  ListenerEffect
  BY <1>1 DEF Decide, Decision
<1>2. ASSUME NEW s \in Sessions,
             \/ PauseCommand(s) \/ ResumeCommand(s)
             \/ \E t \in Tasks : ClarifyCommand(s, t) \/ SkipCommand(s, t)
      PROVE  ListenerEffect
  BY <1>2 DEF PauseCommand, ResumeCommand, ClarifyCommand, SkipCommand, Begin
<1>3. ASSUME NEW s \in Sessions, Write(s) PROVE ListenerEffect
  BY <1>3 DEF Write
<1>4. CASE ReviewEvent
  BY <1>4 DEF ReviewEvent
<1>5. CASE ListenerRestart
  BY <1>5 DEF ListenerRestart
<1> QED BY <1>1, <1>2, <1>3, <1>4, <1>5 DEF ListenerStep, Operator

\* A command that begins queues its writes and touches nothing else yet.
BeginEffect ==
  /\ todo' \in [Sessions -> Seq(Writes)]
  /\ target' \in [Sessions -> Tasks \cup {NoTask}]
  /\ commands' \in Nat
  /\ UNCHANGED <<loopVars, history>>

LEMMA BeginTypes ==
  ASSUME TypeOK, NEW s \in Sessions, NEW t \in Tasks \cup {NoTask},
         NEW writes \in Seq(Writes), Begin(s, t, writes)
  PROVE  BeginEffect
BY DEF TypeOK, Begin, Issue, BeginEffect

\* At a gate, the ref the loop asks about is one the operator can answer.
LEMMA GateIsKnown ==
  TypeOK /\ Locals /\ pc \in GatePoints => GateRef \in Ref
BY TaskAssumption DEF TypeOK, Locals, GatePoints, GateRef, Ref

\* Types: the loop and the listener write only values of the columns.
LEMMA TypeStep ==
  TypeOK /\ Locals /\ [Next]_vars => TypeOK'
<1> SUFFICES ASSUME TypeOK, Locals, [Next]_vars PROVE TypeOK'
  OBVIOUS
<1> USE TaskAssumption DEF TypeOK, Locals, Statuses, Events, Writes, Outcomes,
       Awaited, Attempting, Recording, Phases, Complete, NoDecision, Decision,
       GatePoints, TaskPoints
<1>1. CASE Start
  BY <1>1 DEF Start
<1>2. CASE StopComplete
  BY <1>2 DEF StopComplete
<1>3. CASE SelectWork
  BY <1>3 DEF SelectWork
<1>4. CASE Dispatch
  BY <1>4 DEF Dispatch
<1>5. CASE AskApproval
  BY <1>5, GateIsKnown DEF AskApproval
<1>6. CASE PollDecision
  <2>1. decided[GateRef].verdict \in {"none", "approved", "rejected"}
    BY <1>6, GateIsKnown DEF PollDecision
  <2>2. CASE decided[GateRef] = NoDecision
    BY <1>6, <2>2 DEF PollDecision
  <2>3. CASE decided[GateRef] # NoDecision
    BY <1>6, <2>1, <2>3 DEF PollDecision
  <2> QED BY <2>2, <2>3
<1>7. CASE GateTimeout
  BY <1>7 DEF GateTimeout
<1>8. CASE RecordDecision
  <2>1. /\ decided' \in [Ref -> [verdict : {"none", "approved", "rejected"},
                                 by : {"none", "operator", "loop"}]]
        /\ outcome' \in Outcomes /\ needsHuman' \in BOOLEAN
        /\ pc' \in {"advance", "assemble", "pause", "skip_risky"}
    BY <1>8 DEF RecordDecision
  <2> QED BY <1>8, <2>1, SMTT(20) DEF RecordDecision
<1>9. CASE AdvancePhase
  BY <1>9 DEF AdvancePhase
<1>10. CASE SkipRisky
  BY <1>10 DEF SkipRisky
<1>11. CASE AssemblePrompt
  BY <1>11 DEF AssemblePrompt
<1>12. CASE MarkStarted
  BY <1>12 DEF MarkStarted
<1>13. CASE LintPrompt
  BY <1>13 DEF LintPrompt
<1>14. CASE RunCodex
  <2>1. /\ attempt' \in [Tasks -> {"none", "open", "bad", "good"}]
        /\ outcome' \in Outcomes /\ needsHuman' \in BOOLEAN
        /\ pc' \in {"note_validation", "pause"}
    BY <1>14 DEF RunCodex
  <2> QED BY <1>14, <2>1, SMTT(20) DEF RunCodex
<1>15. CASE Validate
  <2>1. /\ attempt' \in [Tasks -> {"none", "open", "bad", "good"}]
        /\ outcome' \in Outcomes /\ needsHuman' \in BOOLEAN
        /\ pc' \in {"mark_done", "mark_failed"}
    BY <1>15 DEF Validate
  <2> QED BY <1>15, <2>1, SMTT(20) DEF Validate
<1>16. CASE MarkFailed
  BY <1>16 DEF MarkFailed
<1>17. CASE MarkDone
  BY <1>17 DEF MarkDone
<1>18. CASE NoteDone
  <2>1. completed' \in Nat
    BY <1>18 DEF NoteDone
  <2>2. /\ outcome' \in Outcomes /\ needsHuman' \in BOOLEAN
        /\ pc' \in {"pause", "check"} /\ task' \in Tasks \cup {NoTask}
        /\ lastEvent' \in Events
    BY <1>18 DEF NoteDone
  <2> QED BY <1>18, <2>1, <2>2, SMTT(20) DEF NoteDone
<1>19. CASE PauseLoop
  BY <1>19 DEF PauseLoop
<1>20. CASE AwaitOperator
  BY <1>20 DEF AwaitOperator
<1>21. CASE MarkBlocked
  BY <1>21 DEF MarkBlocked
<1>22. CASE CheckPause \/ PollAgain
  <2>1. CASE CheckPause
    BY <2>1 DEF CheckPause
  <2>2. CASE PollAgain
    BY <2>2 DEF PollAgain
  <2> QED BY <1>22, <2>1, <2>2
<1>23. CASE NoteRiskySkip \/ ReportStop \/ Crash
  <2>1. CASE NoteRiskySkip
    BY <2>1 DEF NoteRiskySkip
  <2>2. CASE ReportStop
    BY <2>2 DEF ReportStop
  <2>3. CASE Crash
    BY <2>3 DEF Crash
  <2> QED BY <1>23, <2>1, <2>2, <2>3
<1>24. CASE NoteResume \/ AnnounceGate \/ NoteCodex \/ NoteValidation
  <2>1. CASE NoteResume
    BY <2>1 DEF NoteResume
  <2>2. CASE AnnounceGate
    BY <2>2 DEF AnnounceGate
  <2>3. CASE NoteCodex
    BY <2>3 DEF NoteCodex
  <2>4. CASE NoteValidation
    BY <2>4 DEF NoteValidation
  <2> QED BY <1>24, <2>1, <2>2, <2>3, <2>4
<1>25. CASE NoteFailed \/ HandOver
  <2>1. CASE NoteFailed
    BY <2>1 DEF NoteFailed
  <2>2. CASE HandOver
    BY <2>2 DEF HandOver
  <2> QED BY <1>25, <2>1, <2>2
<1>26. CASE ListenerStep
  <2>1. ASSUME NEW r \in Ref, NEW v \in {"approved", "rejected"}, Decide(r, v)
        PROVE  TypeOK'
    BY <2>1 DEF Decide, Issue
  <2>2. ASSUME NEW s \in Sessions, PauseCommand(s) \/ ResumeCommand(s)
        PROVE  TypeOK'
    <3>1. {<<"pause", "note_paused">>, <<"resume", "note_resumed">>}
            \subseteq Seq(Writes)
      OBVIOUS
    <3>2. BeginEffect
      BY <2>2, <3>1, BeginTypes DEF PauseCommand, ResumeCommand
    <3>3. UNCHANGED dbVars
      BY <2>2 DEF PauseCommand, ResumeCommand
    <3> QED BY <3>2, <3>3 DEF BeginEffect
  <2>3. ASSUME NEW s \in Sessions, NEW t \in Tasks, ClarifyCommand(s, t)
        PROVE  TypeOK'
    <3>1. <<"unclarify", "pause", "note_paused">> \in Seq(Writes)
      OBVIOUS
    <3>2. BeginEffect
      BY <2>3, <3>1, BeginTypes DEF ClarifyCommand
    <3> QED BY <2>3, <3>2 DEF BeginEffect, ClarifyCommand
  <2>4. ASSUME NEW s \in Sessions, NEW t \in Tasks, SkipCommand(s, t)
        PROVE  TypeOK'
    <3>1. <<"mark_skipped", "unclarify", "unreview", "pause",
            "note_paused">> \in Seq(Writes)
      OBVIOUS
    <3>2. BeginEffect
      BY <2>4, <3>1, BeginTypes DEF SkipCommand
    <3>3. UNCHANGED dbVars
      BY <2>4 DEF SkipCommand
    <3> QED BY <3>2, <3>3 DEF BeginEffect
  <2>5. ASSUME NEW s \in Sessions, Write(s) PROVE TypeOK'
    <3>1. Head(todo[s]) \in Writes /\ Tail(todo[s]) \in Seq(Writes)
      BY <2>5 DEF Write
    <3>2. todo' \in [Sessions -> Seq(Writes)]
      BY <2>5, <3>1 DEF Write
    <3>3. target' \in [Sessions -> Tasks \cup {NoTask}]
      BY <2>5 DEF Write
    <3>4. /\ status' \in [Tasks -> Statuses] /\ paused' \in BOOLEAN
          /\ {awaitingClarify', awaitingReview'} \subseteq Tasks \cup {NoTask}
          /\ lastEvent' \in Events /\ needsHuman' \in BOOLEAN
      BY <2>5 DEF Write
    <3>5. UNCHANGED <<currentPhase, currentTask, requested, decided,
                      operatorApproved, clarified, loopVars, commands,
                      entryPhase, attempt>>
      BY <2>5 DEF Write
    <3> QED BY <3>2, <3>3, <3>4, <3>5, SMTT(20)
  <2>6. CASE ReviewEvent
    BY <2>6 DEF ReviewEvent
  <2>7. CASE ListenerRestart
    <3>1. /\ todo' \in [Sessions -> Seq(Writes)]
          /\ target' \in [Sessions -> Tasks \cup {NoTask}]
      BY <2>7 DEF ListenerRestart
    <3>2. UNCHANGED <<dbVars, loopVars, commands, history>>
      BY <2>7 DEF ListenerRestart
    <3> QED BY <3>1, <3>2, SMTT(20)
  <2> HIDE DEF TypeOK, Locals
  <2> QED BY <1>26, <2>1, <2>2, <2>3, <2>4, <2>5, <2>6, <2>7
          DEF ListenerStep, Operator
<1>27. CASE UNCHANGED vars
  BY <1>27
<1> QED BY <1>1, <1>2, <1>3, <1>4, <1>5, <1>6, <1>7, <1>8, <1>9, <1>10, <1>11,
       <1>12, <1>13, <1>14, <1>15, <1>16, <1>17, <1>18, <1>19, <1>20, <1>21,
       <1>22, <1>23, <1>24, <1>25, <1>26, <1>27
          DEF Next, LoopStep, EventStep, QuietStep, SleepPaused, ListenerStep

\* The locals: a pass holds one task of the selected phase, or is at its
\* exit.
LEMMA LocalsStep ==
  TypeOK /\ Locals /\ [Next]_vars => Locals'
<1> SUFFICES ASSUME TypeOK, Locals, [Next]_vars PROVE Locals'
  OBVIOUS
<1> USE TaskAssumption DEF TypeOK, Locals, Outcomes, Awaited, Phases,
       Complete, GatePoints, TaskPoints, InPhase
<1>1. CASE StopComplete
  BY <1>1 DEF StopComplete
<1>2. CASE SelectWork
  BY <1>2 DEF SelectWork, IsActiveTask, OpenIn
<1>3. CASE Dispatch
  BY <1>3 DEF Dispatch, ManualResume
<1>4. CASE PollDecision
  <2>1. decided[GateRef].verdict \in {"none", "approved", "rejected"}
    BY <1>4, GateIsKnown DEF PollDecision
  <2> QED BY <1>4, <2>1 DEF PollDecision
<1>5. CASE GateTimeout
  BY <1>5 DEF GateTimeout
<1>6. CASE RecordDecision
  BY <1>6 DEF RecordDecision
<1>7. CASE AdvancePhase
  BY <1>7 DEF AdvancePhase
<1>8. CASE HandOver
  BY <1>8 DEF HandOver
<1>9. CASE LintPrompt
  BY <1>9 DEF LintPrompt
<1>10. CASE RunCodex
  BY <1>10 DEF RunCodex
<1>11. CASE Validate
  BY <1>11 DEF Validate
<1>12. CASE NoteDone
  BY <1>12 DEF NoteDone
<1>13. CASE PauseLoop
  BY <1>13 DEF PauseLoop
<1>14. CASE AwaitOperator
  BY <1>14 DEF AwaitOperator
<1>15. CASE Start \/ Crash \/ NoteRiskySkip \/ ReportStop
  BY <1>15 DEF Start, Crash, NoteRiskySkip, ReportStop
<1>16. CASE CheckPause \/ NoteResume \/ AskApproval \/ AnnounceGate \/
            PollAgain \/ SkipRisky \/ AssemblePrompt \/ MarkStarted \/
            NoteCodex \/ NoteValidation \/ MarkFailed \/ NoteFailed \/
            MarkDone \/ MarkBlocked
  <2>1. CASE CheckPause
    BY <2>1 DEF CheckPause
  <2>2. CASE NoteResume
    BY <2>2 DEF NoteResume
  <2>3. CASE AskApproval
    BY <2>3 DEF AskApproval
  <2>4. CASE AnnounceGate
    BY <2>4 DEF AnnounceGate
  <2>5. CASE PollAgain
    BY <2>5 DEF PollAgain
  <2>6. CASE SkipRisky
    BY <2>6 DEF SkipRisky
  <2>7. CASE AssemblePrompt
    BY <2>7 DEF AssemblePrompt
  <2>8. CASE MarkStarted
    BY <2>8 DEF MarkStarted
  <2>9. CASE NoteCodex
    BY <2>9 DEF NoteCodex
  <2>10. CASE NoteValidation
    BY <2>10 DEF NoteValidation
  <2>11. CASE MarkFailed
    BY <2>11 DEF MarkFailed
  <2>12. CASE NoteFailed
    BY <2>12 DEF NoteFailed
  <2>13. CASE MarkDone
    BY <2>13 DEF MarkDone
  <2>14. CASE MarkBlocked
    BY <2>14 DEF MarkBlocked
  <2> QED BY <1>16, <2>1, <2>2, <2>3, <2>4, <2>5, <2>6, <2>7,
             <2>8, <2>9, <2>10, <2>11, <2>12, <2>13, <2>14
<1>17. CASE ListenerStep
  BY <1>17, ListenerKeepsOut DEF ListenerEffect
<1>18. CASE UNCHANGED vars
  BY <1>18
<1> QED BY <1>1, <1>2, <1>3, <1>4, <1>5, <1>6, <1>7, <1>8, <1>9, <1>10, <1>11,
       <1>12, <1>13, <1>14, <1>15, <1>16, <1>17, <1>18
          DEF Next, LoopStep, EventStep, QuietStep, SleepPaused, ListenerStep

\* Approvals: the loop writes an approved row only after it read one.
LEMMA ApprovalsStep ==
  TypeOK /\ Locals /\ Approvals /\ [Next]_vars => Approvals'
<1> SUFFICES ASSUME TypeOK, Locals, Approvals, [Next]_vars PROVE Approvals'
  OBVIOUS
<1> USE TaskAssumption DEF TypeOK, Locals, Approvals, Outcomes, Awaited,
       Phases, GatePoints, TaskPoints, GateRef, Ref, PhaseRef, RiskRef,
       Decision, NoDecision
<1>1. CASE StopComplete
  BY <1>1 DEF StopComplete
<1>2. CASE SelectWork
  BY <1>2 DEF SelectWork
<1>3. CASE Dispatch
  BY <1>3 DEF Dispatch, ManualResume
<1>4. CASE PollDecision
  BY <1>4 DEF PollDecision
<1>5. CASE GateTimeout
  BY <1>5 DEF GateTimeout
<1>6. CASE RecordDecision
  BY <1>6 DEF RecordDecision
<1>7. CASE AdvancePhase
  BY <1>7 DEF AdvancePhase
<1>8. CASE AssemblePrompt
  BY <1>8 DEF AssemblePrompt
<1>9. CASE Start \/ Crash \/ NoteRiskySkip \/ ReportStop \/ NoteDone
  BY <1>9 DEF Start, Crash, NoteRiskySkip, ReportStop, NoteDone
<1>10. CASE CheckPause \/ NoteResume \/ AskApproval \/ AnnounceGate \/
            PollAgain \/ SkipRisky \/ MarkStarted \/ HandOver \/ LintPrompt
            \/ NoteCodex \/ RunCodex \/ NoteValidation \/ Validate \/
            MarkFailed \/ NoteFailed \/ MarkDone \/ PauseLoop \/
            AwaitOperator \/ MarkBlocked
  BY <1>10 DEF CheckPause, NoteResume, AskApproval, AnnounceGate, PollAgain,
         SkipRisky, MarkStarted, HandOver, LintPrompt, NoteCodex, RunCodex,
         NoteValidation, Validate, MarkFailed, NoteFailed, MarkDone,
         PauseLoop, AwaitOperator, MarkBlocked
<1>11. CASE ListenerStep
  BY <1>11, ListenerKeepsOut DEF ListenerEffect
<1>12. CASE UNCHANGED vars
  BY <1>12
<1> QED BY <1>1, <1>2, <1>3, <1>4, <1>5, <1>6, <1>7, <1>8, <1>9, <1>10, <1>11,
       <1>12
          DEF Next, LoopStep, EventStep, QuietStep, SleepPaused, ListenerStep

\* The phase pointer: it moves past a phase only behind its exit's approval.
LEMMA PhaseStep ==
  TypeOK /\ Locals /\ Approvals /\ PhaseGated /\ [Next]_vars => PhaseGated'
<1> SUFFICES ASSUME TypeOK, Locals, Approvals, PhaseGated, [Next]_vars PROVE PhaseGated'
  OBVIOUS
<1> USE TaskAssumption DEF TypeOK, Locals, Approvals, PhaseGated, Phases,
       Complete
<1>1. CASE StopComplete
  BY <1>1 DEF StopComplete
<1>2. CASE SelectWork
  BY <1>2 DEF SelectWork
<1>3. CASE AdvancePhase
  <2> SUFFICES ASSUME NEW p \in Phases, entryPhase <= p, p < currentPhase + 1
               PROVE  PhaseRef(p) \in operatorApproved
    BY <1>3 DEF AdvancePhase
  <2>1. p < currentPhase \/ p = currentPhase
    BY <1>3 DEF AdvancePhase
  <2> QED BY <1>3, <2>1 DEF AdvancePhase
<1>4. CASE Start \/ CheckPause \/ Dispatch \/ NoteResume \/ AskApproval \/
           AnnounceGate \/ PollDecision \/ PollAgain \/ GateTimeout \/
           RecordDecision \/ SkipRisky \/ NoteRiskySkip \/ AssemblePrompt
           \/ MarkStarted \/ HandOver \/ LintPrompt \/ NoteCodex \/
           RunCodex \/ NoteValidation \/ Validate \/ MarkFailed \/
           NoteFailed \/ MarkDone \/ NoteDone \/ PauseLoop \/ AwaitOperator
           \/ MarkBlocked \/ ReportStop \/ Crash
  BY <1>4 DEF Start, CheckPause, Dispatch, NoteResume, AskApproval,
         AnnounceGate, PollDecision, PollAgain, GateTimeout, RecordDecision,
         SkipRisky, NoteRiskySkip, AssemblePrompt, MarkStarted, HandOver,
         LintPrompt, NoteCodex, RunCodex, NoteValidation, Validate,
         MarkFailed, NoteFailed, MarkDone, NoteDone, PauseLoop, AwaitOperator,
         MarkBlocked, ReportStop, Crash
<1>5. CASE ListenerStep
  BY <1>5, ListenerKeepsOut DEF ListenerEffect
<1>6. CASE UNCHANGED vars
  BY <1>6
<1> QED BY <1>1, <1>2, <1>3, <1>4, <1>5, <1>6
          DEF Next, LoopStep, EventStep, QuietStep, SleepPaused, ListenerStep

\* Attempts: a row in progress or failed belongs to a task that was started,
\* and only a passing validation precedes done.
LEMMA AttemptsStep ==
  TypeOK /\ Locals /\ Attempts /\ [Next]_vars => Attempts'
<1> SUFFICES ASSUME TypeOK, Locals, Attempts, [Next]_vars PROVE Attempts'
  OBVIOUS
<1> USE TaskAssumption DEF TypeOK, Locals, Attempts, Statuses, Outcomes,
       Awaited, Phases, GatePoints, TaskPoints, StartedPoints
<1>1. CASE SelectWork
  BY <1>1 DEF SelectWork, IsActiveTask, OpenIn, IsOpen, Closed
<1>2. CASE Dispatch
  BY <1>2 DEF Dispatch, ManualResume
<1>3. CASE PollDecision
  <2>1. decided[GateRef].verdict \in {"none", "approved", "rejected"}
    BY <1>3, GateIsKnown DEF PollDecision
  <2> QED BY <1>3, <2>1 DEF PollDecision
<1>4. CASE RecordDecision
  BY <1>4 DEF RecordDecision
<1>5. CASE SkipRisky
  BY <1>5 DEF SkipRisky
<1>6. CASE MarkStarted
  BY <1>6 DEF MarkStarted
<1>7. CASE HandOver
  BY <1>7 DEF HandOver
<1>8. CASE LintPrompt
  BY <1>8 DEF LintPrompt
<1>9. CASE RunCodex
  BY <1>9 DEF RunCodex
<1>10. CASE Validate
  BY <1>10 DEF Validate
<1>11. CASE MarkFailed
  BY <1>11 DEF MarkFailed
<1>12. CASE MarkDone
  BY <1>12 DEF MarkDone
<1>13. CASE NoteDone
  BY <1>13 DEF NoteDone
<1>14. CASE PauseLoop
  BY <1>14 DEF PauseLoop
<1>15. CASE AwaitOperator
  BY <1>15 DEF AwaitOperator
<1>16. CASE MarkBlocked
  BY <1>16 DEF MarkBlocked
<1>17. CASE Start \/ StopComplete \/ AdvancePhase \/ NoteRiskySkip \/
            ReportStop \/ Crash
  BY <1>17 DEF Start, StopComplete, AdvancePhase, NoteRiskySkip, ReportStop,
         Crash
<1>18. CASE CheckPause \/ NoteResume \/ AskApproval \/ AnnounceGate \/
            PollAgain \/ GateTimeout \/ AssemblePrompt \/ NoteCodex \/
            NoteValidation \/ NoteFailed
  BY <1>18 DEF CheckPause, NoteResume, AskApproval, AnnounceGate, PollAgain,
         GateTimeout, AssemblePrompt, NoteCodex, NoteValidation, NoteFailed
<1>19. CASE ListenerStep
  BY <1>19, ListenerKeepsOut DEF ListenerEffect
<1>20. CASE UNCHANGED vars
  BY <1>20
<1> QED BY <1>1, <1>2, <1>3, <1>4, <1>5, <1>6, <1>7, <1>8, <1>9, <1>10, <1>11,
       <1>12, <1>13, <1>14, <1>15, <1>16, <1>17, <1>18, <1>19, <1>20
          DEF Next, LoopStep, EventStep, QuietStep, SleepPaused, ListenerStep

\* A done task: its row becomes done after a passing validation, and no later
\* attempt at it spoils that.
LEMMA DoneStep ==
  TypeOK /\ Locals /\ Attempts /\ DoneWasValidated /\ [Next]_vars => DoneWasValidated'
<1> SUFFICES ASSUME TypeOK, Locals, Attempts, DoneWasValidated, [Next]_vars PROVE DoneWasValidated'
  OBVIOUS
<1> USE TaskAssumption DEF TypeOK, Locals, Attempts, DoneWasValidated,
       TaskPoints
<1>1. CASE SkipRisky
  BY <1>1 DEF SkipRisky
<1>2. CASE MarkStarted
  BY <1>2 DEF MarkStarted
<1>3. CASE RunCodex
  BY <1>3 DEF RunCodex
<1>4. CASE Validate
  BY <1>4 DEF Validate
<1>5. CASE MarkFailed
  BY <1>5 DEF MarkFailed
<1>6. CASE MarkDone
  BY <1>6 DEF MarkDone
<1>7. CASE MarkBlocked
  BY <1>7 DEF MarkBlocked
<1>8. CASE Start \/ CheckPause \/ StopComplete \/ SelectWork \/ Dispatch \/
           NoteResume \/ AskApproval \/ AnnounceGate \/ PollDecision \/
           PollAgain \/ GateTimeout \/ RecordDecision \/ AdvancePhase \/
           NoteRiskySkip \/ AssemblePrompt \/ HandOver \/ LintPrompt \/
           NoteCodex \/ NoteValidation \/ NoteFailed \/ NoteDone \/
           PauseLoop \/ AwaitOperator \/ ReportStop \/ Crash
  BY <1>8 DEF Start, CheckPause, StopComplete, SelectWork, Dispatch,
         NoteResume, AskApproval, AnnounceGate, PollDecision, PollAgain,
         GateTimeout, RecordDecision, AdvancePhase, NoteRiskySkip,
         AssemblePrompt, HandOver, LintPrompt, NoteCodex, NoteValidation,
         NoteFailed, NoteDone, PauseLoop, AwaitOperator, ReportStop, Crash
<1>9. CASE ListenerStep
  BY <1>9, ListenerKeepsOut DEF ListenerEffect
<1>10. CASE UNCHANGED vars
  BY <1>10
<1> QED BY <1>1, <1>2, <1>3, <1>4, <1>5, <1>6, <1>7, <1>8, <1>9, <1>10
          DEF Next, LoopStep, EventStep, QuietStep, SleepPaused, ListenerStep

\* Gated work: a start is the only step that makes a first attempt, and it
\* comes behind both gates.
LEMMA GateStep ==
  TypeOK /\ Locals /\ Approvals /\ PhaseGated /\ Attempts /\ GateBeforeWork /\ [Next]_vars => GateBeforeWork'
<1> SUFFICES ASSUME TypeOK, Locals, Approvals, PhaseGated, Attempts, GateBeforeWork, [Next]_vars PROVE GateBeforeWork'
  OBVIOUS
<1> USE TaskAssumption DEF TypeOK, Locals, GateBeforeWork, Phases
<1>1. CASE StopComplete
  <2>1. entryPhase <= entryPhase' /\ entryPhase' \in Nat
    BY <1>1 DEF StopComplete
  <2>2. UNCHANGED <<attempt, operatorApproved>>
    BY <1>1 DEF StopComplete
  <2>3. \A p \in Phases : entryPhase' <= p => entryPhase <= p
    BY <2>1
  <2> QED BY <2>2, <2>3
<1>2. CASE SelectWork
  <2>1. entryPhase <= entryPhase' /\ entryPhase' \in Nat
    BY <1>2 DEF SelectWork
  <2>2. UNCHANGED <<attempt, operatorApproved>>
    BY <1>2 DEF SelectWork
  <2>3. \A p \in Phases : entryPhase' <= p => entryPhase <= p
    BY <2>1
  <2> QED BY <2>2, <2>3
<1>3. CASE MarkStarted
  <2> SUFFICES ASSUME NEW t \in Tasks, attempt'[t] # "none"
               PROVE  /\ t \in Risky => RiskRef(t) \in operatorApproved
                      /\ \E q \in Phases :
                           /\ InPhase(t, q)
                           /\ \A p \in Phases : entryPhase <= p /\ p < q =>
                                PhaseRef(p) \in operatorApproved
    BY <1>3 DEF MarkStarted
  <2>1. CASE t # task
    BY <1>3, <2>1 DEF MarkStarted
  <2>2. CASE t = task
    <3>1. InPhase(t, currentPhase) /\ currentPhase \in Phases
      BY <1>3, <2>2 DEF MarkStarted, TaskPoints
    <3>2. t \in Risky => RiskRef(t) \in operatorApproved
      BY <1>3, <2>2 DEF MarkStarted, Approvals
    <3> QED BY <3>1, <3>2 DEF PhaseGated
  <2> QED BY <2>1, <2>2
<1>4. CASE RunCodex
  <2>1. \A t \in Tasks : attempt'[t] # "none" => attempt[t] # "none"
    BY <1>4 DEF RunCodex, Attempts, StartedPoints
  <2> QED BY <1>4, <2>1 DEF RunCodex
<1>5. CASE Validate
  <2>1. \A t \in Tasks : attempt'[t] # "none" => attempt[t] # "none"
    BY <1>5 DEF Validate, Attempts, StartedPoints
  <2> QED BY <1>5, <2>1 DEF Validate
<1>6. CASE Start \/ CheckPause \/ Dispatch \/ NoteResume \/ AskApproval \/
           AnnounceGate \/ PollDecision \/ PollAgain \/ GateTimeout \/
           RecordDecision \/ AdvancePhase \/ SkipRisky \/ NoteRiskySkip \/
           AssemblePrompt \/ HandOver \/ LintPrompt \/ NoteCodex \/
           NoteValidation \/ MarkFailed \/ NoteFailed \/ MarkDone \/
           NoteDone \/ PauseLoop \/ AwaitOperator \/ MarkBlocked \/
           ReportStop \/ Crash
  BY <1>6 DEF Start, CheckPause, Dispatch, NoteResume, AskApproval,
         AnnounceGate, PollDecision, PollAgain, GateTimeout, RecordDecision,
         AdvancePhase, SkipRisky, NoteRiskySkip, AssemblePrompt, HandOver,
         LintPrompt, NoteCodex, NoteValidation, MarkFailed, NoteFailed,
         MarkDone, NoteDone, PauseLoop, AwaitOperator, MarkBlocked,
         ReportStop, Crash
<1>7. CASE ListenerStep
  <2>1. ListenerEffect
    BY <1>7, ListenerKeepsOut
  <2> QED BY <2>1 DEF ListenerEffect
<1>8. CASE UNCHANGED vars
  BY <1>8
<1> QED BY <1>1, <1>2, <1>3, <1>4, <1>5, <1>6, <1>7, <1>8
          DEF Next, LoopStep, EventStep, QuietStep, SleepPaused, ListenerStep

\* Stops: only a !resume takes a stopped loop out of its pause.
LEMMA StoppedStep ==
  TypeOK /\ Locals /\ Stopped /\ [Next]_vars => Stopped'
<1> SUFFICES ASSUME TypeOK, Locals, Stopped, [Next]_vars PROVE Stopped'
  OBVIOUS
<1> USE TaskAssumption DEF TypeOK, Locals, Stopped, Awaited
<1>1. CASE Start
  BY <1>1 DEF Start
<1>2. CASE CheckPause
  BY <1>2 DEF CheckPause
<1>3. CASE RecordDecision
  BY <1>3 DEF RecordDecision
<1>4. CASE HandOver
  BY <1>4 DEF HandOver
<1>5. CASE LintPrompt
  BY <1>5 DEF LintPrompt
<1>6. CASE RunCodex
  BY <1>6 DEF RunCodex
<1>7. CASE Validate
  BY <1>7 DEF Validate
<1>8. CASE NoteFailed
  BY <1>8 DEF NoteFailed
<1>9. CASE NoteDone
  BY <1>9 DEF NoteDone
<1>10. CASE PauseLoop
  BY <1>10 DEF PauseLoop
<1>11. CASE AwaitOperator
  BY <1>11 DEF AwaitOperator
<1>12. CASE MarkBlocked
  BY <1>12 DEF MarkBlocked
<1>13. CASE ReportStop
  BY <1>13 DEF ReportStop
<1>14. CASE Crash
  BY <1>14 DEF Crash
<1>15. CASE StopComplete \/ SelectWork \/ Dispatch \/ NoteResume \/
            AskApproval \/ AnnounceGate \/ PollDecision \/ PollAgain \/
            GateTimeout \/ AdvancePhase \/ SkipRisky \/ NoteRiskySkip \/
            AssemblePrompt \/ MarkStarted \/ NoteCodex \/ NoteValidation \/
            MarkFailed \/ MarkDone
  BY <1>15 DEF StopComplete, SelectWork, Dispatch, NoteResume, AskApproval,
         AnnounceGate, PollDecision, PollAgain, GateTimeout, AdvancePhase,
         SkipRisky, NoteRiskySkip, AssemblePrompt, MarkStarted, NoteCodex,
         NoteValidation, MarkFailed, MarkDone
<1>16. CASE ListenerStep
  BY <1>16, ListenerKeepsOut DEF ListenerEffect
<1>17. CASE UNCHANGED vars
  BY <1>17
<1> QED BY <1>1, <1>2, <1>3, <1>4, <1>5, <1>6, <1>7, <1>8, <1>9, <1>10, <1>11,
       <1>12, <1>13, <1>14, <1>15, <1>16, <1>17
          DEF Next, LoopStep, EventStep, QuietStep, SleepPaused, ListenerStep

\* The session limit: the count is reset only when a new session starts.
LEMMA LimitedStep ==
  TypeOK /\ Locals /\ Limited /\ [Next]_vars => Limited'
<1> SUFFICES ASSUME TypeOK, Locals, Limited, [Next]_vars PROVE Limited'
  OBVIOUS
<1> USE TaskAssumption DEF TypeOK, Locals, Limited, Awaited
<1>1. CASE Start
  BY <1>1 DEF Start
<1>2. CASE NoteDone
  BY <1>2 DEF NoteDone
<1>3. CASE PauseLoop
  BY <1>3 DEF PauseLoop
<1>4. CASE ReportStop
  BY <1>4 DEF ReportStop
<1>5. CASE Crash
  BY <1>5 DEF Crash
<1>6. CASE CheckPause \/ StopComplete \/ SelectWork \/ Dispatch \/
           NoteResume \/ AskApproval \/ AnnounceGate \/ PollDecision \/
           PollAgain \/ GateTimeout \/ RecordDecision \/ AdvancePhase \/
           SkipRisky \/ NoteRiskySkip \/ AssemblePrompt \/ MarkStarted \/
           HandOver \/ LintPrompt \/ NoteCodex \/ RunCodex \/
           NoteValidation \/ Validate \/ MarkFailed \/ NoteFailed \/
           MarkDone \/ AwaitOperator \/ MarkBlocked
  BY <1>6 DEF CheckPause, StopComplete, SelectWork, Dispatch, NoteResume,
         AskApproval, AnnounceGate, PollDecision, PollAgain, GateTimeout,
         RecordDecision, AdvancePhase, SkipRisky, NoteRiskySkip,
         AssemblePrompt, MarkStarted, HandOver, LintPrompt, NoteCodex,
         RunCodex, NoteValidation, Validate, MarkFailed, NoteFailed, MarkDone,
         AwaitOperator, MarkBlocked
<1>7. CASE ListenerStep
  BY <1>7, ListenerKeepsOut DEF ListenerEffect
<1>8. CASE UNCHANGED vars
  BY <1>8
<1> QED BY <1>1, <1>2, <1>3, <1>4, <1>5, <1>6, <1>7, <1>8
          DEF Next, LoopStep, EventStep, QuietStep, SleepPaused, ListenerStep

\* The card: every event that says something runs is followed by its end.
LEMMA AnnouncedStep ==
  TypeOK /\ Locals /\ Announced /\ [Next]_vars => Announced'
<1> SUFFICES ASSUME TypeOK, Locals, Announced, [Next]_vars PROVE Announced'
  OBVIOUS
<1> USE TaskAssumption DEF TypeOK, Locals, Announced, Awaited
<1>1. CASE NoteCodex
  BY <1>1 DEF NoteCodex
<1>2. CASE RunCodex
  BY <1>2 DEF RunCodex
<1>3. CASE NoteValidation
  BY <1>3 DEF NoteValidation
<1>4. CASE Validate
  BY <1>4 DEF Validate
<1>5. CASE NoteFailed
  BY <1>5 DEF NoteFailed
<1>6. CASE NoteDone
  BY <1>6 DEF NoteDone
<1>7. CASE PauseLoop
  BY <1>7 DEF PauseLoop
<1>8. CASE AwaitOperator
  BY <1>8 DEF AwaitOperator
<1>9. CASE ReportStop
  BY <1>9 DEF ReportStop
<1>10. CASE Crash
  BY <1>10 DEF Crash
<1>11. CASE Start \/ CheckPause \/ StopComplete \/ SelectWork \/ Dispatch \/
            NoteResume \/ AskApproval \/ AnnounceGate \/ PollDecision \/
            PollAgain \/ GateTimeout \/ RecordDecision \/ AdvancePhase \/
            SkipRisky \/ NoteRiskySkip \/ AssemblePrompt \/ MarkStarted \/
            HandOver \/ LintPrompt \/ MarkFailed \/ MarkDone \/ MarkBlocked
  BY <1>11 DEF Start, CheckPause, StopComplete, SelectWork, Dispatch,
         NoteResume, AskApproval, AnnounceGate, PollDecision, PollAgain,
         GateTimeout, RecordDecision, AdvancePhase, SkipRisky, NoteRiskySkip,
         AssemblePrompt, MarkStarted, HandOver, LintPrompt, MarkFailed,
         MarkDone, MarkBlocked
<1>12. CASE ListenerStep
  BY <1>12, ListenerKeepsOut DEF ListenerEffect
<1>13. CASE UNCHANGED vars
  BY <1>13
<1> QED BY <1>1, <1>2, <1>3, <1>4, <1>5, <1>6, <1>7, <1>8, <1>9, <1>10, <1>11,
       <1>12, <1>13
          DEF Next, LoopStep, EventStep, QuietStep, SleepPaused, ListenerStep

\* A fresh or seeded database satisfies the invariant.
LEMMA InitIInv == Init => IInv
<1> SUFFICES ASSUME Init PROVE IInv
  OBVIOUS
<1> USE TaskAssumption DEF Init
<1>1. TypeOK
  <2>1. status \in [Tasks -> Statuses]
    BY DEF Statuses
  <2>2. decided \in [Ref -> [verdict : {"none", "approved", "rejected"},
                             by : {"none", "operator", "loop"}]]
    BY DEF NoDecision
  <2>3. todo \in [Sessions -> Seq(Writes)]
    OBVIOUS
  <2>4. mode \in Modes /\ target \in [Sessions -> Tasks \cup {NoTask}]
    OBVIOUS
  <2>5. /\ currentPhase \in 0 .. Complete /\ entryPhase \in 0 .. NumPhases
        /\ completed \in Nat /\ crashes \in Nat /\ commands \in Nat
    BY DEF Complete
  <2>6. /\ pc \in Attempting \cup Recording \cup {"down", "check"}
        /\ outcome \in Outcomes /\ lastEvent \in Events
    BY DEF Outcomes, Events
  <2> QED BY <2>1, <2>2, <2>3, <2>4, <2>5, <2>6 DEF TypeOK
<1>2. Locals
  BY DEF Locals, GatePoints, TaskPoints, Awaited
<1>3. Approvals
  BY DEF Approvals, NoDecision
<1>4. PhaseGated
  BY DEF PhaseGated, Phases
<1>5. Attempts
  BY DEF Attempts, StartedPoints
<1>6. GateBeforeWork /\ DoneWasValidated
  BY DEF GateBeforeWork, DoneWasValidated
<1>7. Stopped /\ Limited /\ Announced
  BY DEF Stopped, Limited, Announced
<1> QED BY <1>1, <1>2, <1>3, <1>4, <1>5, <1>6, <1>7 DEF IInv

\* The invariant holds in every reachable state: it is inductive.
THEOREM Invariance == Spec => []IInv
<1>1. IInv /\ [Next]_vars => IInv'
  BY TypeStep, LocalsStep, ApprovalsStep, PhaseStep, AttemptsStep, GateStep,
     DoneStep, StoppedStep, LimitedStep, AnnouncedStep DEF IInv
<1> QED BY InitIInv, <1>1, PTL DEF Spec

\* Every column, local and queued command keeps its type (init_state_db's
\* tables, run_loop's locals, the listener's workers).
THEOREM TypeCorrect == Spec => []TypeOK
BY Invariance, PTL DEF IInv

\* run_loop never starts a task, in this session or after a restart, unless
\* the operator approved the exits of the phases before it and, for a risky
\* task, the task itself: for any number of tasks, phases and crashes.
THEOREM StartsAreGated == Spec => []GateBeforeWork
BY Invariance, PTL DEF IInv

\* current_phase moves past no phase whose exit the operator did not approve.
THEOREM PhasesAreGated == Spec => []PhaseGated
BY Invariance, PTL DEF IInv

\* A row is done only by seeding or by a validation that passed after the
\* latest Codex run (_run_validation_for_task).
THEOREM DoneIsValidated == Spec => []DoneWasValidated
BY Invariance, PTL DEF IInv

\* After a stop for the operator and before a !resume, run_loop attempts
\* nothing, in this process or the next, unless it crashed.
THEOREM StopsHold == Spec => []StopsForOperator
<1>1. IInv => StopsForOperator
  BY DEF IInv, Stopped, StopsForOperator, Attempting
<1> QED BY Invariance, <1>1, PTL

\* A session that has reached MAX_AUTO_TASKS_PER_SESSION attempts nothing more.
THEOREM SessionsAreLimited == Spec => []SessionLimit
<1>1. IInv => SessionLimit
  BY DEF IInv, Limited, SessionLimit, Attempting
<1> QED BY Invariance, <1>1, PTL

\* Without a crash, a sleeping or returned loop leaves no validating event as
\* the newest one, so the operator card does not stay in flight on its account.
THEOREM CardIsReleased == Spec => []InFlightClosed
<1>1. IInv => InFlightClosed
  BY DEF IInv, Announced, InFlightClosed
<1> QED BY Invariance, <1>1, PTL

\* No step of the loop reopens a done task; only the operator's skip moves it.
THEOREM DoneStays == Spec => DoneIsFinal
<1>1. IInv /\ [Next]_vars =>
        [\A t \in Tasks : status[t] = "done" =>
           status'[t] \in {"done", "skipped"}]_vars
  <2> SUFFICES ASSUME IInv, [Next]_vars,
                      NEW t \in Tasks, status[t] = "done"
               PROVE  status'[t] \in {"done", "skipped"}
    OBVIOUS
  <2> USE DEF IInv, TypeOK, Locals, Attempts, TaskPoints
  <2>1. CASE SkipRisky
    BY <2>1 DEF SkipRisky
  <2>2. CASE MarkStarted
    BY <2>2, TaskAssumption DEF MarkStarted
  <2>3. CASE MarkFailed
    BY <2>3, TaskAssumption DEF MarkFailed
  <2>4. CASE MarkDone
    BY <2>4 DEF MarkDone
  <2>5. CASE MarkBlocked
    BY <2>5, TaskAssumption DEF MarkBlocked
  <2>6. CASE Start \/ Crash \/ UNCHANGED vars
    BY <2>6 DEF Start, Crash
  <2>7. CASE \/ CheckPause \/ StopComplete \/ SelectWork \/ Dispatch
             \/ NoteResume \/ AskApproval \/ AnnounceGate \/ PollDecision
             \/ PollAgain \/ GateTimeout \/ RecordDecision \/ AdvancePhase
    BY <2>7 DEF CheckPause, StopComplete, SelectWork, Dispatch, NoteResume,
                AskApproval, AnnounceGate, PollDecision, PollAgain,
                GateTimeout, RecordDecision, AdvancePhase
  <2>8. CASE \/ NoteRiskySkip \/ AssemblePrompt \/ HandOver \/ LintPrompt
             \/ NoteCodex \/ RunCodex \/ NoteValidation \/ Validate
             \/ NoteFailed \/ NoteDone \/ PauseLoop \/ AwaitOperator
             \/ ReportStop
    BY <2>8 DEF NoteRiskySkip, AssemblePrompt, HandOver, LintPrompt,
                NoteCodex, RunCodex, NoteValidation, Validate, NoteFailed,
                NoteDone, PauseLoop, AwaitOperator, ReportStop
  <2>9. CASE ListenerStep
    BY <2>9, ListenerKeepsOut DEF ListenerEffect
  <2> QED BY <2>1, <2>2, <2>3, <2>4, <2>5, <2>6, <2>7, <2>8, <2>9
          DEF Next, LoopStep, EventStep, QuietStep, SleepPaused, ListenerStep
<1> QED BY Invariance, <1>1, PTL DEF Spec, DoneIsFinal

-----------------------------------------------------------------------------
(* The operator's contract.  Each commit the operator can see is a step of *)
(* OperatorContract, because of what the invariant says holds where the    *)
(* loop makes it; the others change nothing that he is shown.              *)

\* What the contract speaks of.
Seen == <<currentPhase, operatorApproved, status, attempt, needsHuman, crashes>>

\* A step that changes none of it is a stutter of the contract.
LEMMA Unseen ==
  UNCHANGED Seen => UNCHANGED Contract!contract
BY DEF Seen, Contract!contract, Exits, Risks, Row

\* A write of a task's status is a write of its row.
LEMMA RowMarked ==
  ASSUME TypeOK, NEW t \in Tasks, NEW s,
         status' = [status EXCEPT ![t] = s]
  PROVE  Row' = [Row EXCEPT ![t] = ShownAs(s)]
BY DEF TypeOK, Row

\* Where the loop works on a task, the task is one of the open phase and the
\* loop has not stopped for the operator.
LEMMA AtWork ==
  ASSUME IInv, pc \in {"mark_started", "codex", "validate", "mark_done"}
  PROVE  task \in Tasks /\ Contract!WorksOn(task)
<1>1. task \in Tasks /\ currentPhase \in Phases /\ InPhase(task, currentPhase)
  BY DEF IInv, Locals, TaskPoints
<1>2. needsHuman => crashes # 0
  BY DEF IInv, Stopped
<1> QED BY <1>1, <1>2
        DEF Phases, InPhase, Contract!WorksOn, Contract!GoesOn

\* No task the loop works on is shown as done already.
LEMMA NotDoneYet ==
  ASSUME IInv, pc \in {"mark_started", "codex", "validate", "mark_done"}
  PROVE  Row[task] # "done"
<1>1. task \in Tasks /\ task # NoTask
  BY AtWork, TaskAssumption
<1>2. outcome # "limit"
  BY DEF IInv, Locals
<1>3. status[task] # "done"
  BY <1>1, <1>2 DEF IInv, Attempts
<1> QED BY <1>1, <1>3 DEF Row, ShownAs, Closed

\* An operator's approval is an approval of an exit or of a risky task.
LEMMA ApprovalIsSeen ==
  ASSUME NEW r \in Ref, NEW v \in {"approved", "rejected"}, Decide(r, v)
  PROVE  [Contract!ContractNext]_(Contract!contract)
<1>1. UNCHANGED <<currentPhase, status, attempt, needsHuman, crashes>>
  BY DEF Decide
<1>2. UNCHANGED Row
  BY <1>1 DEF Row
<1>3. CASE v = "rejected"
  BY <1>1, <1>3, Unseen DEF Decide, Seen
<1>4. ASSUME v = "approved", NEW p \in Phases, r = PhaseRef(p)
      PROVE  Contract!ApproveExit
  <2>1. operatorApproved' = operatorApproved \cup {PhaseRef(p)}
    BY <1>4 DEF Decide
  <2>2. \A q \in Phases : PhaseRef(q) = PhaseRef(p) <=> q = p
    BY DEF PhaseRef
  <2>3. \A t \in Risky : RiskRef(t) # PhaseRef(p)
    BY DEF PhaseRef, RiskRef
  <2>4. Exits' = Exits \cup {p}
    BY <2>1, <2>2 DEF Exits
  <2>5. Risks' = Risks
    BY <2>1, <2>3 DEF Risks
  <2> QED BY <1>1, <1>2, <2>4, <2>5 DEF Contract!ApproveExit, Phases
<1>5. ASSUME v = "approved", NEW t \in Risky, r = RiskRef(t)
      PROVE  Contract!ApproveRisk
  <2>1. operatorApproved' = operatorApproved \cup {RiskRef(t)}
    BY <1>5 DEF Decide
  <2>2. \A u \in Risky : RiskRef(u) = RiskRef(t) <=> u = t
    BY DEF RiskRef
  <2>3. \A q \in Phases : PhaseRef(q) # RiskRef(t)
    BY DEF PhaseRef, RiskRef
  <2>4. Risks' = Risks \cup {t}
    BY <2>1, <2>2 DEF Risks
  <2>5. Exits' = Exits
    BY <2>1, <2>3 DEF Exits
  <2> QED BY <1>1, <1>2, <2>4, <2>5 DEF Contract!ApproveRisk
<1> QED BY <1>3, <1>4, <1>5 DEF Ref, Contract!ContractNext

\* Another write of a command is a skip, a !resume or nothing he is shown.
LEMMA WriteIsSeen ==
  ASSUME TypeOK, NEW s \in Sessions, Write(s)
  PROVE  [Contract!ContractNext]_(Contract!contract)
<1> DEFINE w == Head(todo[s])
<1>1. /\ UNCHANGED <<currentPhase, operatorApproved, attempt, crashes>>
      /\ status' = IF w = "mark_skipped"
                   THEN [status EXCEPT ![target[s]] = "skipped"] ELSE status
      /\ needsHuman' = (needsHuman /\ w # "resume")
  BY DEF Write
<1>2. UNCHANGED <<Exits, Risks>>
  BY <1>1 DEF Exits, Risks
<1>3. CASE w = "mark_skipped" /\ target[s] \in Tasks
  <2>1. Row' = [Row EXCEPT ![target[s]] = "skipped"]
    BY <1>1, <1>3, RowMarked DEF ShownAs, Closed
  <2>2. Contract!Skip(target[s])
    BY <1>1, <1>2, <1>3, <2>1 DEF Contract!Skip, TypeOK
  <2> QED BY <1>3, <2>2 DEF Contract!ContractNext
<1>4. CASE w = "mark_skipped" /\ target[s] \notin Tasks
  <2>1. status' = status
    BY <1>1, <1>4 DEF TypeOK
  <2> QED BY <1>1, <1>4, <2>1, Unseen DEF Seen, TypeOK
<1>5. CASE w = "resume"
  <2>1. UNCHANGED Row
    BY <1>1, <1>5 DEF Row
  <2>2. Contract!Resume
    BY <1>1, <1>2, <1>5, <2>1 DEF Contract!Resume
  <2> QED BY <2>2 DEF Contract!ContractNext
<1>6. CASE w \notin {"mark_skipped", "resume"}
  BY <1>1, <1>6, Unseen DEF Seen, TypeOK
<1> QED BY <1>3, <1>4, <1>5, <1>6

\* A step that leaves the operator waited for is a stop, or nothing new.
LEMMA StopIsSeen ==
  ASSUME UNCHANGED <<currentPhase, operatorApproved, status, attempt, crashes>>,
         needsHuman' = needsHuman \/ needsHuman' = TRUE
  PROVE  [Contract!ContractNext]_(Contract!contract)
<1>1. UNCHANGED <<Exits, Risks, Row>>
  BY DEF Exits, Risks, Row
<1>2. CASE needsHuman' = needsHuman
  BY <1>2, Unseen DEF Seen
<1>3. CASE needsHuman' = TRUE
  <2>1. Contract!Stop
    BY <1>1, <1>3 DEF Contract!Stop
  <2> QED BY <2>1 DEF Contract!ContractNext
<1> QED BY <1>2, <1>3

\* A phase found when none was recorded is entered.
LEMMA EntryIsSeen ==
  ASSUME UNCHANGED <<operatorApproved, status, attempt, needsHuman, crashes>>,
         \/ currentPhase' = currentPhase
         \/ currentPhase = 0 /\ currentPhase' \in Phases
  PROVE  [Contract!ContractNext]_(Contract!contract)
<1>1. UNCHANGED <<Exits, Risks, Row>>
  BY DEF Exits, Risks, Row
<1>2. CASE currentPhase' = currentPhase
  BY <1>2, Unseen DEF Seen
<1>3. CASE currentPhase = 0 /\ currentPhase' \in Phases
  <2>1. Contract!EnterPhase
    BY <1>1, <1>3 DEF Contract!EnterPhase, Phases
  <2> QED BY <2>1 DEF Contract!ContractNext
<1> QED BY <1>2, <1>3

\* The writes of a row by the loop are those the contract has for it.
LEMMA MarkIsSeen ==
  ASSUME IInv, \/ MarkStarted \/ MarkDone \/ SkipRisky
               \/ MarkFailed \/ MarkBlocked
  PROVE  [Contract!ContractNext]_(Contract!contract)
<1>1. task \in Tasks
  BY DEF IInv, Locals, TaskPoints, MarkStarted, MarkDone, SkipRisky,
         MarkFailed, MarkBlocked
<1>2. /\ UNCHANGED <<currentPhase, operatorApproved, needsHuman, crashes>>
      /\ UNCHANGED <<Exits, Risks>>
  BY DEF MarkStarted, MarkDone, SkipRisky, MarkFailed, MarkBlocked,
         Exits, Risks
<1>3. CASE MarkStarted
  <2>1. Row' = [Row EXCEPT ![task] = "open"]
    <3>1. status' = [status EXCEPT ![task] = "in_progress"]
      BY <1>3 DEF MarkStarted
    <3>2. Row' = [Row EXCEPT ![task] = ShownAs("in_progress")]
      BY <1>1, <3>1, RowMarked DEF IInv
    <3> QED BY <3>2 DEF ShownAs, Closed
  <2>2. Contract!WorksOn(task) /\ Row[task] # "done"
    BY <1>3, AtWork, NotDoneYet DEF MarkStarted
  <2>3. task \in Risky => task \in Risks
    BY <1>3 DEF MarkStarted, IInv, Approvals, Risks
  <2>4. attempt' = [attempt EXCEPT ![task] = "open"]
    BY <1>3 DEF MarkStarted
  <2>5. Contract!StartWork(task)
    BY <1>2, <2>1, <2>2, <2>3, <2>4 DEF Contract!StartWork
  <2> QED BY <1>1, <2>5 DEF Contract!ContractNext
<1>4. CASE MarkDone
  <2>1. Row' = [Row EXCEPT ![task] = "done"]
    BY <1>1, <1>4, RowMarked DEF MarkDone, IInv, ShownAs, Closed
  <2>2. /\ Contract!WorksOn(task) /\ Row[task] # "done"
        /\ attempt[task] = "good" /\ UNCHANGED attempt
    BY <1>4, AtWork, NotDoneYet DEF MarkDone, IInv, Attempts
  <2>3. Contract!Finish(task)
    BY <1>2, <2>1, <2>2 DEF Contract!Finish
  <2> QED BY <1>1, <2>3 DEF Contract!ContractNext
<1>5. CASE SkipRisky
  <2>1. Row' = [Row EXCEPT ![task] = "skipped"] /\ UNCHANGED attempt
    BY <1>1, <1>5, RowMarked DEF SkipRisky, IInv, ShownAs, Closed
  <2>2. Contract!Skip(task)
    BY <1>2, <2>1 DEF Contract!Skip
  <2> QED BY <1>1, <2>2 DEF Contract!ContractNext
<1>6. CASE MarkFailed \/ MarkBlocked
  <2>1. Row' = [Row EXCEPT ![task] = "open"] /\ UNCHANGED attempt
    BY <1>1, <1>6, RowMarked
       DEF MarkFailed, MarkBlocked, IInv, ShownAs, Closed
  <2>2. attempt[task] # "none"
    BY <1>6 DEF MarkFailed, MarkBlocked, IInv, Attempts, StartedPoints
  <2>3. outcome # "limit" /\ task # NoTask
    BY <1>1, <1>6, TaskAssumption DEF MarkFailed, MarkBlocked, IInv, Locals
  <2>4. Row[task] \in {"open", "skipped"}
    <3>1. status[task] # "done"
      BY <1>6, <2>3 DEF MarkFailed, MarkBlocked, IInv, Attempts
    <3> QED BY <1>1, <3>1 DEF Row, ShownAs, Closed
  <2>5. CASE Row[task] = "skipped"
    <3>1. Contract!Reopen(task)
      BY <1>2, <2>1, <2>2, <2>5 DEF Contract!Reopen
    <3> QED BY <1>1, <3>1 DEF Contract!ContractNext
  <2>6. CASE Row[task] = "open"
    <3>1. Row' = Row
      BY <2>1, <2>6 DEF Row
    <3> QED BY <1>2, <2>1, <3>1 DEF Contract!contract
  <2> QED BY <2>4, <2>5, <2>6
<1> QED BY <1>3, <1>4, <1>5, <1>6

\* Codex and the validation end an attempt that was made.
LEMMA EndIsSeen ==
  ASSUME IInv, RunCodex \/ Validate
  PROVE  [Contract!ContractNext]_(Contract!contract)
<1>1. UNCHANGED <<currentPhase, operatorApproved, status, crashes>>
  BY DEF RunCodex, Validate
<1>2. UNCHANGED <<Exits, Risks, Row>>
  BY <1>1 DEF Exits, Risks, Row
<1>3. /\ task \in Tasks /\ Contract!WorksOn(task) /\ Row[task] # "done"
      /\ attempt[task] # "none"
  BY AtWork, NotDoneYet DEF RunCodex, Validate, IInv, Attempts, StartedPoints
<1>4. \/ UNCHANGED <<attempt, needsHuman>>
      \/ attempt' = [attempt EXCEPT ![task] = "good"] /\ UNCHANGED needsHuman
      \/ attempt' = [attempt EXCEPT ![task] = "bad"] /\ needsHuman' = TRUE
  BY DEF RunCodex, Validate
<1>5. CASE UNCHANGED <<attempt, needsHuman>>
  BY <1>1, <1>5, Unseen DEF Seen
<1>6. CASE ~UNCHANGED <<attempt, needsHuman>>
  <2>1. Contract!EndWork(task)
    BY <1>1, <1>2, <1>3, <1>4, <1>6 DEF Contract!EndWork
  <2> QED BY <1>3, <2>1 DEF Contract!ContractNext
<1> QED BY <1>5, <1>6

\* The phase is left behind the approval of its exit.
LEMMA AdvanceIsSeen ==
  ASSUME IInv, AdvancePhase
  PROVE  Contract!LeavePhase
<1>1. currentPhase \in Phases /\ PhaseRef(currentPhase) \in operatorApproved
  BY DEF AdvancePhase, IInv, Locals, Approvals
<1>2. needsHuman => crashes # 0
  BY DEF AdvancePhase, IInv, Stopped
<1>3. /\ UNCHANGED <<operatorApproved, status, attempt, needsHuman, crashes>>
      /\ currentPhase' = currentPhase + 1
  BY DEF AdvancePhase
<1>4. UNCHANGED <<Exits, Risks, Row>> /\ currentPhase \in Exits
  BY <1>1, <1>3 DEF Exits, Risks, Row
<1> QED BY <1>1, <1>2, <1>3, <1>4
        DEF Phases, Contract!LeavePhase, Contract!GoesOn

\* Every step keeps the contract.
LEMMA ContractStep ==
  ASSUME IInv, [Next]_vars
  PROVE  [Contract!ContractNext]_(Contract!contract)
<1>1. CASE AdvancePhase
  BY <1>1, AdvanceIsSeen DEF Contract!ContractNext
<1>2. CASE MarkStarted \/ MarkDone \/ SkipRisky \/ MarkFailed \/ MarkBlocked
  BY <1>2, MarkIsSeen
<1>3. CASE RunCodex \/ Validate
  BY <1>3, EndIsSeen
<1>4. CASE StopComplete \/ SelectWork
  <2>1. /\ UNCHANGED <<operatorApproved, status, attempt, needsHuman, crashes>>
        /\ \/ currentPhase' = currentPhase
           \/ currentPhase = 0 /\ currentPhase' \in Phases
    BY <1>4 DEF StopComplete, SelectWork
  <2> QED BY <2>1, EntryIsSeen
<1>5. CASE HandOver \/ LintPrompt \/ RecordDecision \/ NoteDone
  <2>1. /\ UNCHANGED <<currentPhase, operatorApproved, status, attempt, crashes>>
        /\ needsHuman' = needsHuman \/ needsHuman' = TRUE
    BY <1>5 DEF HandOver, LintPrompt, RecordDecision, NoteDone
  <2> QED BY <2>1, StopIsSeen
<1>6. CASE Crash
  <2>1. /\ UNCHANGED <<currentPhase, operatorApproved, status, attempt,
                       needsHuman>>
        /\ crashes' # 0
    BY <1>6 DEF Crash, IInv, TypeOK
  <2>2. UNCHANGED <<Exits, Risks, Row>>
    BY <2>1 DEF Exits, Risks, Row
  <2>3. Contract!CrashOnce
    BY <2>1, <2>2 DEF Contract!CrashOnce
  <2> QED BY <2>3 DEF Contract!ContractNext
<1>7. CASE \/ Start \/ CheckPause \/ Dispatch \/ NoteResume \/ AskApproval
           \/ AnnounceGate \/ PollDecision \/ PollAgain \/ GateTimeout
           \/ NoteRiskySkip \/ AssemblePrompt \/ NoteCodex \/ NoteValidation
           \/ NoteFailed \/ PauseLoop \/ AwaitOperator \/ ReportStop
           \/ UNCHANGED vars
  <2>1. UNCHANGED Seen
    BY <1>7 DEF Seen, Start, CheckPause, Dispatch, NoteResume, AskApproval,
         AnnounceGate, PollDecision, PollAgain, GateTimeout, NoteRiskySkip,
         AssemblePrompt, NoteCodex, NoteValidation, NoteFailed, PauseLoop,
         AwaitOperator, ReportStop
  <2> QED BY <2>1, Unseen
<1>8. ASSUME NEW r \in Ref, NEW v \in {"approved", "rejected"}, Decide(r, v)
      PROVE  [Contract!ContractNext]_(Contract!contract)
  BY <1>8, ApprovalIsSeen
<1>9. ASSUME NEW s \in Sessions,
             \/ PauseCommand(s) \/ ResumeCommand(s)
             \/ \E t \in Tasks : ClarifyCommand(s, t) \/ SkipCommand(s, t)
      PROVE  [Contract!ContractNext]_(Contract!contract)
  <2>1. UNCHANGED Seen
    BY <1>9 DEF Seen, PauseCommand, ResumeCommand, ClarifyCommand,
                SkipCommand, Begin
  <2> QED BY <2>1, Unseen
<1>10. ASSUME NEW s \in Sessions, Write(s)
       PROVE  [Contract!ContractNext]_(Contract!contract)
  BY <1>10, WriteIsSeen DEF IInv
<1>11. CASE ReviewEvent \/ ListenerRestart
  <2>1. UNCHANGED Seen
    BY <1>11 DEF Seen, ReviewEvent, ListenerRestart
  <2> QED BY <2>1, Unseen
<1> QED BY <1>1, <1>2, <1>3, <1>4, <1>5, <1>6, <1>7, <1>8, <1>9, <1>10, <1>11
        DEF Next, LoopStep, EventStep, QuietStep, SleepPaused, Operator

\* A fresh or seeded database, with no loop started, meets the contract.
LEMMA ContractStart == Init => Contract!ContractInit
<1> SUFFICES ASSUME Init PROVE Contract!ContractInit
  OBVIOUS
<1>1. Exits = {} /\ Risks = {}
  BY DEF Init, Exits, Risks
<1>2. Row \in [Tasks -> {"open", "done"}]
  BY DEF Init, Row, ShownAs, Closed
<1> QED BY <1>1, <1>2 DEF Init, Contract!ContractInit

\* run_loop and the commands of the listener keep what the operator was
\* promised: the loop implements OperatorContract, for any tasks, phase map,
\* listener threads and bounds.
THEOREM KeepsPromises == Spec => KeepsContract
<1>1. IInv /\ [Next]_vars => [Contract!ContractNext]_(Contract!contract)
  BY ContractStep
<1> QED BY ContractStart, Invariance, <1>1, PTL
        DEF Spec, KeepsContract, Contract!ContractSpec
=============================================================================

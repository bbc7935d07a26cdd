------------------------------ MODULE TaskLoop ------------------------------
(***************************************************************************)
(* The run loop of agent-orchestrator/orchestrator.py and the commands of  *)
(* agent-orchestrator/discord_listener.py, two processes that share        *)
(* state.sqlite and last_prompt.md.  Every sqlite call of the code opens   *)
(* a connection and commits on its own, so every write is a step here and  *)
(* the two processes interleave between any two of them.                   *)
(***************************************************************************)
EXTENDS Naturals, Sequences

CONSTANTS
  Tasks,          \* task ids of TASK_QUEUE.md
  NoTask,         \* an empty task setting
  NumPhases,      \* phases of PHASE_TASK_MAP.md, numbered 1..NumPhases
  PhaseTasks,     \* PhaseTasks[p]: the primary tasks of phase p, in file order
  Risky,          \* tasks for which risky_reasons is not empty
  Modes,          \* values CODEX_MODE may have when the loop is started
  MaxAutoTasks,   \* MAX_AUTO_TASKS_PER_SESSION
  Sessions,       \* listener worker threads running a command at a time
  MaxCrashes,     \* bound on crashes of the loop
  MaxCommands     \* bound on operator commands

Phases == 1 .. NumPhases
Complete == NumPhases + 1      \* the setting current_phase = "complete"

ASSUME TaskAssumption ==
  /\ NoTask \notin Tasks
  /\ Risky \subseteq Tasks
  /\ NumPhases \in Nat \ {0}
  /\ PhaseTasks \in [Phases -> Seq(Tasks)]
  /\ Modes \subseteq {"manual", "auto"}
  /\ MaxAutoTasks \in Nat \ {0}
  /\ MaxCrashes \in Nat
  /\ MaxCommands \in Nat

VARIABLES
  \* state.sqlite and last_prompt.md
  status,           \* tasks.status, "absent" when the task has no row
  paused,           \* settings.paused
  currentPhase,     \* settings.current_phase, 0 when unset
  currentTask,      \* settings.current_task_id
  awaitingClarify,  \* settings.awaiting_clarification_task_id
  awaitingReview,   \* settings.awaiting_review_task_id
  requested,        \* refs with a pending approvals row
  decided,          \* newest decided approvals row of each ref
  operatorApproved, \* refs with an approved row inserted by !approve
  lastEvent,        \* newest in-flight or terminal operator_events row
  clarified,        \* task of the clarification block in last_prompt.md
  \* the run loop process
  pc, mode, task, outcome, completed, crashes,
  \* listener commands in progress: the writes each still has to make
  todo, target, commands,
  \* history
  entryPhase,       \* phase selected while current_phase was unset
  attempt,          \* how the latest attempt at each task ended
  needsHuman        \* the loop stopped for the operator, no !resume since

dbVars   == <<status, paused, currentPhase, currentTask, awaitingClarify,
              awaitingReview, requested, decided, operatorApproved,
              lastEvent, clarified>>
loopVars == <<pc, mode, task, outcome, completed, crashes>>
cmdVars  == <<todo, target, commands>>
history  == <<entryPhase, attempt, needsHuman>>
vars     == <<dbVars, loopVars, cmdVars, history>>

-----------------------------------------------------------------------------
Statuses == {"absent", "pending", "in_progress", "failed", "done", "skipped"}
Closed   == {"done", "skipped"}

PhaseRef(p) == <<"phase", p>>
RiskRef(t)  == <<"task", t>>
Ref == {PhaseRef(p) : p \in Phases} \cup {RiskRef(t) : t \in Risky}

NoDecision == [verdict |-> "none", by |-> "none"]
Decision(verdict, by) == [verdict |-> verdict, by |-> by]

\* The gate the loop is at: the exit of the current phase when the phase has
\* no open task, the risky gate of the selected task otherwise.
GateRef == IF task = NoTask THEN PhaseRef(currentPhase) ELSE RiskRef(task)

Events == {"none", "resume_received", "validating", "reviewing", "terminal"}
Writes == {"pause", "resume", "mark_skipped", "unclarify", "unreview",
           "note_paused", "note_resumed"}

Awaited  == {"timeout", "failure", "question", "blocked"}
Outcomes == Awaited \cup {"none", "approved", "rejected", "expired",
                          "gate_rejected", "handed", "invalid", "limit"}
\* Program points between the pause check of a pass and the outcome of its
\* attempt, and those where the loop is recording how the pass ended.
Attempting == {"select", "dispatch", "note_resume", "ask", "announce", "poll",
               "sleep", "record", "advance", "assemble", "mark_started",
               "lint", "note_codex", "codex", "note_validation", "validate"}
Recording  == {"skip_risky", "note_skip", "hand_over", "mark_failed",
               "note_failed", "mark_done", "note_done", "pause", "await",
               "reblock", "report"}

\* Fault: a done task counts as open.
IsOpenUnlessSkipped(t) == status[t] # "skipped"

IsOpen(t) == status[t] \notin Closed
OpenIn(p) == {i \in DOMAIN PhaseTasks[p] : IsOpen(PhaseTasks[p][i])}

\* find_current_phase: the first phase with an open task; the first phase of
\* an empty tasks table, the last one when every task is closed.
FindCurrentPhase(p) ==
  \/ /\ \A t \in Tasks : status[t] = "absent"
     /\ p = 1
  \/ /\ \E t \in Tasks : status[t] # "absent"
     /\ \A q \in 1 .. (p - 1) : OpenIn(q) = {}
     /\ OpenIn(p) # {} \/ p = NumPhases

\* find_active_task: the first open task of the phase in file order.
IsActiveTask(p, t) ==
  \E i \in OpenIn(p) : PhaseTasks[p][i] = t /\ \A j \in OpenIn(p) : i <= j

-----------------------------------------------------------------------------
\* A database that init_state_db just created, or one that bootstrap_state
\* seeded with some tasks marked done.
Init ==
  /\ \/ status = [t \in Tasks |-> "absent"]
     \/ status \in [Tasks -> {"pending", "done"}]
  /\ paused = FALSE
  /\ currentPhase = 0
  /\ currentTask = NoTask
  /\ awaitingClarify = NoTask
  /\ awaitingReview = NoTask
  /\ requested = {}
  /\ decided = [r \in Ref |-> NoDecision]
  /\ operatorApproved = {}
  /\ lastEvent = "none"
  /\ clarified = NoTask
  /\ pc = "down" /\ mode \in Modes /\ task = NoTask /\ outcome = "none"
  /\ completed = 0 /\ crashes = 0
  /\ todo = [s \in Sessions |-> << >>]
  /\ target = [s \in Sessions |-> NoTask]
  /\ commands = 0
  /\ entryPhase = 0
  /\ attempt = [t \in Tasks |-> "none"]
  /\ needsHuman = FALSE

-----------------------------------------------------------------------------
(* The run loop                                                            *)

Goto(at, there) == pc = at /\ pc' = there

\* What the steps of the loop leave alone besides what they name.
SameDb     == UNCHANGED dbVars
SameLocals == UNCHANGED <<mode, task, outcome, completed, crashes>>
SameRest   == UNCHANGED <<cmdVars, history>>

\* The loop forgets its locals when a pass or the process ends.
EndPass(there) ==
  /\ pc' = there /\ task' = NoTask /\ outcome' = "none"

Start ==
  /\ pc = "down" /\ EndPass("check")
  /\ mode' \in Modes
  /\ completed' = 0
  /\ SameDb /\ SameRest /\ UNCHANGED crashes

CheckPause ==
  /\ Goto("check", "select")
  /\ ~paused
  /\ SameDb /\ SameLocals /\ SameRest

SleepPaused ==
  /\ pc = "check" /\ paused
  /\ UNCHANGED vars

\* current_phase = "complete", or a phase that maps no task: run_loop returns.
StopComplete ==
  /\ pc = "select"
  /\ \/ currentPhase = Complete /\ UNCHANGED <<currentPhase, entryPhase>>
     \/ \E p \in Phases :
          /\ IF currentPhase = 0 THEN FindCurrentPhase(p) ELSE p = currentPhase
          /\ PhaseTasks[p] = << >>
          /\ currentPhase' = p
          /\ entryPhase' = IF currentPhase = 0 THEN p ELSE entryPhase
  /\ EndPass("down")
  /\ lastEvent' = "terminal"
  /\ UNCHANGED <<status, paused, currentTask, awaitingClarify, awaitingReview,
                 requested, decided, operatorApproved, clarified,
                 mode, completed, crashes, cmdVars, attempt, needsHuman>>

\* _select_loop_phase and find_active_task: the next task of the current
\* phase, or its exit gate when no task of it is open.
SelectWork ==
  /\ pc = "select"
  /\ \E p \in Phases :
       /\ IF currentPhase = 0 THEN FindCurrentPhase(p) ELSE p = currentPhase
       /\ PhaseTasks[p] # << >>
       /\ currentPhase' = p
       /\ entryPhase' = IF currentPhase = 0 THEN p ELSE entryPhase
       /\ \/ /\ OpenIn(p) = {}
             /\ task' = NoTask /\ pc' = "ask"
          \/ /\ \E t \in Tasks : IsActiveTask(p, t) /\ task' = t
             /\ pc' = "dispatch"
  /\ UNCHANGED <<status, paused, currentTask, awaitingClarify, awaitingReview,
                 requested, decided, operatorApproved, lastEvent, clarified,
                 mode, outcome, completed, crashes, cmdVars, attempt,
                 needsHuman>>

\* Manual mode resumes a task it has started before with its validation.
ManualResume == mode = "manual" /\ status[task] \in {"in_progress", "failed"}

Dispatch ==
  /\ pc = "dispatch"
  /\ currentTask' = task
  /\ pc' = CASE ManualResume                    -> "note_resume"
             [] ~ManualResume /\ task \in Risky -> "ask"
             [] OTHER                           -> "assemble"
  /\ UNCHANGED <<status, paused, currentPhase, awaitingClarify, awaitingReview,
                 requested, decided, operatorApproved, lastEvent, clarified>>
  /\ SameLocals /\ SameRest

\* One operator_events row of a type the operator card looks at.
Record(event) ==
  /\ lastEvent' = event
  /\ UNCHANGED <<status, paused, currentPhase, currentTask, awaitingClarify,
                 awaitingReview, requested, decided, operatorApproved,
                 clarified>>

NoteResume ==
  /\ Goto("note_resume", "note_validation")
  /\ Record("resume_received") /\ SameLocals /\ SameRest

AskApproval ==
  /\ Goto("ask", "announce")
  /\ requested' = requested \cup {GateRef}
  /\ UNCHANGED <<status, paused, currentPhase, currentTask, awaitingClarify,
                 awaitingReview, decided, operatorApproved, lastEvent,
                 clarified>>
  /\ SameLocals /\ SameRest

AnnounceGate ==
  /\ Goto("announce", "poll")
  /\ Record("terminal") /\ SameLocals /\ SameRest

\* wait_for_approval reads the newest decided row of the ref, whoever wrote it
\* and whenever; without one it sleeps and polls again until its deadline.
PollDecision ==
  /\ pc = "poll"
  /\ \/ /\ decided[GateRef] = NoDecision
        /\ pc' = "sleep" /\ UNCHANGED outcome
     \/ /\ decided[GateRef] # NoDecision
        /\ outcome' = decided[GateRef].verdict /\ pc' = "record"
  /\ SameDb /\ UNCHANGED <<mode, task, completed, crashes>> /\ SameRest

PollAgain ==
  /\ Goto("sleep", "poll")
  /\ SameDb /\ SameLocals /\ SameRest

\* Fault: an expired wait counts as an approval.
GateTimeoutApproves ==
  /\ Goto("sleep", "record")
  /\ outcome' = "approved"
  /\ SameDb /\ UNCHANGED <<mode, task, completed, crashes>> /\ SameRest

\* Fault: the deadline is computed anew at every poll.
GateTimeoutRestarts ==
  /\ Goto("sleep", "poll")
  /\ SameDb /\ SameLocals /\ SameRest

GateTimeout ==
  /\ Goto("sleep", "record")
  /\ outcome' = "expired"
  /\ SameDb /\ UNCHANGED <<mode, task, completed, crashes>> /\ SameRest

\* record_decision, then the branch on the answer.
RecordDecision ==
  /\ pc = "record"
  /\ decided' = [decided EXCEPT ![GateRef] =
                   Decision(IF outcome = "approved" THEN "approved"
                                                    ELSE "rejected", "loop")]
  /\ \/ /\ outcome = "approved"
        /\ pc' = IF task = NoTask THEN "advance" ELSE "assemble"
        /\ UNCHANGED <<outcome, needsHuman>>
     \/ /\ outcome # "approved" /\ task = NoTask
        /\ pc' = "pause" /\ outcome' = "gate_rejected" /\ needsHuman' = TRUE
     \/ /\ outcome # "approved" /\ task # NoTask
        /\ pc' = "skip_risky" /\ UNCHANGED <<outcome, needsHuman>>
  /\ UNCHANGED <<status, paused, currentPhase, currentTask, awaitingClarify,
                 awaitingReview, requested, operatorApproved, lastEvent,
                 clarified, mode, task, completed, crashes, cmdVars,
                 entryPhase, attempt>>

\* Fault: the phase after the next one is taken.
AdvanceTwoPhases ==
  /\ pc = "advance" /\ EndPass("check")
  /\ currentPhase' = IF currentPhase + 2 > Complete THEN Complete
                                                    ELSE currentPhase + 2
  /\ UNCHANGED <<status, paused, currentTask, awaitingClarify, awaitingReview,
                 requested, decided, operatorApproved, lastEvent, clarified,
                 mode, completed, crashes>>
  /\ SameRest

AdvancePhase ==
  /\ pc = "advance" /\ EndPass("check")
  /\ currentPhase' = currentPhase + 1
  /\ UNCHANGED <<status, paused, currentTask, awaitingClarify, awaitingReview,
                 requested, decided, operatorApproved, lastEvent, clarified,
                 mode, completed, crashes>>
  /\ SameRest

\* _mark_task_status for the task at hand.
Mark(newStatus) ==
  /\ status' = [status EXCEPT ![task] = newStatus]
  /\ UNCHANGED <<paused, currentPhase, currentTask, awaitingClarify,
                 awaitingReview, requested, decided, operatorApproved,
                 lastEvent, clarified>>

\* Fault: a risky task that was not approved is closed as done.
SkipRiskyAsDone ==
  /\ Goto("skip_risky", "note_skip")
  /\ Mark("done") /\ SameLocals /\ SameRest

SkipRisky ==
  /\ Goto("skip_risky", "note_skip")
  /\ Mark("skipped") /\ SameLocals /\ SameRest

\* The event says "paused", the flag is not set: the loop goes on.
NoteRiskySkip ==
  /\ pc = "note_skip" /\ EndPass("check")
  /\ Record("terminal")
  /\ UNCHANGED <<mode, completed, crashes>> /\ SameRest

\* prompt_runner.assemble_prompt overwrites last_prompt.md.
AssemblePrompt ==
  /\ Goto("assemble", "mark_started")
  /\ clarified' = NoTask
  /\ UNCHANGED <<status, paused, currentPhase, currentTask, awaitingClarify,
                 awaitingReview, requested, decided, operatorApproved,
                 lastEvent>>
  /\ SameLocals /\ SameRest

MarkStarted ==
  /\ pc = "mark_started"
  /\ pc' = IF mode = "manual" THEN "hand_over" ELSE "lint"
  /\ Mark("in_progress")
  /\ attempt' = [attempt EXCEPT ![task] = "open"]
  /\ SameLocals /\ UNCHANGED <<cmdVars, entryPhase, needsHuman>>

\* prompt_ready: in manual mode the operator applies the prompt.
HandOver ==
  /\ Goto("hand_over", "pause")
  /\ Record("terminal")
  /\ outcome' = "handed" /\ needsHuman' = TRUE
  /\ UNCHANGED <<mode, task, completed, crashes, cmdVars, entryPhase, attempt>>

LintPrompt ==
  /\ pc = "lint"
  /\ \/ pc' = "note_codex" /\ UNCHANGED <<outcome, needsHuman>>
     \/ pc' = "pause" /\ outcome' = "blocked" /\ needsHuman' = TRUE
  /\ SameDb
  /\ UNCHANGED <<mode, task, completed, crashes, cmdVars, entryPhase, attempt>>

NoteCodex ==
  /\ Goto("note_codex", "codex")
  /\ Record("validating") /\ SameLocals /\ SameRest

\* The Codex child process: exit 0, or one of the three bad endings.
RunCodex ==
  /\ pc = "codex"
  /\ \/ pc' = "note_validation" /\ UNCHANGED <<outcome, attempt, needsHuman>>
     \/ /\ outcome' \in {"timeout", "failure", "question"}
        /\ pc' = "pause" /\ needsHuman' = TRUE
        /\ attempt' = [attempt EXCEPT ![task] = "bad"]
  /\ SameDb
  /\ UNCHANGED <<mode, task, completed, crashes, cmdVars, entryPhase>>

NoteValidation ==
  /\ Goto("note_validation", "validate")
  /\ Record("validating") /\ SameLocals /\ SameRest

\* Fault: the result of the validation is not looked at.
ValidateUnread ==
  /\ pc = "validate"
  /\ \E result \in {"good", "bad"} :
       attempt' = [attempt EXCEPT ![task] = result]
  /\ pc' = "mark_done" /\ UNCHANGED <<outcome, needsHuman>>
  /\ SameDb
  /\ UNCHANGED <<mode, task, completed, crashes, cmdVars, entryPhase>>

Validate ==
  /\ pc = "validate"
  /\ \/ /\ pc' = "mark_done" /\ UNCHANGED <<outcome, needsHuman>>
        /\ attempt' = [attempt EXCEPT ![task] = "good"]
     \/ /\ pc' = "mark_failed" /\ outcome' = "invalid" /\ needsHuman' = TRUE
        /\ attempt' = [attempt EXCEPT ![task] = "bad"]
  /\ SameDb
  /\ UNCHANGED <<mode, task, completed, crashes, cmdVars, entryPhase>>

MarkFailed ==
  /\ Goto("mark_failed", "note_failed")
  /\ Mark("failed") /\ SameLocals /\ SameRest

NoteFailed ==
  /\ Goto("note_failed", "pause")
  /\ Record("terminal") /\ SameLocals /\ SameRest

MarkDone ==
  /\ Goto("mark_done", "note_done")
  /\ Mark("done") /\ SameLocals /\ SameRest

\* Fault: the limit is compared with > instead of >=.
NoteDoneLate ==
  /\ pc = "note_done"
  /\ Record("terminal")
  /\ completed' = IF mode = "auto" THEN completed + 1 ELSE completed
  /\ \/ /\ mode = "auto" /\ completed' > MaxAutoTasks
        /\ pc' = "pause" /\ outcome' = "limit" /\ needsHuman' = TRUE
        /\ UNCHANGED task
     \/ /\ ~(mode = "auto" /\ completed' > MaxAutoTasks)
        /\ EndPass("check") /\ UNCHANGED needsHuman
  /\ UNCHANGED <<mode, crashes, cmdVars, entryPhase, attempt>>

\* task_done, then the session limit of auto mode.
NoteDone ==
  /\ pc = "note_done"
  /\ Record("terminal")
  /\ completed' = IF mode = "auto" THEN completed + 1 ELSE completed
  /\ \/ /\ mode = "auto" /\ completed' >= MaxAutoTasks
        /\ pc' = "pause" /\ outcome' = "limit" /\ needsHuman' = TRUE
        /\ UNCHANGED task
     \/ /\ ~(mode = "auto" /\ completed' >= MaxAutoTasks)
        /\ EndPass("check") /\ UNCHANGED needsHuman
  /\ UNCHANGED <<mode, crashes, cmdVars, entryPhase, attempt>>

\* Fault: a failed validation is reported without setting the pause flag.
PauseLoopExceptInvalid ==
  /\ pc = "pause"
  /\ pc' = IF outcome \in Awaited THEN "await" ELSE "report"
  /\ paused' = (paused \/ outcome # "invalid")
  /\ UNCHANGED <<status, currentPhase, currentTask, awaitingClarify,
                 awaitingReview, requested, decided, operatorApproved,
                 lastEvent, clarified>>
  /\ SameLocals /\ SameRest

\* How every stop for the operator is recorded: the pause flag, the awaiting
\* setting of a Codex stop, the event; then sleep in the loop or return.
PauseLoop ==
  /\ pc = "pause"
  /\ pc' = IF outcome \in Awaited THEN "await" ELSE "report"
  /\ paused' = TRUE
  /\ UNCHANGED <<status, currentPhase, currentTask, awaitingClarify,
                 awaitingReview, requested, decided, operatorApproved,
                 lastEvent, clarified>>
  /\ SameLocals /\ SameRest

AwaitOperator ==
  /\ pc = "await"
  /\ \/ /\ outcome \in {"question", "blocked"}
        /\ awaitingClarify' = task /\ UNCHANGED awaitingReview
     \/ /\ outcome \in {"timeout", "failure"}
        /\ awaitingReview' = task /\ UNCHANGED awaitingClarify
  /\ pc' = IF outcome = "blocked" THEN "reblock" ELSE "report"
  /\ UNCHANGED <<status, paused, currentPhase, currentTask, requested, decided,
                 operatorApproved, lastEvent, clarified>>
  /\ SameLocals /\ SameRest

MarkBlocked ==
  /\ Goto("reblock", "report")
  /\ Mark("in_progress") /\ SameLocals /\ SameRest

\* Fault: a Codex question is reported without its event.
ReportStopSilently ==
  /\ pc = "report"
  /\ EndPass(IF outcome \in {"handed", "invalid"} THEN "check" ELSE "down")
  /\ lastEvent' = IF outcome = "question" THEN lastEvent ELSE "terminal"
  /\ UNCHANGED <<status, paused, currentPhase, currentTask, awaitingClarify,
                 awaitingReview, requested, decided, operatorApproved,
                 clarified, mode, completed, crashes>>
  /\ SameRest

\* Fault: a failed validation is retried at once, past the pause check.
ReportStopRetries ==
  /\ pc = "report"
  /\ EndPass(CASE outcome = "invalid" -> "select"
               [] outcome = "handed"  -> "check"
               [] OTHER               -> "down")
  /\ Record("terminal")
  /\ UNCHANGED <<mode, completed, crashes>> /\ SameRest

ReportStop ==
  /\ pc = "report"
  /\ EndPass(IF outcome \in {"handed", "invalid"} THEN "check" ELSE "down")
  /\ Record("terminal")
  /\ UNCHANGED <<mode, completed, crashes>> /\ SameRest

\* The steps of the loop that record an event for the card, and the others.
EventStep ==
  \/ StopComplete \/ NoteResume \/ AnnounceGate \/ NoteRiskySkip \/ HandOver
  \/ NoteCodex \/ NoteValidation \/ NoteFailed \/ NoteDone \/ ReportStop

QuietStep ==
  \/ CheckPause \/ SelectWork \/ Dispatch \/ AskApproval \/ PollDecision
  \/ PollAgain \/ GateTimeout \/ RecordDecision \/ AdvancePhase \/ SkipRisky
  \/ AssemblePrompt \/ MarkStarted \/ LintPrompt \/ RunCodex \/ Validate
  \/ MarkFailed \/ MarkDone \/ PauseLoop \/ AwaitOperator \/ MarkBlocked

LoopStep == EventStep \/ QuietStep

\* An unhandled exception or a killed process at any point of the loop.
Crash ==
  /\ pc # "down" /\ crashes < MaxCrashes
  /\ EndPass("down")
  /\ crashes' = crashes + 1
  /\ SameDb /\ UNCHANGED <<mode, completed>> /\ SameRest

-----------------------------------------------------------------------------
(* The listener                                                            *)

Issue == commands < MaxCommands /\ commands' = commands + 1

\* !approve and !reject insert one decided row, for any ref.
Decide(r, verdict) ==
  /\ Issue
  /\ decided' = [decided EXCEPT ![r] = Decision(verdict, "operator")]
  /\ operatorApproved' = IF verdict = "approved"
                         THEN operatorApproved \cup {r} ELSE operatorApproved
  /\ UNCHANGED <<status, paused, currentPhase, currentTask, awaitingClarify,
                 awaitingReview, requested, lastEvent, clarified, loopVars,
                 todo, target, history>>

Begin(s, t, writes) ==
  /\ Issue
  /\ todo[s] = << >>
  /\ todo' = [todo EXCEPT ![s] = writes]
  /\ target' = [target EXCEPT ![s] = t]
  /\ UNCHANGED <<loopVars, history>>

PauseCommand(s) ==
  Begin(s, NoTask, <<"pause", "note_paused">>) /\ SameDb

ResumeCommand(s) ==
  Begin(s, NoTask, <<"resume", "note_resumed">>) /\ SameDb

\* !clarify appends to last_prompt.md, whatever prompt is there.
ClarifyCommand(s, t) ==
  /\ awaitingClarify = t
  /\ Begin(s, t, <<"unclarify", "pause", "note_paused">>)
  /\ clarified' = t
  /\ UNCHANGED <<status, paused, currentPhase, currentTask, awaitingClarify,
                 awaitingReview, requested, decided, operatorApproved,
                 lastEvent>>

\* _active_task_row: an open row, in progress before failed before pending.
ActiveRow(t) ==
  /\ status[t] \in {"in_progress", "failed", "pending"}
  /\ \A u \in Tasks : status[u] = "in_progress" => status[t] = "in_progress"
  /\ \A u \in Tasks : status[u] = "failed" => status[t] # "pending"

\* !skip-task checks that the task is current or awaited, not its status.
SkipCommand(s, t) ==
  /\ t \in {awaitingClarify, awaitingReview, currentTask} \/ ActiveRow(t)
  /\ Begin(s, t, <<"mark_skipped", "unclarify", "unreview", "pause",
                   "note_paused">>)
  /\ SameDb

\* The next write of a command: one commit of one table.
Write(s) ==
  /\ todo[s] # << >>
  /\ LET w == Head(todo[s]) IN
       /\ status' = IF w = "mark_skipped"
                    THEN [status EXCEPT ![target[s]] = "skipped"] ELSE status
       /\ paused' = CASE w = "pause"  -> TRUE
                      [] w = "resume" -> FALSE
                      [] OTHER        -> paused
       /\ needsHuman' = (needsHuman /\ w # "resume")
       /\ awaitingClarify' = IF w = "unclarify" THEN NoTask ELSE awaitingClarify
       /\ awaitingReview' = IF w = "unreview" THEN NoTask ELSE awaitingReview
       /\ lastEvent' = CASE w = "note_paused"  -> "terminal"
                         [] w = "note_resumed" -> "resume_received"
                         [] OTHER              -> lastEvent
  /\ todo' = [todo EXCEPT ![s] = Tail(@)]
  /\ target' = [target EXCEPT ![s] = IF Len(todo[s]) = 1 THEN NoTask ELSE @]
  /\ UNCHANGED <<currentPhase, currentTask, requested, decided,
                 operatorApproved, clarified, loopVars, commands, entryPhase,
                 attempt>>

\* What a Deep Diagnose leaves in the loop's world, once a task was attempted:
\* the event that it runs, and later the event that it is done.
ReviewEvent ==
  /\ \E t \in Tasks : attempt[t] # "none"
  /\ Record("reviewing") \/ Record("terminal")
  /\ UNCHANGED <<loopVars, cmdVars, history>>

\* The listener process is killed or restarted: its commands stop half-way.
ListenerRestart ==
  /\ \E s \in Sessions : todo[s] # << >>
  /\ todo' = [s \in Sessions |-> << >>]
  /\ target' = [s \in Sessions |-> NoTask]
  /\ SameDb /\ UNCHANGED <<loopVars, commands, history>>

Operator ==
  \/ \E r \in Ref, verdict \in {"approved", "rejected"} : Decide(r, verdict)
  \/ \E s \in Sessions :
       \/ PauseCommand(s) \/ ResumeCommand(s)
       \/ \E t \in Tasks : ClarifyCommand(s, t) \/ SkipCommand(s, t)

Next ==
  \/ Start \/ SleepPaused \/ LoopStep \/ Crash
  \/ Operator \/ (\E s \in Sessions : Write(s)) \/ ReviewEvent
  \/ ListenerRestart

Spec == Init /\ [][Next]_vars

\* The loop runs while its process lives: sqlite calls return, subprocess.run
\* has a timeout, and wait_for_approval has a deadline that comes.  Nothing
\* restarts a loop that returned 0, and no operator is obliged to answer.
Fairness ==
  /\ WF_vars(LoopStep) /\ SF_vars(GateTimeout)
  /\ \A s \in Sessions : WF_vars(Write(s))

-----------------------------------------------------------------------------
(* Properties                                                              *)

TypeOK ==
  /\ status \in [Tasks -> Statuses]
  /\ paused \in BOOLEAN
  /\ currentPhase \in 0 .. Complete
  /\ {currentTask, awaitingClarify, awaitingReview, clarified, task}
       \subseteq Tasks \cup {NoTask}
  /\ requested \subseteq Ref
  /\ decided \in [Ref -> [verdict : {"none", "approved", "rejected"},
                          by : {"none", "operator", "loop"}]]
  /\ operatorApproved \subseteq Ref
  /\ lastEvent \in Events
  /\ pc \in Attempting \cup Recording \cup {"down", "check"}
  /\ mode \in Modes /\ outcome \in Outcomes
  /\ completed \in Nat /\ crashes \in Nat /\ commands \in Nat
  /\ todo \in [Sessions -> Seq(Writes)]
  /\ target \in [Sessions -> Tasks \cup {NoTask}]
  /\ entryPhase \in 0 .. NumPhases
  /\ attempt \in [Tasks -> {"none", "open", "bad", "good"}]
  /\ needsHuman \in BOOLEAN

InPhase(t, p) == \E i \in DOMAIN PhaseTasks[p] : PhaseTasks[p][i] = t

\* Every task the loop has ever started was started behind its gates: the
\* operator had approved the exit of every earlier phase the loop went
\* through, and the task itself when it is risky.  Whatever was approved,
\* rejected, answered late or interrupted in between.
GateBeforeWork ==
  \A t \in Tasks : attempt[t] # "none" =>
    /\ t \in Risky => RiskRef(t) \in operatorApproved
    /\ \E q \in Phases :
         /\ InPhase(t, q)
         /\ \A p \in Phases :
              entryPhase <= p /\ p < q => PhaseRef(p) \in operatorApproved

\* current_phase never runs ahead of the operator: each phase the loop has
\* advanced past has an operator's approval of its exit.
PhaseGated ==
  \A p \in Phases : entryPhase <= p /\ p < currentPhase =>
    PhaseRef(p) \in operatorApproved

\* A task is done only when it was seeded so or when its latest attempt ended
\* with a passing validation: not after a timeout, a Codex failure, a
\* question or a failed validation.
DoneWasValidated ==
  \A t \in Tasks : status[t] = "done" => attempt[t] \in {"none", "good"}

\* Unless the loop crashed, nothing is attempted between a stop for the
\* operator (failure, timeout, question, prompt handed over, rejected gate,
\* session limit) and the operator's next !resume, in this process or the
\* next one.
StopsForOperator ==
  needsHuman /\ crashes = 0 => pc \notin Attempting

\* A session that has completed its limit of automatic tasks starts no other.
SessionLimit ==
  completed >= MaxAutoTasks => pc \notin Attempting

\* Unless the loop crashed, a loop that sleeps or has returned does not leave
\* the operator card saying that Codex or the validation is running.
InFlightClosed ==
  crashes = 0 /\ pc \in {"check", "down"} => lastEvent # "validating"

\* A done task is never run again: only an operator's skip changes its row.
DoneIsFinal ==
  [][\A t \in Tasks : status[t] = "done" =>
       status'[t] \in {"done", "skipped"}]_vars

\* !pause takes hold: the loop reaches its pause check or returns, whatever it
\* was doing, a gate it was waiting at included.
PauseTakesEffect == paused ~> (~paused \/ pc \in {"check", "down"})

\* A gate never blocks the loop forever, answered or not.
GateResolves == (pc = "poll") ~> (pc \in {"record", "down"})

-----------------------------------------------------------------------------
(* The operator's view of the loop                                         *)

Exits == {p \in Phases : PhaseRef(p) \in operatorApproved}
Risks == {t \in Risky : RiskRef(t) \in operatorApproved}

\* What the queue says: a task that is not closed is to be done.
ShownAs(s) == IF s \in Closed THEN s ELSE "open"
Row == [t \in Tasks |-> ShownAs(status[t])]

Contract == INSTANCE OperatorContract WITH
  phase <- currentPhase, exits <- Exits, risks <- Risks, row <- Row,
  work <- attempt, stopped <- needsHuman, crashed <- crashes # 0

\* Every step of the loop and of the listener is one the operator was
\* promised, or one he does not see: work happens in the open phase only,
\* behind his approvals and not between a stop and his !resume, a row becomes
\* done by a passing validation and never opens again, whatever crashes and
\* commands come between two commits.
KeepsContract == Contract!ContractSpec

-----------------------------------------------------------------------------
(* What the documents say of the loop, and the code does not do            *)

\* MODE_B checklist 4.4: "`!resume` retries from the clarified prompt."
\* Clarified and resumed, the task is retried with its clarification.
ClarificationKept ==
  [][/\ pc = "assemble" /\ pc' = "mark_started" /\ clarified = task
     /\ awaitingClarify = NoTask /\ lastEvent = "resume_received"
     /\ \A s \in Sessions : todo[s] = << >>
     => clarified' = task]_vars

\* AGENT_ORCHESTRATOR_PLAN 9: the orchestrator does not self-approve.  The
\* approval that opens a gate is a row the operator wrote.
OperatorAnswers ==
  [][pc = "poll" /\ outcome' = "approved" =>
       decided[GateRef].by = "operator"]_vars
=============================================================================

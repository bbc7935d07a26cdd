-------------------------- MODULE OperatorContract --------------------------
(***************************************************************************)
(* What the orchestrator promises its operator, whichever commands cross   *)
(* and whenever the loop is interrupted: phases are worked through in      *)
(* their order, a phase is left and a risky task is started only with his  *)
(* approval, what is done passed its validation, and once the loop has     *)
(* stopped for him nothing goes on before he resumes it.                   *)
(***************************************************************************)
EXTENDS Naturals

CONSTANTS Tasks, Risky, NumPhases, PhaseTasks

VARIABLES
  phase,     \* the open phase; 0 before the first, NumPhases + 1 at the end
  exits,     \* phases whose exit the operator approved
  risks,     \* risky tasks the operator approved
  row,       \* what the queue says of a task: "open", "done" or "skipped"
  work,      \* how the latest attempt at a task ended, "open" while it runs
  stopped,   \* the loop stopped for the operator, who has not resumed it
  crashed    \* the loop crashed once and may not know that it stopped

contract == <<phase, exits, risks, row, work, stopped, crashed>>

ContractInit ==
  /\ phase = 0 /\ exits = {} /\ risks = {}
  /\ row \in [Tasks -> {"open", "done"}]
  /\ work = [t \in Tasks |-> "none"]
  /\ stopped = FALSE /\ crashed = FALSE

\* The loop goes on with its phase, or with a task of that phase.
GoesOn == phase \in 1 .. NumPhases /\ (stopped => crashed)
WorksOn(t) ==
  GoesOn /\ \E i \in DOMAIN PhaseTasks[phase] : PhaseTasks[phase][i] = t

ApproveExit ==
  /\ \E p \in 1 .. NumPhases : exits' = exits \cup {p}
  /\ UNCHANGED <<phase, risks, row, work, stopped, crashed>>

ApproveRisk ==
  /\ \E t \in Risky : risks' = risks \cup {t}
  /\ UNCHANGED <<phase, exits, row, work, stopped, crashed>>

EnterPhase ==
  /\ phase = 0 /\ phase' \in 1 .. NumPhases
  /\ UNCHANGED <<exits, risks, row, work, stopped, crashed>>

LeavePhase ==
  /\ GoesOn /\ phase \in exits
  /\ phase' = phase + 1
  /\ UNCHANGED <<exits, risks, row, work, stopped, crashed>>

StartWork(t) ==
  /\ WorksOn(t)
  /\ t \in Risky => t \in risks
  /\ row[t] # "done"
  /\ row' = [row EXCEPT ![t] = "open"]
  /\ work' = [work EXCEPT ![t] = "open"]
  /\ UNCHANGED <<phase, exits, risks, stopped, crashed>>

\* A good ending leaves the loop running, a bad one stops it.
EndWork(t) ==
  /\ WorksOn(t)
  /\ work[t] # "none" /\ row[t] # "done"
  /\ \/ work' = [work EXCEPT ![t] = "good"] /\ UNCHANGED stopped
     \/ work' = [work EXCEPT ![t] = "bad"] /\ stopped' = TRUE
  /\ UNCHANGED <<phase, exits, risks, row, crashed>>

Finish(t) ==
  /\ WorksOn(t)
  /\ work[t] = "good" /\ row[t] # "done"
  /\ row' = [row EXCEPT ![t] = "done"]
  /\ UNCHANGED <<phase, exits, risks, work, stopped, crashed>>

Skip(t) ==
  /\ row' = [row EXCEPT ![t] = "skipped"]
  /\ UNCHANGED <<phase, exits, risks, work, stopped, crashed>>

\* A skip during an attempt is lost when the attempt's end is recorded.
Reopen(t) ==
  /\ row[t] = "skipped" /\ work[t] # "none"
  /\ row' = [row EXCEPT ![t] = "open"]
  /\ UNCHANGED <<phase, exits, risks, work, stopped, crashed>>

Stop ==
  /\ stopped' = TRUE
  /\ UNCHANGED <<phase, exits, risks, row, work, crashed>>

Resume ==
  /\ stopped' = FALSE
  /\ UNCHANGED <<phase, exits, risks, row, work, crashed>>

CrashOnce ==
  /\ crashed' = TRUE
  /\ UNCHANGED <<phase, exits, risks, row, work, stopped>>

ContractNext ==
  \/ ApproveExit \/ ApproveRisk \/ EnterPhase \/ LeavePhase \/ CrashOnce
  \/ \E t \in Tasks :
       StartWork(t) \/ EndWork(t) \/ Finish(t) \/ Skip(t) \/ Reopen(t)
  \/ Stop \/ Resume

ContractSpec == ContractInit /\ [][ContractNext]_contract
=============================================================================

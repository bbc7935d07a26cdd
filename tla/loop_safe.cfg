CONSTANTS
  t1 = t1
  t2 = t2
  Tasks = {t1, t2}
  NoTask = NoTask
  NumPhases = 2
  PhaseTasks <- OnePerPhase
  Risky = {t2}
  Modes = {"manual", "auto"}
  MaxAutoTasks = 2
  Sessions = {s1}
  MaxCrashes = 1
  MaxCommands = 3
SPECIFICATION Spec
INVARIANTS
  GateBeforeWork
  PhaseGated
  DoneWasValidated
  StopsForOperator
  SessionLimit
  InFlightClosed
PROPERTIES
  DoneIsFinal
  KeepsContract

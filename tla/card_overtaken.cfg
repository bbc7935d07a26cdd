CONSTANTS
  t1 = t1
  Tasks = {t1}
  NoTask = NoTask
  NumPhases = 2
  PhaseTasks <- OneAndEmpty
  Risky = {t1}
  Modes = {"auto"}
  MaxAutoTasks = 1
  Sessions = {s1}
  Poller = Poller
  MaxCrashes = 0
  MaxCommands = 1
  MaxRestarts = 0
SPECIFICATION CardSpec
INVARIANTS
  ButtonsAreSafe

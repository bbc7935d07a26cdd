CONSTANTS
  t1 = t1
  t2 = t2
  Tasks = {t1}
  NoTask = NoTask
  NumPhases = 1
  PhaseTasks <- One
  Risky = {}
  Modes = {"auto"}
  MaxAutoTasks = 1
  Sessions = {s1}
  MaxCrashes = 0
  MaxCommands = 2
SPECIFICATION OrderlySpec
PROPERTIES
  ClarificationKept

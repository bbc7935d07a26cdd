SPECIFICATION Spec
CONSTANTS
  engine = engine
  supervisor = supervisor
  d1 = d1
  Writers = {engine, supervisor}
  Decisions = {d1}
  Commands = {"kill", "unfreeze"}
  Long = {"mismatch"}
  MaxTime = 1
  MaxBatches = 3
  MaxCrashes = 1
SYMMETRY Processes
VIEW WithoutMetadata
CHECK_DEADLOCK FALSE
INVARIANTS RestartsAreJournaled GluedToLongOnly ChainsInOrder RangesKeepDecisions ReportCounts
PROPERTY StoreSpec

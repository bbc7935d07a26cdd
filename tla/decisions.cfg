SPECIFICATION Spec
CONSTANTS
  d1 = d1
  d2 = d2
  r1 = r1
  r2 = r2
  s1 = s1
  s2 = s2
  Symbols = {s1, s2}
  Decisions = {d1, d2}
  Runs = {r1, r2}
  Snapshots <- SomeSnapshots
  Offers <- SomeOffers
  Inputs <- SomeInputs
  Policy <- APolicy
  Allowed = {s1}
  Mode = "paper"
  TTL = 2
  MaxAge = 1
  SnapshotDecision = d1
  SnapshotRun = r1
  NoSnapshot = NoSnapshot
  NoInput = NoInput
  MaxTime = 4
CHECK_DEADLOCK FALSE
INVARIANTS ValidatorsAgree SnapshotsAreDecided FreshWhenTimed
PROPERTY RefusalsStick

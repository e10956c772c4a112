\* An ensure that was begun, met a conflict and is recorded as failed.
SPECIFICATION Spec
CONSTANTS
  Run = {r1}
  NoRun = NoRun
  MaxOps = 3
  MaxTries = 3
  Failures = {"conflict"}
  MaxFaults = 1
  Wakes = FALSE
INVARIANTS
  FailedEnsureHadNoEffect
CHECK_DEADLOCK FALSE

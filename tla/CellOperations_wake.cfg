\* A wake that took effect and is recorded as failed.
SPECIFICATION Spec
CONSTANTS
  Run = {r1}
  NoRun = NoRun
  MaxOps = 3
  MaxTries = 3
  Failures = {"timeout", "host", "capacity"}
  MaxFaults = 3
  Wakes = TRUE
INVARIANTS
  FailedHadNoEffect
CHECK_DEADLOCK FALSE

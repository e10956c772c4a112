\* Two runs and an owner's wake on one Cell, with any two failures.
SPECIFICATION Spec
CONSTANTS
  Run = {r1, r2}
  NoRun = NoRun
  MaxOps = 5
  MaxTries = 3
  Failures = {"timeout", "write", "takeover", "crash", "effect", "conflict", "host", "capacity"}
  MaxFaults = 2
  Wakes = TRUE
INVARIANTS
  TypeOK
  LeaseAgreement
  ReceiptsAreTrue
  FailedReleaseHadNoEffect
PROPERTIES
  ReleaseClearsOwnLease
CHECK_DEADLOCK FALSE

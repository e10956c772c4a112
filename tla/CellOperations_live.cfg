\* An ended run gives the Cell back although stored answers are lost.
SPECIFICATION FairSpec
CONSTANTS
  Run = {r1}
  NoRun = NoRun
  MaxOps = 8
  MaxTries = 4
  Failures = {"write", "capacity"}
  MaxFaults = 3
  Wakes = FALSE
PROPERTIES
  HeldCellIsGivenBack
CHECK_DEADLOCK FALSE

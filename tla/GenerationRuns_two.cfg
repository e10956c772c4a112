\* Two builds of one project, two workers, one failure.
SPECIFICATION Spec
CONSTANTS
  Run = {r1, r2}
  Worker = {w1, w2}
  TurnModes = {"build"}
  NoRun = NoRun
  NoWorker = NoWorker
  MaxFaults = 1
  MaxStops = 0
SYMMETRY Symmetry
INVARIANTS
  SingleFlight
  CompletedRunIsQuiet
  WorkingRunHoldsCell
PROPERTIES
  OnlyLeaseHolderPublishes
\* Both turns may be over: the project then rests.
CHECK_DEADLOCK FALSE

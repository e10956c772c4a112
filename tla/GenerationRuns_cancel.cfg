\* Stop while the request is still being accepted.
SPECIFICATION Spec
CONSTANTS
  Run = {r1}
  Worker = {w1, w2}
  TurnModes = {"build", "edit", "clarify"}
  NoRun = NoRun
  NoWorker = NoWorker
  MaxFaults = 0
  MaxStops = 1
SYMMETRY Symmetry
INVARIANTS
  CancelledRunClosesMessage
\* The turn may be over: the project then rests.
CHECK_DEADLOCK FALSE

\* One turn of any mode under fairness, two workers, two failures, Stop.
SPECIFICATION FairSpec
CONSTANTS
  Run = {r1}
  Worker = {w1, w2}
  TurnModes = {"build", "edit", "clarify"}
  NoRun = NoRun
  NoWorker = NoWorker
  MaxFaults = 2
  MaxStops = 1
INVARIANTS
  TypeOK
  NeverReplayed
  CompletedBuildIsPublished
  SavedBuildNeverFailed
  NoFabricatedCancel
PROPERTIES
  ImplementsTurns
  DeliveredTurnEnds
  StopTakesEffect
  LeaseIsReturned
\* The turn may be over: the project then rests.
CHECK_DEADLOCK FALSE

\* One request: three attempts, three wires, one fault, two cleanup loops.
SPECIFICATION Spec
CONSTANTS
  Initial = 2
  Sizes = {1, 3}
  Quota = 4
  Sweepers = {s1, s2}
  MaxAttempts = 3
  MaxWires = 3
  MaxFaults = 1
SYMMETRY Symmetry
INVARIANTS
  TypeOK
  PaidOnce
  ServedIsAccounted
  ObjectsAreBudgeted
\* The run is over and swept, or what is left waits for no one.
CHECK_DEADLOCK FALSE

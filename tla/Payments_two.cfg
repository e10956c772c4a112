\* Two billing processes: "running both is safe" of core/config.py does not hold.
SPECIFICATION Spec
CONSTANTS
  Workers = {w1, w2}
  Crowded = TRUE
  Period = 1
  Grace = 2
  Retry = 1
  Window = 2
  KeyLife = 2
  Lag = 0
  MaxTime = 1
  Mixes = {{"subscription_initial"}}
  MaxOrders = 3
  MaxTopUps = 0
  MaxPlans = 1
  MaxHooks = 0
  MaxFaults = 0
INVARIANTS
  PeriodChargedOnce
CHECK_DEADLOCK FALSE

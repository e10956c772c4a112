\* The owner cancels renewal while a pass settles the accounts due before his.
SPECIFICATION Spec
CONSTANTS
  Workers = {w1}
  Crowded = TRUE
  Period = 1
  Grace = 2
  Retry = 1
  Window = 2
  KeyLife = 3
  Lag = 0
  MaxTime = 1
  Mixes = {{"subscription_initial"}}
  MaxOrders = 2
  MaxTopUps = 0
  MaxPlans = 1
  MaxHooks = 0
  MaxFaults = 0
PROPERTIES
  RenewalIsWanted
CHECK_DEADLOCK FALSE

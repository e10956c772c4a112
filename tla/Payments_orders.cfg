\* Orders, a renewal and its retry, a lost answer, late notifications, fairness.
SPECIFICATION FairSpec
CONSTANTS
  Workers = {w1}
  Crowded = FALSE
  Period = 1
  Grace = 2
  Retry = 1
  Window = 2
  KeyLife = 3
  Lag = 1
  MaxTime = 3
  MaxOrders = 3
  Mixes = {{"wallet_topup"}, {"subscription_initial"}}
  MaxTopUps = 1
  MaxPlans = 1
  MaxHooks = 1
  MaxFaults = 1
INVARIANTS
  TypeOK
  OneChargePerOrder
  PaidThrough
  PeriodChargedOnce
  ExactlyOnePlan
  GrantIsPaid
PROPERTIES
  PaidOrderIsSettled
  GraceIsEnforced
CHECK_DEADLOCK FALSE

\* Two runs on two projects, paid with units or roubles, and an administrator.
SPECIFICATION FairSpec
CONSTANTS
  InitialUnits = 3
  Packages <- SomePackages
  PeriodUnits = 1
  ReservedBalance = 1
  Endings = {"completed", "cancelled"}
  MaxRuns = 2
  MaxProjects = 2
  MaxGrants = 3
  MaxPackages = 2
  MaxPeriods = 1
  MaxDebits = 1
  MaxUsage = 1
  MaxFunds = 1
INVARIANTS
  TypeOK
  NeverOverspent
  PaidForProvenOnly
  PriceIsExact
  InitialPaidOnce
PROPERTIES
  BillIsFinal
  EndedRunKeepsNoUnits
  AcceptedBuildIsDebited
CHECK_DEADLOCK FALSE

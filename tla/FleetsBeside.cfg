SPECIFICATION Spec
CONSTANTS
  Parts = {"market"}
  a1 = a1
  a2 = a2
  f1 = f1
  f2 = f2
  f3 = f3
  Accounts = {a1, a2}
  AccountOrder <- MCAccountOrder
  Fleets = {f1, f2, f3}
  FleetOrder <- MCFleetOrder
  Demo = {f3}
  Rate <- MCRate
  Hour = 2
  Day = 2
  Week = 6
  Validity = 12
  HourHC = 1
  WeekHC = 2
  Discounts <- MCDiscounts
  MaxWeeksAhead = 2
  DemoAhead = 6
  DemoHours = 1
  MaintenanceHours = 1
  Outage = 1
  OutagePass = 2
  Gap = 2
  RebuildHours = 2
  Amounts = {2}
  Scenarios <- CommandBeside
  Horizon = 12
  Holders = {h1, h2}
  FleetList <- MCFleetList
  Conns = {c1}
  GraceTicks = 2
  CheckTicks = 2
  HourTicks = 3
  Lag = 1
  LastTick = 6
  MaxHours = 2
  MaxProbes = 1
  MaxRevoked = 1
INVARIANTS
  LedgerReplays
CHECK_DEADLOCK FALSE

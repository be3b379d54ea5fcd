SPECIFICATION FairSpec
CONSTANTS
  a1 = a1
  NoLimit = NoLimit
  NoEntry = NoEntry
  Nil = Nil
  NoUsage = NoUsage
  Hard <- HardAgents
  Agents = {a1, a2}
  DailyLimit <- DailyTwo
  MonthlyLimit <- MonthlyThree
  Day = 1
  Month = 2
  Requests = {r1, r2, r3}
  Keys = {k1}
  Threshold <- ThresholdMixed
  Window <- CooldownNone
  Cooldown <- CooldownNone
  Costs = {2}
  MaxInFlight = 2
  MaxTime = 1
  Horizon = 5
  MaxCrashes = 0
CHECK_DEADLOCK FALSE
SYMMETRY Symmetric
INVARIANTS BoundedOvershoot ChargedOnce
PROPERTIES RefusalLifts

SPECIFICATION Spec
CONSTANTS
  a1 = a1
  NoLimit = NoLimit
  NoEntry = NoEntry
  Nil = Nil
  NoUsage = NoUsage
  Hard <- HardAgents
  Agents = {a1}
  DailyLimit <- NoLimits
  MonthlyLimit <- NoLimits
  Day = 2
  Month = 4
  Requests = {r1, r2, r3}
  Keys = {k1, k2}
  Threshold <- ThresholdTwo
  Window <- WindowTwo
  Cooldown <- CooldownThree
  Costs = {0}
  MaxInFlight = 2
  MaxTime = 3
  Horizon = 12
  MaxCrashes = 1
CHECK_DEADLOCK FALSE
SYMMETRY SymmetricKeys
INVARIANTS LoopVerdict CooldownHeld

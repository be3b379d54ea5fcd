SPECIFICATION FairSpec
CONSTANTS
  h1 = h1
  Ids = {i1, i2}
  Requests = {r1, r2}
  Agents = {a1}
  Paths = {p1}
  Hashes = {h1, h2}
  NoSubject = NoSubject
  NoId = NoId
  Forged = Forged
  Gated <- GatedBodies
  FailOpen = FALSE
  Timeout = 1
  Retain = 1
  MaxTime = 1
  MaxOutages = 1
  MaxCrashes = 1
CHECK_DEADLOCK FALSE
INVARIANTS GatedOnlyOnToken
PROPERTIES PendingResolved EveryRequestAnswered

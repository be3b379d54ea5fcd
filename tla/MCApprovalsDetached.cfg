SPECIFICATION Spec
CONSTANTS
  h1 = h1
  Ids = {i1}
  Requests = {r1, r2}
  Agents = {a1}
  Paths = {p1}
  Hashes = {h1}
  NoSubject = NoSubject
  NoId = NoId
  Forged = Forged
  Gated <- GatedBodies
  FailOpen = TRUE
  Timeout = 1
  Retain = 1
  MaxTime = 1
  MaxOutages = 1
  MaxCrashes = 1
CHECK_DEADLOCK FALSE
INVARIANTS GatedOnlyOnToken

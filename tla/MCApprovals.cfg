SPECIFICATION Spec
CONSTANTS
  h1 = h1
  Ids = {i1, i2}
  Requests = {r1, r2, r3}
  Agents = {a1, a2}
  Paths = {p1}
  Hashes = {h1}
  NoSubject = NoSubject
  NoId = NoId
  Forged = Forged
  Gated <- GatedBodies
  FailOpen = TRUE
  Timeout = 1
  Retain = 1
  MaxTime = 1
  MaxOutages = 1
  MaxCrashes = 1
CHECK_DEADLOCK FALSE
SYMMETRY Symmetric
INVARIANTS TypeOK AtMostOneForward ForwardedAsApproved
PROPERTIES Grants

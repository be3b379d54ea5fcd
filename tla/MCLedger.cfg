SPECIFICATION FairSpec
CONSTANTS
    Responses = {r1, r2}
    Agents = {a1, a2}
    Costs = {1, 2}
    Keep = 1
    MaxDay = 3
    MaxFailures = 2
    MaxCrashes = 1
INVARIANTS Conserved NothingLost
PROPERTY OldRowsFolded
CHECK_DEADLOCK FALSE

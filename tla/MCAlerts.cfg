SPECIFICATION Spec
CONSTANTS
    Rules = {1}
    Events = {e1, e2, e3}
    Calls = {c1}
    Nil = Nil
    e1 = e1
    Agents = {a1}
    Policies = {p1}
    Every = Every
    a1 = a1
    p1 = p1
    Says <- Warnings
    Submissions <- Cooldowns
    Pooled = FALSE
    MaxTime = 2
    MaxCrashes = 1
    MaxFailures = 1
SYMMETRY Symmetric
INVARIANT CacheCoversTable
PROPERTY TableCooldown
CHECK_DEADLOCK FALSE

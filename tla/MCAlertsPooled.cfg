SPECIFICATION FairSpec
CONSTANTS
    Rules = {1, 2}
    Events = {e1, e2}
    Calls = {c1}
    Nil = Nil
    e1 = e1
    Agents = {a1}
    Policies = {p1}
    Every = Every
    a1 = a1
    p1 = p1
    Says <- Different
    Submissions <- Kinds
    Pooled = TRUE
    MaxTime = 1
    MaxCrashes = 1
    MaxFailures = 1
INVARIANT RulesCurrent
PROPERTIES NoRuleSkipped WalkEnds
CHECK_DEADLOCK FALSE

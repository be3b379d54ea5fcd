SPECIFICATION FairSpec
CONSTANTS
    p = p
    q = q
    a1 = a1
    a2 = a2
    near = near
    far = far
    secret = secret
    cheap = cheap
    small = small
    large = large
    none = none
    Names = {p, q}
    Agents = {a1, a2}
    Providers = {near, far}
    Facts = {secret}
    Models = {cheap, small, large, none}
    NoModel = none
    Zones = {"utc", "tokyo"}
    Utc = "utc"
    UnknownZones = {"nowhere"}
    LocalTime <- Clocks
    Requests <- Asked
    Submissions <- Submitted
    Drafts <- Saved
    Malformed <- Headless
    Limit = 1
    Window = 1
    MaxTime = 1
    MaxEvaluations = 2
    MaxItems = 2
    MaxChanges = 2
    MaxFaults = 1
INVARIANTS TypeOK RateHeld ReloadOwed
PROPERTIES SyncKept EditTakesEffect
CHECK_DEADLOCK FALSE

SPECIFICATION FairSpec
CONSTANTS
    Ids = {s1, s2, s3}
    NoId = NoId
    NoFile = NoFile
    NoEntry = NoEntry
    NotBlocked = NotBlocked
    Lifetime = 1
    MaxAttempts = 3
    AttemptWindow = 2
    BlockTime = 2
    MaxPasswords = 1
    MaxCalls = 1
INVARIANTS AttemptsBounded TokenFits SessionsOfPassword
PROPERTY EndNoticed
CHECK_DEADLOCK FALSE

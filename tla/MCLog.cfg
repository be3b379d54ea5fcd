SPECIFICATION FairSpec
CONSTANTS
    Limit = 3
    Full = {1}
    DayLength = 2
    MaxLines = 0
    Interval = 1
    Retain = 1
    PayloadRetain = 0
    PageSize = 1
    MaxTime = 2
    Horizon = 5
    MaxFaults = 1
    MaxPurges = 2
INVARIANTS NothingForgotten PurgeComplete InOrder ShownOnce
PROPERTIES BufferDrains RetentionEnds
CHECK_DEADLOCK FALSE

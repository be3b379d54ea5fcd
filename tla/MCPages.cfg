SPECIFICATION PagesFairSpec
CONSTANTS
    MaxPings = 3
    Texts = {t1}
    Absent = Absent
    MaxPageCalls = 1
INVARIANTS ShownFits
PROPERTIES EditsKept QueueFollows LinkSettles
CHECK_DEADLOCK FALSE

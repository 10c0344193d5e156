SPECIFICATION Spec
CONSTANTS
    k1 = k1
    k2 = k2
    v1 = v1
    v2 = v2
    Absent = Absent
    Keys <- MCKeys
    Values <- MCValues
    QueueSize = 2
    MaxLines = 4
    MaxCrashes = 2
    MaxErrors = 1
INVARIANT TypeOK FeedIsComplete
PROPERTY DurableUntilGlued
CHECK_DEADLOCK FALSE

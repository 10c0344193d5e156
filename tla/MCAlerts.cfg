SPECIFICATION FairSpec
CONSTANTS
    w1 = w1
    w2 = w2
    Workers <- MCWorkers
    MaxAlerts = 3
    MaxCrashes = 1
INVARIANT AlertsTypeOK ExpiresOnce EscalatesWithoutCrash
PROPERTY OverdueEscalates
CHECK_DEADLOCK FALSE

SPECIFICATION FairSpec
CONSTANTS
    r1 = r1
    r2 = r2
    p1 = p1
    p2 = p2
    NoPlayer = NoPlayer
    Events = 2
    Requests <- MCRequests
    Players <- MCPlayers
    MaxRequests = 3
    MaxCrashes = 1
INVARIANT TypeOK NothingSkipped StopHolds
PROPERTY PlaysToTheEnd
CHECK_DEADLOCK FALSE

SPECIFICATION FairSpec
CONSTANTS
    Sources = {"crane"}
    Api = "api"
    Watchers = {}
    Once = {}
    MaxFeed = 1
    MaxFaults <- AnyFault
INVARIANT TypeOK NoClearanceOnStale EscalationDue
PROPERTY SilenceEscalates
CHECK_DEADLOCK FALSE

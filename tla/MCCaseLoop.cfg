SPECIFICATION Spec
CONSTANTS
    LimitedKinds = {"wind_gust_kmh"}
    SiteKinds = {}
    SiteRule <- MCSiteRule
    ZoneRule = "exclusion_zone_clear"
    Workers = {"w1"}
    Zones = {"C"}
    Unmapped = "unmapped"
    Sources = {}
    Inputs <- AllInputs
    Versions <- OnePlan
    Scenes <- MCScenes
    MaxEvents = 2
    MaxImports = 1
    Faulty = {"crash", "specialist", "commander", "reset", "feed", "script"}
    MaxFaults = 1
    DedupCap = 2
    NoRules = NoRules
INVARIANT TypeOK QuiescentDecision LiftFollowsFeed WorkersWarned ConvergesOnOneRun
CHECK_DEADLOCK FALSE

SPECIFICATION Spec
CONSTANTS
    LimitedKinds = {"wind_gust_kmh"}
    SiteKinds = {}
    SiteRule <- MCSiteRule
    ZoneRule = "exclusion_zone_clear"
    Workers = {"w1"}
    Zones = {"C"}
    Unmapped = "unmapped"
    Sources = {}
    Inputs <- ReadingInputs
    Versions <- TwoPlans
    Scenes <- MCScenes
    MaxEvents = 1
    MaxImports = 2
    Faulty = {}
    MaxFaults = 0
    DedupCap = 1
    NoRules = NoRules
INVARIANT ClearedWithinLimits
CHECK_DEADLOCK FALSE

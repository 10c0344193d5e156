SPECIFICATION FairSpec
CONSTANTS
    LimitedKinds = {"wind_gust_kmh"}
    SiteKinds = {}
    SiteRule <- MCSiteRule
    ZoneRule = "exclusion_zone_clear"
    Workers = {"w1"}
    Zones = {"C"}
    Unmapped = "unmapped"
    Sources = {}
    Inputs <- LiveInputs
    Versions <- TwoPlans
    Scenes <- MCScenes
    MaxEvents = 2
    MaxImports = 2
    Faulty = {}
    MaxFaults = 0
    DedupCap = 2
    NoRules = NoRules
PROPERTY EventsDecided
CHECK_DEADLOCK FALSE

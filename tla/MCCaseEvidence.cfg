SPECIFICATION Spec
CONSTANTS
    LimitedKinds = {"wind_gust_kmh"}
    SiteKinds = {"oxygen_percent"}
    SiteRule <- MCSiteRule
    ZoneRule = "exclusion_zone_clear"
    Workers = {"w1"}
    Zones = {"C"}
    Unmapped = "unmapped"
    Sources = {"crane"}
    Readings = {0, 1}
    Documents = {plan, sop}
    StateKinds = {"lift_state"}
    MaxEvidence = 3
    MaxChunks = 2
SYMMETRY Symmetric
INVARIANT TypeOK
PROPERTY HazardReleasedBySubject LimitsRelaxOnlyByReimport LatestWins
CHECK_DEADLOCK FALSE

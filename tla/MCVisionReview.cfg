SPECIFICATION ReviewSpec
CONSTANTS
    ZoneKind <- MCZoneKind
    Pictures <- MCPictures
    Replies <- MCReplies
    Regions <- MCRegions
    DefaultZone = NoZone
    NoZone = NoZone
    Sampled = 2
    MaxPerFrame = 2
    Videos = {"walk.mp4", "walk.mov"}
    Stem <- MCStem
    FilmLength = 4
    DetectInterval = 2
    Films <- MCFilms
    MaxReviews = 2
    MaxCrashes = 1
INVARIANT ReviewTypeOK NoFindingLost RangesExact
CHECK_DEADLOCK FALSE

CONSTANTS
    Experts = {e1, e2, e3}
    NumSlots = 2
    MaxTokens = 3
    Deployments <- Supported
    WavesEnabled = TRUE
    CacheStats = TRUE
    SizeHint = 2
SPECIFICATION Spec
INVARIANTS
    TypeOK
    ActiveExpertsAreComputed
    HandoffsAreTaken
    RouteStatsAreFresh
CHECK_DEADLOCK FALSE

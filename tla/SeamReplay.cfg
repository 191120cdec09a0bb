CONSTANTS
    Experts = {e1, e2, e3}
    NumSlots = 2
    MaxTokens = 3
    Deployments <- Unsupported
    WavesEnabled = TRUE
    CacheStats = FALSE
    SizeHint = 2
SPECIFICATION Spec
INVARIANTS
    ActiveExpertsAreComputed
CHECK_DEADLOCK FALSE

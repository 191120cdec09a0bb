CONSTANTS
    e1 = e1
    e2 = e2
    e3 = e3
    Experts = {e1, e2, e3}
    None = None
    NumSlots = 2
    AsyncLoad = TRUE
    GraphMode = FALSE
    StaticResidency = FALSE
    SharedSuffix = FALSE
    Faults = TRUE
    MaxPlans = 3
    MaxMlps = 3
SPECIFICATION FairSpec
INVARIANTS
    TypeOK
    IndexCoherent
    KernelsReadTheirExperts
    NoCopyUnderAReader
    PlansAreSound
    LeasesAreAccounted
    FailuresAreContained
PROPERTIES
    LeasesOutliveKernels
    AbstractSpec
    PlansSettle
CHECK_DEADLOCK FALSE

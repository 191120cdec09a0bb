CONSTANTS
    e1 = e1
    e2 = e2
    e3 = e3
    Experts = {e1, e2, e3}
    None = None
    NumSlots = 2
    AsyncLoad = FALSE
    GraphMode = TRUE
    StaticResidency = FALSE
    SharedSuffix = TRUE
    Faults = TRUE
    MaxPlans = 4
    MaxMlps = 4
SYMMETRY ExpertSymmetry
SPECIFICATION Spec
INVARIANTS
    KernelsReadTheirExperts
    EventsMatchLeases
PROPERTIES
    LeasesOutliveKernels
CHECK_DEADLOCK FALSE

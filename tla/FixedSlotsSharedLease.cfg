CONSTANTS
    e1 = e1  e2 = e2  e3 = e3
    Experts = {e1, e2, e3}
    None = None
    NumSlots = 2
    AsyncLoad = FALSE
    GraphMode = TRUE
    StaticResidency = FALSE
    SharedSuffix = TRUE
    Faults = FALSE
    MaxPlans = 3
    MaxMlps = 3
SYMMETRY ExpertSymmetry
SPECIFICATION Spec
INVARIANTS
    LeasesHaveEvents
CHECK_DEADLOCK FALSE

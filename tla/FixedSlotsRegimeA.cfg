CONSTANTS
    e1 = e1  e2 = e2  e3 = e3
    Experts = {e1, e2, e3}
    None = None
    NumSlots = 3
    AsyncLoad = FALSE
    GraphMode = FALSE
    StaticResidency = TRUE
    SharedSuffix = FALSE
    Faults = FALSE
    MaxPlans = 1
    MaxMlps = 3
SYMMETRY ExpertSymmetry
SPECIFICATION Spec
INVARIANTS
    BeginNeverRaises
CHECK_DEADLOCK FALSE

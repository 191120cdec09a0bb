CONSTANTS
    Layers = {l1, l2}
    Experts = {e1, e2}
    Shared = {s1}
    ResidentLayer = l2
    Deployments <- Supported
    MaxRegistrations = 2
SPECIFICATION Spec
SYMMETRY ExpertsAreAlike
INVARIANTS
    TypeOK
    KernelsHaveWeights
    ReleasesAreSafe
    LedgerIsFresh
PROPERTIES
    CapturedAddressesStay
CHECK_DEADLOCK FALSE

CONSTANTS
    Layers = {l1, l2}
    Experts = {e1, e2}
    Shared = {s1}
    ResidentLayer = l2
    Deployments <- CpuFirstStatic
    MaxRegistrations = 2
SPECIFICATION Spec
INVARIANT StaticMappingsAreFilled
CHECK_DEADLOCK FALSE

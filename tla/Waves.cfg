CONSTANTS
    NumBuffers = 2
    Depths = {0, 1, 2}
    AsyncModes = {TRUE, FALSE}
    OverflowModes = {"multi_wave", "full_layer"}
    MaxWaves = 3
    MaxForwards = 3
SPECIFICATION FairSpec
INVARIANTS
    TypeOK
    WavesReadTheirWeights
    CopiesAndKernelsAreOrdered
    BuffersAreHandedOver
    PrefetchedWavesAreNext
    AssignNeedsAFailure
PROPERTIES
    AbstractSpec
    EverythingFinishes
CHECK_DEADLOCK FALSE

CONSTANTS
    NumExperts = 5
    NumSlots = 2
    NumTokens = 3
    TopK = 2
SPECIFICATION Spec
INVARIANTS
    TypeOK
    WavesFitTheSlots
    WavesAreBalanced
    PairsArePlannedOnce
    WavesAreStagedInOrder
    OutputsAreAtHome
CHECK_DEADLOCK FALSE

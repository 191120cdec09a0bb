CONSTANTS
    DefaultModel <- Default8
    Models <- ServedModels
    Shells <- SomeShells
    Readings <- SomeReadings
    Profiles <- SomeProfiles
    Workers = {w1, w2}
    ReferenceTarget = 24
SPECIFICATION Spec
INVARIANT SlotBanksFitTheBudget
CHECK_DEADLOCK FALSE

CONSTANTS
    NumLayers = 2
    Models <- TwoLayerModels
    RoutedTopK = 2
    SharedCount = 1
    MaxForwards = 2
SPECIFICATION Spec
INVARIANTS
    TypeOK
    KernelsUseTheirRouting
    OnlyQualifiedLayersServe
    SharedOutputsAreComplete
CHECK_DEADLOCK FALSE

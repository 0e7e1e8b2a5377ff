SPECIFICATION Spec
CONSTANTS
    NumNodes <- MCNumNodes
    Type <- MCType
    Fanin <- MCFanin
    OnSet <- MCOnSet
    DelayModels <- MCDelayModels
    Options <- MCOptions
    SizeTRange <- MCSizeTRange
INVARIANT OutputProbabilityIsOne
CHECK_DEADLOCK FALSE

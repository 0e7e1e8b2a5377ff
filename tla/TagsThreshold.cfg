SPECIFICATION Spec
CONSTANTS
    NumNodes <- MCNumNodes
    Type <- MCType
    Fanin <- MCFanin
    OnSet <- MCOnSet
    DelayModels <- MCStraddlingDelays
    Options <- MCStraddlingOptions
    SizeTRange <- MCSizeTRange
PROPERTY NeverAcrossThreshold
CHECK_DEADLOCK FALSE

SPECIFICATION Spec
CONSTANTS
    NumNodes <- MCNumNodes
    Type <- MCType
    Fanin <- MCFanin
    OnSet <- MCOnSet
    DelayModels <- MCDelayModels
    Options <- MCDefaultBinOptions
    SizeTRange <- MCSizeTRange
PROPERTY EveryNodeVisited
CHECK_DEADLOCK FALSE

SPECIFICATION Spec
CONSTANTS
    NumNodes <- MCNumNodes
    Type <- MCType
    Fanin <- MCFanin
    OnSet <- MCOnSet
    DelayModels <- MCDelayModels
    Options <- MCOptions
    SizeTRange <- MCSizeTRange
INVARIANTS CoversEveryScenario TransitionsAreSound ArrivalsWithinSta MaxDelayOfEveryScenario
PROPERTIES MergingIsBounded EveryNodeVisited
CHECK_DEADLOCK FALSE

SPECIFICATION Spec
CONSTANTS
    NumNodes <- MCNumNodes
    Type <- MCType
    Fanin <- MCFanin
    OnSet <- MCOnSet
    DelayModels <- MCDelayModels
    Options <- MCOptions
    SizeTRange <- MCSizeTRange
    NVarsPerInput <- MCNVarsPerInput
INVARIANTS TypeOK EveryScenarioOnce TransitionsAreSound MatchesSimulation FullyMerged MaxDelayOfEveryScenario InputsArePartitioned
PROPERTY OnlyCurrentNode
CHECK_DEADLOCK FALSE

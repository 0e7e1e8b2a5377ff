SPECIFICATION Spec
CONSTANTS
    Clock = "clk"
    Inputs <- MCInputs
    Outputs <- MCOutputs
    HalfPeriod = 2
    MaxQuiet = 5
INVARIANTS TypeOK EveryPairOnce NeverFails
PROPERTIES RowsMatchSimulation SimulationStops
CHECK_DEADLOCK FALSE

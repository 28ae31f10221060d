SPECIFICATION Spec
CHECK_DEADLOCK FALSE
CONSTANTS
    Window = 1
    NumDims = 1
    Gaps <- MCFlat
    MaxPivots = 2
    MaxNew = 1
    MaxStrategies = 5
    MaxCycles = 6
    MaxRuns = 1
    MaxFailures = 0
INVARIANTS
    PivotsLimited

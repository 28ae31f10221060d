SPECIFICATION Spec
CHECK_DEADLOCK FALSE
CONSTANTS
    d1 = d1
    Dims = {d1}
    MaxIterations = 2
    MinIterations = 1
    MaxConsecutiveErrors = 2
    MaxConsecutiveSkips = 1
    Budget = 3
    SharedBudget = TRUE
    UseStateDiff = TRUE
    DryRun = FALSE
    MaxRuns = 2
    MaxCrashes = 1
    MaxEdits = 1
INVARIANTS
    TwoCycleConfirmation
PROPERTIES
    CheckpointAdvances
    CompletedOnlyWhenSeen

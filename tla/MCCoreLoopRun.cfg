SPECIFICATION Spec
CHECK_DEADLOCK FALSE
CONSTANTS
    d1 = d1
    Dims = {d1}
    MaxIterations = 3
    MinIterations = 1
    MaxConsecutiveErrors = 2
    MaxConsecutiveSkips = 1
    Budget = 3
    SharedBudget = FALSE
    UseStateDiff = TRUE
    DryRun = FALSE
    MaxRuns = 1
    MaxCrashes = 0
    MaxEdits = 0
INVARIANTS
    TypeOK
    FinalStatusJustified
    NoOverrun
    MetTwiceCompletes

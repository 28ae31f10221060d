SPECIFICATION Spec
CHECK_DEADLOCK FALSE
CONSTANTS
    r = r
    a = a
    b = b
    c = c
    d = d
    None = None
    Nodes = {r, a, b, c, d}
    Root = r
    Parent <- MCParent
    Preorder <- MCPreorder
    TreeModes = {TRUE}
    ParallelLimit = 2
    PerNodeLimit = 2
    MaxIterations = 2
    MinIterations = 1
    MaxRuns = 2
    MaxCrashes = 0
INVARIANTS
    RootCompletesLast

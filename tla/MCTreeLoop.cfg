SPECIFICATION Spec
CHECK_DEADLOCK FALSE
CONSTANTS
    r = r
    a = a
    b = b
    c = c
    d = d
    None = None
    Nodes = {r, a, b, c, d}
    Root = r
    Parent <- MCParent
    Preorder <- MCPreorder
    TreeModes = {TRUE, FALSE}
    ParallelLimit = 2
    PerNodeLimit = 2
    MaxIterations = 4
    MinIterations = 3
    MaxRuns = 2
    MaxCrashes = 1
INVARIANTS
    TreeVerdictSound
    CascadeSound
    FreshRunUnblocked

SPECIFICATION FairSpec
CHECK_DEADLOCK FALSE
CONSTANTS
    Procs = {p1, p2}
    None = None
    Goals = {g1, g2}
    Requests = {{g1}, {g2}}
    MaxRetries = 1
    Overlap = FALSE
    MaxFailures = 1
    MaxCrashes = 1
INVARIANTS
    MarkerTrue
    EndRecorded
    InterruptedRestored
PROPERTIES
    PidNames
    StoppingEnds

SPECIFICATION Spec
CHECK_DEADLOCK FALSE
CONSTANTS
    least = least
    most = most
    Dims = {least, most}
    Kind <- MCKind
    Gated = FALSE
    Values = {0, 500}
    MaxCycles = 2
    MaxEdits = 1
    MaxCrashes = 1
INVARIANTS
    Consent
PROPERTIES
    UpdateBounded

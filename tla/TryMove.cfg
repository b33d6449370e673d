SPECIFICATION Spec
CONSTANTS
    Paths = {a, b, c}
    Directories = TRUE
    MaxMoves = 2
    MaxFaults = 2
INVARIANTS
    NothingLost
    OneFaultIsUndone
PROPERTY ImplementsContract
CHECK_DEADLOCK FALSE

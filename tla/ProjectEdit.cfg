CONSTANTS
    P1 = P1
    P2 = P2
    Proc <- MCProc
    Path <- MCPath
    Contents <- MCContents
    Std <- MCStd
    Malformed <- MCMalformed
    Disks <- MCDisks
    Worlds <- MCWorlds
    Requests <- MCRequests
    MaxCommands = 2
    MaxEdits = 1
    MaxFaults = 1
SYMMETRY MCSymmetry
SPECIFICATION Spec
INVARIANT IndexWithinChecksums
INVARIANT IndexAgreesWithDigests
INVARIANT NoDuplicateUsages
PROPERTY FailureKeepsProject
PROPERTY LockIsCurrent
CHECK_DEADLOCK FALSE

SPECIFICATION Spec
CONSTANTS
    Iris <- MCIris
    Worlds <- MCWorlds
    Roots <- MCRoots
    NewVersion <- MCNewVersion
    MaxFaults = 1
INVARIANTS LockSatisfiesUsages LockReadsBack LockIsCanonical NoBetterChoice LocalCopiesOnlySubstitute
PROPERTY LockEnds

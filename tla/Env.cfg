SPECIFICATION Spec
CONSTANTS
    w = w
    x = x
    y = y
    z = z
    a1 = a1
    a2 = a2
    b = b
    s1 = s1
    s2 = s2
    s3 = s3
    Iris <- MCIris
    Builds <- MCBuilds
    VersionOf <- MCVersionOf
    Sites <- MCSites
    Served <- MCServed
    Users <- MCUsers
    Provided <- MCProvided
    Stem <- MCStem
    MaxEntries = 5
INVARIANTS
    LibAsListed
    OneDirectoryEach
PROPERTIES
    SyncOkMeansInstalled
    SyncOkMeansEditable
    OthersUntouched

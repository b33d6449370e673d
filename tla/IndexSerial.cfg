CONSTANTS
    Projects = {p1}
    Versions = {1, 2}
    Builds = {b1, b2}
    Procs = {c1}
SPECIFICATION SerialSpec
INVARIANTS VersionFilesPresent RemovedProjectHasNoLiveVersion
PROPERTY AddOkMeansPublished

CONSTANTS
    Projects = {p1}
    Versions = {1, 2}
    Builds = {b1}
    Tasks = {t1, t2}
    Configs <- MCConfigs
    MaxChanges = 2
    MaxFaults = 1
SPECIFICATION Spec
INVARIANTS CandidatesCanBeOpened CachedIsValid OneRoot
PROPERTIES CallsReturn

CONSTANTS
    Projects = {p1}
    Versions = {1, 2}
    Builds = {b1}
    Procs = {c}
SPECIFICATION SerialHistory
INVARIANT VersionsPersist

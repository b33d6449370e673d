CONSTANTS
    Projects = {p1}
    Versions = {1, 2, 3}
    Builds = {b1, b2}
    Procs = {c}
SPECIFICATION CleanSpec
INVARIANTS VersionsNewestFirst
PROPERTIES ImplementsProtocol CommandsEnd RetiredIsWithdrawn

CONSTANTS
    Projects = {p1}
    Versions = {1}
    Builds = {b1, b2}
    Procs = {c1, c2, c3}
SPECIFICATION SharedSpec
SYMMETRY Symmetry
INVARIANTS OneArchivePerDirectory

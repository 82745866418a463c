SPECIFICATION Spec
CONSTANTS
    Procs = {p1, p2}
    Keys = {k1, k2}
    Deps = {d1}
    Versions = {1, 2}
    Recorded = {k1}
    Project = project
    MaxOps = 3
    MaxFaults = 1
PROPERTIES Atomic CommandsEnd
CHECK_DEADLOCK FALSE

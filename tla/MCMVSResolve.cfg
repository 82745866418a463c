SPECIFICATION FairSpec
CONSTANTS
    a = a
    b = b
    c = c
    Paths = {a, b, c}
    Versions <- MCVersions
    Parsed <- MCParsed
    Root = root
    None = none
    MaxDeps = 2
    Universe <- MCUniverse
INVARIANT Closed
PROPERTIES NeverLowered Terminates
CHECK_DEADLOCK FALSE

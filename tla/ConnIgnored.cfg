CONSTANTS
    Closer = {c1, c2}
    MaxRuns = 3
    Path = {dir, vdir}
    Shared = {dir}
    NoPath = NoPath
    Root = Root
    Calls <- MCTried
SPECIFICATION CSpec
PROPERTY InMemoryIgnoresDirs
CHECK_DEADLOCK FALSE

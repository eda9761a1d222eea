CONSTANTS
    Closer = {c1, c2}
    MaxRuns = 3
    Path = {dir, vdir}
    Shared = {dir}
    NoPath = NoPath
    Root = Root
    Calls <- MCTried
SPECIFICATION FairCSpec
INVARIANTS CTypeOK GcOnlyOnDisk
PROPERTIES GcStops CloseReturns MonitorStops FilesSurvive TempOpensFresh
CHECK_DEADLOCK FALSE

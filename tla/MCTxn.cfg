CONSTANTS
    Client = {c1, c2}
    Key = {k1, k2}
    Value = {v1}
    Absent = Absent
    Untouched = Untouched
    OptMaxRetries = 1
    DetectConflicts = TRUE
    MaxCommits = 1
    MaxTouches = 2
SPECIFICATION HSpec
INVARIANTS TypeOK AtMostOnce RetryBudget StoppedByContext
PROPERTIES SerialSpec
SYMMETRY Symmetry
CONSTRAINT SmallClosures

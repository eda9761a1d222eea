CONSTANTS
    Client = {c1, c2}
    Key = {k1}
    Value = {v1}
    Absent = Absent
    Untouched = Untouched
    OptMaxRetries = 1
    DetectConflicts = TRUE
    MaxCommits = 1000000
SPECIFICATION FairSpec
VIEW Untimed
PROPERTIES CallReturns NoLostUpdate

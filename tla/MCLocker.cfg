CONSTANTS
    Client = {c1, c2}
    PK = {p1}
    Owner = {worker}
    TTL = {1, 2}
    MaxNow = 3
    MaxStamp = 3
    Key <- MCKey
    Value <- MCValue
    Absent = Absent
    Untouched = Untouched
    NotRead = NotRead
    OptMaxRetries = 1
    DetectConflicts = TRUE
    MaxCommits = 2
SPECIFICATION LSpec
INVARIANTS LTypeOK LiveHolderOwnsKey RefusedWhenLocked
PROPERTIES LockSpec
SYMMETRY Symmetry
VIEW Relevant

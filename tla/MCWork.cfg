CONSTANTS
    Client = {c1, c2}
    p1 = p1
    PK = {p1}
    Page <- OneRow
    Owner = {worker}
    TTL = {1, 2}
    MaxNow = 4
    MaxStamp = 4
    Key <- MCKey
    Value <- MCValue
    Absent = Absent
    Untouched = Untouched
    NotRead = NotRead
    OptMaxRetries = 1
    DetectConflicts = TRUE
    MaxCommits = 5
SPECIFICATION WSpec
INVARIANTS WorkIsExclusive NothingForgotten NoLockLeftBehind
VIEW Relevant
CHECK_DEADLOCK FALSE

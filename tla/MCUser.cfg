CONSTANTS
    Client = {c1, c2}
    UpsertId = {i1}
    InsertId = {i2}
    User <- MCUsers
    Blank = Blank
    Norm <- MCNorm
    Inserted <- MCInserted
    Key <- MCKey
    Value <- MCValue
    Absent = Absent
    Untouched = Untouched
    OptMaxRetries = 1
    DetectConflicts = TRUE
    MaxCommits = 3
SPECIFICATION USpec
INVARIANTS UTypeOK RowsAreIndexed DanglingOnlyAfterFailure
PROPERTIES RowsSpec
SYMMETRY Symmetry
VIEW Relevant

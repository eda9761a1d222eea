CONSTANTS
    NumRows = 2
    NumEntries = 3
    MaxLimit = 2
    MaxWrites = 2
SPECIFICATION FairSpec
INVARIANTS ITypeOK ViewIsExact InOrderOnce NothingSkipped
PROPERTIES WalkEnds
VIEW Relevant

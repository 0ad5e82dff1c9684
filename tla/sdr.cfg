\* Three records, read in one to three pieces while others change them.
SPECIFICATION FairSpec
CONSTANTS
    Ids = {1, 2, 3}
    Lengths <- MCLengths
    MaxRead = 2
    Tries = 2
    MaxChanges = 2
    MaxLookups = 2
INVARIANTS TypeOK RecordWhole WalkComplete
PROPERTY LookupEnds
CHECK_DEADLOCK FALSE

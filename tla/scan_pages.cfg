SPECIFICATION FairSpec
CONSTANTS
    PageSize = 2
    maxJobsTotal = 3
    Matching <- Odd
    MaxItems = 5
    MaxKept = 99
    Scanners <- Paging
CHECK_DEADLOCK FALSE
INVARIANTS TypeOK NothingMissed NothingTwice Exact
PROPERTY ScanEnds

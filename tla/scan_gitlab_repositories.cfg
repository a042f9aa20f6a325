SPECIFICATION FairSpec
CONSTANTS
    PageSize = 2
    maxJobsTotal = 3
    Matching <- Odd
    MaxItems = 4
    MaxKept = 5
    Scanners = {"ListRepositories"}
CHECK_DEADLOCK FALSE
PROPERTY ScanEnds

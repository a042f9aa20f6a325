SPECIFICATION Spec
CONSTANTS
    Absent = Absent
    RawPages <- SmallPages
    RawPerPages <- SmallPerPages
    DefaultPerPage = 2
    MaxPerPage = 3
    ghPostFilterPageSize = 2
    ghPostFilterMaxPages = 2
    MaxInt = 127
    MaxPulls = 5
CHECK_DEADLOCK FALSE
INVARIANTS TypeOK WindowExact TotalTellsMore OnceEach

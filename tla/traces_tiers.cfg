SPECIFICATION Spec
CONSTANTS
    Jobs = {j1}
    Callers = {c1, c2}
    Listers = {l1}
    None = None
    Failed = Failed
    MaxTraceBytes = 2
    MaxCacheableTraceBytes = 1
    MaxLog = 3
    MaxInvs = 1
SYMMETRY CallerSymmetry
INVARIANTS
    TypeOK
    OneTier
    ReadsNeverGoBack
    OneFetchPerJob
    FinishedOnly
    ListedIsMarked
    InvalidateClears

SPECIFICATION FairSpec
CONSTANTS
    Jobs = {j1}
    Callers = {c1, c2}
    Listers = {l1}
    None = None
    Failed = Failed
    MaxTraceBytes = 1
    MaxCacheableTraceBytes = 1
    MaxLog = 1
    MaxInvs = 0
PROPERTIES ReadsSpec RequestAnswered

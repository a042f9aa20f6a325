SPECIFICATION Spec
CONSTANTS
    Jobs = {j1}
    Callers = {c1}
    Listers = {l1}
    None = None
    Failed = Failed
    MaxTraceBytes = 1
    MaxCacheableTraceBytes = 1
    MaxLog = 1
    MaxInvs = 0
INVARIANT DoneTierIsFinal

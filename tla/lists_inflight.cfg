SPECIFICATION Spec
CONSTANTS
    Callers = {c1}
    Keys = {k1}
    None = None
    Begun = Begun
    Failed = Failed
    MaxVersion = 1
    MaxToken = 0
    MaxChanges = 1
INVARIANT Invalidation
CHECK_DEADLOCK FALSE

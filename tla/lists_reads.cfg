SPECIFICATION FairSpec
CONSTANTS
    Callers = {c1, c2}
    Keys = {k1}
    None = None
    Begun = Begun
    Failed = Failed
    MaxVersion = 1
    MaxToken = 1
    MaxChanges = 1
INVARIANTS TypeOK QuietInvalidation
PROPERTIES RotatedTokenGoes ReadsSpec Answered
CHECK_DEADLOCK FALSE

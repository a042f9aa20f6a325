SPECIFICATION FairSpec
CONSTANTS
    gh = gh
    other = other
    Servers = {gh, other}
    Callers = {c1}
    None = None
    Failed = Failed
    GitProvider <- Providers
    Pages = 2
INVARIANTS TypeOK WholeLists CleanExit ForcedForCause
PROPERTIES ShutdownEnds Answered
CHECK_DEADLOCK FALSE

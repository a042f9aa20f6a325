SPECIFICATION Spec
CONSTANTS
    Characters <- Alphabet
    Paths <- OneKey
    States <- SentStates
    MaxCached = 1
INVARIANT DocumentedCodes

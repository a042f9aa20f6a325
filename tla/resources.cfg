SPECIFICATION Spec
CONSTANTS
    Characters <- Alphabet
    Paths <- OneKey
    States <- SentStates
    MaxCached = 2
INVARIANTS TypeOK OwnAnswer StatesAgree CodeTells

SPECIFICATION Spec
CONSTANTS
    None = None
    Pipelines = {p1}
    MaxRetries = 1
INVARIANTS TypeOK ListsAgree CodeTells TriggersOnce

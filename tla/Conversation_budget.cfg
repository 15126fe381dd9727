SPECIFICATION Spec
CONSTANTS
    Turns = {1}
    MaxToolCalls = 5
    ContextModes = {0}
    Concurrent = FALSE
    Faults = {}
    MaxBatch = 1
    MaxClock = 0
INVARIANTS
    DocumentedRoundLimit

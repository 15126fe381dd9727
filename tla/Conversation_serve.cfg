SPECIFICATION Spec
CONSTANTS
    Turns = {1, 2}
    MaxToolCalls = 2
    ContextModes <- MCModes
    Concurrent = TRUE
    Faults = {"prompt", "store", "read", "history", "llm", "executor"}
    MaxBatch = 1
    MaxClock = 0
INVARIANTS
    AnsweredBeforeNextCall
    LedgerMatchesMessages
    ContextHoldsTurn
    ContextIsolated
PROPERTIES
    Terminates
    ImplementsLedger

SPECIFICATION Spec
CONSTANTS
    Turns = {1, 2, 3}
    MaxToolCalls = 1
    ContextModes <- MCModes
    Concurrent = FALSE
    Faults = {"store"}
    MaxBatch = 2
    MaxClock = 1
INVARIANTS
    TypeOK
    AnswersInOrder
    RequestAccepted
    HistoryCovered
    CompletedInOrder

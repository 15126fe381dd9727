SPECIFICATION Spec
CONSTANTS
    MaxToolCalls = 2
    Limits = {1, 2}
    MaxBatch = 2
    Faults = {"model", "store", "llm", "executor", "disconnect"}
INVARIANTS
    ConnectedGetsEnd
    OutcomeMatchesTurn
    NothingAfterReturn
PROPERTIES
    RunEnds
    ImplementsProtocol

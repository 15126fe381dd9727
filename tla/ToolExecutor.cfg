SPECIFICATION Spec
CONSTANTS
    MaxCalls = 3
    Limits = {1, 2}
    Tools = {search, route}
    HandlerFails = TRUE
INVARIANTS
    ConcurrencyBounded
    ResultsMatchCalls
    OnlyHandlersFail
    AudienceKept
PROPERTIES
    NothingRunsOn
    ExecuteReturns
    ImplementsBatch

\* Two turns of up to two calls of one token each, a queue of two.
CONSTANTS
    Turns = {1, 2}
    Models <- MCModels
    Tokens = {1}
    MaxCalls = 2
    Capacity = 2
    None = None
SPECIFICATION Spec
INVARIANTS
    ExportedWasStored
    TurnSpanSumsUp
PROPERTIES
    TurnsEnd
CHECK_DEADLOCK FALSE

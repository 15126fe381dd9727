\* One turn, to see what its spans name.
CONSTANTS
    Turns = {t1}
    Models <- MCModels
    Tokens = {1}
    MaxCalls = 2
    Capacity = 2
    None = None
SPECIFICATION Spec
INVARIANTS
    GenerationsNameModel
CHECK_DEADLOCK FALSE

\* One request in flight when the signal comes.
CONSTANTS
    Requests = {r1}
    Deadline = 30
SPECIFICATION Spec
INVARIANTS
    DrainedForDeadline
CHECK_DEADLOCK FALSE

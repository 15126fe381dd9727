SPECIFICATION Spec
CONSTANTS
    Servers = {owm}
    Calls = {c1, c2}
    NoCall = none
    MaxSessions = 5
    MaxLosses = 1
    Faults = {}
INVARIANTS
    HealthyServerAnswers

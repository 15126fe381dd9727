SPECIFICATION Spec
CONSTANTS
    Servers = {owm, ign}
    Calls = {c1, c2}
    NoCall = none
    MaxSessions = 4
    MaxLosses = 1
    Faults = {"dial", "list", "call", "commands", "foreign", "shutdown"}
INVARIANTS
    OneReconnection
    NoSessionLeak
    CatalogueMatches
    RetryOnlyOvertaken
PROPERTIES
    CallsEnd

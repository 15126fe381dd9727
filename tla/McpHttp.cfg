\* Two requests of one client, two keys, both methods together or fewer.
CONSTANTS
    Requests = {r1, r2}
    Clients = {client}
    Kids = {k1, k2}
    Nobody = nobody
    NoToken = none
    Methods = {{}, {"oauth"}, {"oauth", "apikey"}, {"apikey"}}
    Burst = 1
    Rate = 1
    IdleTtl = 1
    CacheTtl = 2
    Timeout = 1
SPECIFICATION Spec
SYMMETRY Alike
INVARIANTS
    EvictionUnseen
    FreshKey
    RotationNoticed
PROPERTIES
    OneFetchPerPeriod
CHECK_DEADLOCK FALSE

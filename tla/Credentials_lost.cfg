SPECIFICATION Spec
CONSTANTS
    Task = {t1, t2}
    Rpc = {r1}
    Subscriber = {}
    NoRecord = NoRecord
    Torn = Torn
    TornParses = FALSE
    Ttl = 1
    MaxClients = 2
    MaxSecrets = 2
    MaxTime = 0
    MaxCrashes = 0
SYMMETRY Symmetry
CHECK_DEADLOCK FALSE
INVARIANT ReturnedCredentialsPersist

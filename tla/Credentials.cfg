SPECIFICATION Spec
CONSTANTS
    Task = {t1, t2}
    Rpc = {r1}
    Subscriber = {u1}
    NoRecord = NoRecord
    Torn = Torn
    TornParses = TRUE
    Ttl = 1
    MaxClients = 2
    MaxSecrets = 2
    MaxTime = 1
    MaxCrashes = 1
SYMMETRY Symmetry
CHECK_DEADLOCK FALSE
INVARIANTS MemoryWasSaved AuthenticatedBySavedSecret UndisturbedStoreAgrees ClientsViewIsCurrent
CONSTRAINT OneOfEach

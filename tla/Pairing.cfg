SPECIFICATION Spec
CONSTANTS
    Rpc = {r1, r2}
    Key = {k1, k2}
    Task = {t1, t2}
    Ttl = 1
    MaxAttempts = 2
    MaxTime = 2
SYMMETRY Symmetry
CHECK_DEADLOCK FALSE
INVARIANTS ChallengeIsCurrent IssuedToConfirmedStarter CodeIsOneTime
PROPERTY NothingIssuedAfterSuperseded

SPECIFICATION FairSpec
CONSTANTS
    Tool = {t1}
    Request = {q1, q2}
    MaxSessions = 2
    MaxCredentials = 2
CHECK_DEADLOCK FALSE
INVARIANTS
    OneTransport
    InfoIsCurrent
    SessionsMatchMachine
    ConnectionMatchesSession
PROPERTIES
    ClosedIsQuiet
    LoadingEnds

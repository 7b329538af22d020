SPECIFICATION Spec
CONSTANTS
    Worker = {w1, w2}
    Subscriber = {u1}
    NoRow = NoRow
    Capacity = 2
    MaxSessions = 2
    MaxRev = 2
SYMMETRY Symmetry
CHECK_DEADLOCK FALSE
INVARIANT NewSessionsUpserted

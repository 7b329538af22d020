SPECIFICATION Spec
CONSTANTS
    Worker = {w1, w2}
    Subscriber = {u1}
    NoRow = NoRow
    Capacity = 1
    MaxSessions = 2
    MaxRev = 1
SYMMETRY Symmetry
CHECK_DEADLOCK FALSE
INVARIANTS RowsWereReal LaterSessionsListed SequentialViewIsExact

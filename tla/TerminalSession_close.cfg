SPECIFICATION FairSpec
CONSTANTS
    h1 = h1
    h2 = h2
    Handler = {h1, h2}
    Rpc = {r1, r2}
    Procs <- CloseRace
    AfterSeq = {NoSeq}
    NoSeq = NoSeq
    NoOwner = NoOwner
    Size = {s1}
    Title = {}
    NoTitle = NoTitle
    Chunk = {1}
    Retention = 1
    Capacity = 1
    ResizeMayFail = TRUE
    MaxAttach = 1
    MaxSeq = 1
    MaxEvents = 5
CHECK_DEADLOCK FALSE
INVARIANTS NoOrphanChild InputAuthorized OwnersAreLive
PROPERTIES ClosedIsFinal CloseEndsStreams ExitEndsStreams

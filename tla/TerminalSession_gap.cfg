SPECIFICATION Spec
CONSTANTS
    h1 = h1
    h2 = h2
    Handler = {h1}
    Rpc = {r1}
    Procs <- Viewer
    AfterSeq = {NoSeq, 0}
    NoSeq = NoSeq
    NoOwner = NoOwner
    Size = {s1}
    Title = {}
    NoTitle = NoTitle
    Chunk = {1}
    Retention = 2
    Capacity = 1
    ResizeMayFail = FALSE
    MaxAttach = 1
    MaxSeq = 3
    MaxEvents = 5
CHECK_DEADLOCK FALSE
INVARIANT GapNamesNextSeq

SPECIFICATION Spec
CONSTANTS
    h1 = h1
    h2 = h2
    Handler = {h1}
    Rpc = {r1}
    Procs <- Viewer
    AfterSeq = {NoSeq, 0, 1}
    NoSeq = NoSeq
    NoOwner = NoOwner
    Size = {s1, s2}
    Title = {t1}
    NoTitle = NoTitle
    Chunk = {1, 2}
    Retention = 2
    Capacity = 2
    ResizeMayFail = FALSE
    MaxAttach = 1
    MaxSeq = 3
    MaxEvents = 4
CHECK_DEADLOCK FALSE
INVARIANTS RetainedTail NoSilentGap ResumeExact ReportedControlIsCurrent
CONSTRAINT WaitSucceeds

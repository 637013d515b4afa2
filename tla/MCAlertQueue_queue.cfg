SPECIFICATION FairSpec

CONSTANTS
    a1 = a1
    a2 = a2
    a3 = a3
    Alerts = {a1, a2, a3}
    Size <- Sizes
    MaxBatch = 2
    Environments <- CalmAndStormy
    MaxCrashes = 2

INVARIANTS
    CursorInFile
    OncePerLife
PROPERTIES
    ImplementsFifo
    EventuallyUploaded

\* A queue that is drained after the last alert may stop for good.
CHECK_DEADLOCK FALSE

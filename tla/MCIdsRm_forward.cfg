SPECIFICATION Spec

CONSTANTS
    QueueDepth = 1
    SinkDepth = 2
    RetryCount = 1
    ApiOps = {"enable", "url", "stats", "sink", "resink"}
    Faults = {"peer"}
    MaxEvents = 2
    MaxSessions = 1

INVARIANTS
    TypeOK
    Accounting
    Flushed
    InOrder

\* A forwarder that is stopped has nothing left to do.
CHECK_DEADLOCK FALSE

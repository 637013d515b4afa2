SPECIFICATION FairSpec

CONSTANTS
    QueueDepth = 1
    SinkDepth = 1
    RetryCount = 1
    ApiOps = {"sink", "resink"}
    Faults = {"peer"}
    MaxEvents = 2
    MaxSessions = 1

PROPERTIES
    EveryEventAnswered
    SinkServed

\* A forwarder that is stopped has nothing left to do.
CHECK_DEADLOCK FALSE

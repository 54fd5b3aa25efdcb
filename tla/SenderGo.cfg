CONSTANTS
    Producers = {c1}
    Starters = {c1}
    Stoppers = {c1, c2}
    Closers = {c3}
    Deadline = TRUE
    QueueMax = 2
    BatchSize = 2
    MaxRetries = 1
    MaxEvents = 3
    MaxStarts = 1
    Nobody = Nobody
SPECIFICATION FairSpec
INVARIANTS
    TypeOK
    EveryEventAccounted
    ReceivedInOrder
    StopIsClean
PROPERTIES
    QueueIsFlushed
    CallsReturn
CHECK_DEADLOCK FALSE

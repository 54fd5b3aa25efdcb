CONSTANTS
    Runtimes = {rt1, rt2}
    QueueMax = 1
    BatchSize = 2
    MaxRetries = 1
    JoinTimesOut = TRUE
    MaxEvents = 2
    MaxSenders = 2
    Nobody = Nobody
SPECIFICATION FairSpec
INVARIANTS
    TypeOK
    EveryEventAccounted
    StopDrains
    OneInCharge
PROPERTY
    QueueIsForwarded
CHECK_DEADLOCK FALSE

CONSTANTS
    Agents = {a1}
    Workers = {w1}
    Threads = {t1}
    LocalOps = {}
    WarmStart = FALSE
    StaleMode = "warn"
    StaleThreshold = 1
    DiskWritable = TRUE
    PollTicks = 1
    Expiry = 0
    MaxVersion = 3
    MaxTime = 0
SPECIFICATION FairSpec
PROPERTIES
    KillEnforced

CONSTANTS
    Agents = {a1}
    Workers = {w1, w2}
    Threads = {t1}
    LocalOps = {}
    WarmStart = FALSE
    StaleMode = "warn"
    StaleThreshold = 1
    DiskWritable = TRUE
    PollTicks = 1
    Expiry = 0
    MaxVersion = 2
    MaxTime = 0
    Second = w2
SPECIFICATION OverlapSpec
PROPERTIES
    Converges
    BlanketKillEnforced

CONSTANTS
    Agents = {a1, a2}
    Workers = {w1}
    Threads = {t1}
    LocalOps = {}
    WarmStart = TRUE
    StaleMode = "warn"
    StaleThreshold = 1
    DiskWritable = TRUE
    PollTicks = 1
    Expiry = 0
    MaxVersion = 3
    MaxTime = 0
SPECIFICATION Spec
INVARIANTS
    TypeOK
    DecisionsFollowVersion
    FileIsWhole
    NoInventedKill
PROPERTIES
    KeepsPromise
    DiskForgetsOnlyOnCommand

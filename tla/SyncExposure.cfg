CONSTANTS
    Agents = {a1, a2}
    Workers = {w1, w2}
    Threads = {t1}
    LocalOps = {"revoke", "clear", "blanket"}
    WarmStart = FALSE
    StaleMode = "deny"
    StaleThreshold = 1
    DiskWritable = FALSE
    PollTicks = 1
    Expiry = 4
    MaxVersion = 2
    MaxTime = 4
    Victim = a1
SPECIFICATION Spec
ACTION_CONSTRAINT Within
INVARIANTS
    BoundedExposure
PROPERTIES
    ReleasedOnlyOnCommand
SYMMETRY Symmetry

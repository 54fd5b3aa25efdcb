CONSTANTS
    Actors = {x1, x2}
    FileMax = 1
    DiskFails = FALSE
    Packs <- SmallPacks
    Bundles <- SmallBundles
    PackTtl = 1
    FetchLag = 1
    TokenTtls = {1}
    Grace = 1
    ReplayLag = 1
    Retries = 3
    Agents = {"a"}
    Threads = {"host"}
    Worker = "worker"
    Pollers = {"worker"}
    LocalOps = {"revoke", "clear", "blanket"}
    BothOps = FALSE
    MaxEvents = 6
    MaxTime = 2
    MaxCalls = 1
    MaxBundles = 3
    MaxChanges = 2
    MaxIssued = 2
    MaxKeys = 2
    MaxTicks = 3
    MaxTokens = 3
    MaxClients = 3
    MaxVersion = 2
SPECIFICATION Spec
INVARIANT EveryRunIsRecorded
CHECK_DEADLOCK FALSE

CONSTANTS
    Actors = {x1, x2}
    Asked <- SmallRequests
    Modes = {"enforce", "shadow"}
    ReachabilityTtl = 2
    ProbeLag = 1
    DiskFails = TRUE
    RotationSize = 1
    Crashes = TRUE
    Upstreams <- TwoUpstreams
    Listings <- SmallListings
    Approved <- SomeApproved
    Alerting <- SomeAlerting
    KeyPinned = TRUE
    MaxAge = 1
    TokenFailures = {"document", "raises"}
    ResultTtls = {1}
    SidecarLag = 1
    MaxEntries = 5
    MaxTokens = 3
    MaxClients = 3
    MaxRequests = 3
    MaxVersion = 2
    MaxTime = 4
    MaxDay = 2
SPECIFICATION Spec
INVARIANTS
    TypeOK
    BlockedStaysBlocked
    LongOutagesLeaveTraces
    LogIsAWindow
    ProxyServesSafely
    PolicySurvivesRestart
    RetryIsNew
    ReadsAreBound
SYMMETRY Symmetry
CHECK_DEADLOCK FALSE

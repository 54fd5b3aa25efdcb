CONSTANTS
    Threads = {t1, t2}
    FileMax = 1
    DiskFails = FALSE
    MaxEvents = 4
    MaxTime = 1
SPECIFICATION Spec
INVARIANT
    NothingOverwritten
CHECK_DEADLOCK FALSE

SPECIFICATION FairSpec
CONSTANTS
    StorageAttempts = 1
    StorageRetry = TRUE
    CacheAttempts = 1
    CacheRetry = TRUE
    Task <- MCTask
    Locked <- MCLocked
    Critical <- MCCritical
    Handler = {h1}
    AuditEnabled = TRUE
    Capacity = 1
    MaxEntries = 2
    MaxStored = 1
PROPERTIES ShutdownFinishes
\* The process exits, or panics.
CHECK_DEADLOCK FALSE

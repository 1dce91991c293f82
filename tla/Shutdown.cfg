SPECIFICATION FairSpec
CONSTANTS
    StorageAttempts = 2
    StorageRetry = TRUE
    CacheAttempts = 3
    CacheRetry = TRUE
    Task <- MCTask
    Locked <- MCLocked
    Critical <- MCCritical
    Handler = {h1}
    AuditEnabled = TRUE
    Capacity = 1
    MaxEntries = 2
    MaxStored = 3
INVARIANTS TypeOK OneTaskAtATime CriticalBeforeCancel ConnectedWhileRunning ClosedUnderUncounted
PROPERTIES StartupEnds ShutdownEnds AuditIsSent
\* The process exits, or panics.
CHECK_DEADLOCK FALSE

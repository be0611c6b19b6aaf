\* Two threads that mutate, drop, snapshot and fail; crashes, tears, restarts.
CONSTANTS
    Threads = {t1, t2}
    Main = t1
    SnapshotThreads = {t1, t2}
    MaxSequence = 6
    MaxBatch = 2
    MaxFailures = 2
    MaxRuns = 3
    TornUnits = {1, 2, 5}
SPECIFICATION FairSpec
INVARIANTS TypeOK LossHasCause EpochRepeatHasCause HealthyStoreIsReadable
PROPERTIES StartsAreDecided ImplementsLog
CHECK_DEADLOCK FALSE

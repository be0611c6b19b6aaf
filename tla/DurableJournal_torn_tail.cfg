\* A mutation acknowledged behind a torn record that nothing fills.
CONSTANTS
    Threads = {t1}
    Main = t1
    SnapshotThreads = {}
    MaxSequence = 6
    MaxBatch = 1
    MaxFailures = 1
    MaxRuns = 2
    TornUnits = {2}
SPECIFICATION Spec
INVARIANTS NoSilentLoss

CHECK_DEADLOCK FALSE

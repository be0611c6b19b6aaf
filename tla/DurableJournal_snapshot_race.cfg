\* A mutation acknowledged while another thread takes a snapshot.
CONSTANTS
    Threads = {t1, t2}
    Main = t1
    SnapshotThreads = {t2}
    MaxSequence = 6
    MaxBatch = 1
    MaxFailures = 0
    MaxRuns = 2
    TornUnits = {}
SPECIFICATION Spec
INVARIANTS NoSilentLoss

CHECK_DEADLOCK FALSE

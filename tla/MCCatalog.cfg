\* Any callers; a crash at every record, clean stops, restarts.
CONSTANTS
    c1 = c1
    c2 = c2
    i1 = i1
    NoDomain = NoDomain
    Resources = {1, 2}
    DomainsOf <- MCDomainsOf
    Edges <- MCEdges
    MaxGeneration = 5
    MaxCrashes = 1
SYMMETRY Interchangeable
SPECIFICATION Spec
INVARIANTS TypeOK ReplayAgrees MembershipIsMutual ShutdownIsReadable NextGenerationIsNew
\* A coordinator that refused its store stays stopped.
CHECK_DEADLOCK FALSE

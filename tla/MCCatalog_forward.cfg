\* Any callers, who may declare members that are not registered yet.
CONSTANTS
    c1 = c1
    c2 = c2
    i1 = i1
    NoDomain = NoDomain
    Resources = {1, 2}
    DomainsOf <- MCDomainsOf
    Edges <- MCEdges
    MaxGeneration = 5
    MaxCrashes = 1
SYMMETRY Interchangeable
SPECIFICATION Spec
INVARIANT StoppedCanStart
CHECK_DEADLOCK FALSE

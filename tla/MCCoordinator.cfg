\* One worker, two boots, two connections, one restart.
SPECIFICATION Spec
CONSTANTS
    w1 = w1
    b1 = b1
    b2 = b2
    c1 = c1
    c2 = c2
    Workers = {w1}
    Boots = {b1, b2}
    WorkerOf <- MCWorkerOf
    Resources = {r1}
    Connections = {c1, c2}
    NoBoot = NoBoot
    NoConnection = NoConnection
    NoResource = NoResource
    Operator = operator
    MaxConnections = 2
    MaxWorkers = 3
    MaxEpoch = 2
    MaxInputs = 2
CHECK_DEADLOCK FALSE
INVARIANTS
    TypeOK
    LiveIsCurrent
    AuthorityIsServed
    PeerIsServed
    ConnectionsAreCounted
PROPERTIES
    FenceHolds
    StopReturns

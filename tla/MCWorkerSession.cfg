\* A worker with one resource, polled three times, contained twice; four frames per buffer.
SPECIFICATION Spec
CONSTANTS
    r1 = r1
    r2 = r2
    Resources = {r1}
    ResourceList <- OneResource
    Buffer = 4
    MaxPolls = 3
    MaxContainments = 2
CHECK_DEADLOCK FALSE
INVARIANTS
    TypeOK
    StaleGrantIsDetectable
PROPERTIES
    RequestsAreAnswered

\* The worker goes on working for a resource it has reported stopped.
SPECIFICATION Spec
CONSTANTS
    r1 = r1
    r2 = r2
    Resources = {r1}
    ResourceList <- OneResource
    Buffer = 4
    MaxPolls = 3
    MaxContainments = 2
CHECK_DEADLOCK FALSE
PROPERTY
    WorkStopsWhenReported

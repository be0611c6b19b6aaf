\* Radius of every input over five identities: 240 graphs, 15 rules, 9 situations.
SPECIFICATION Spec
CONSTANTS
    Resources = {1, 2, 3, 4, 5}
    Owners = {"boot", "worker"}
    NoOwner = "none"
    Inputs <- MCInputs
CHECK_DEADLOCK FALSE
INVARIANTS
    TypeOK
    RadiusIsLeast
    UnaffectedIsSealed
    BucketsPartition
    ExposureIsBounded
    UnknownIsNotSafe
    RecommendedIsLegal
PROPERTIES
    Terminates

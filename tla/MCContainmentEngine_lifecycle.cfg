\* Two overlapping faults through their whole lifecycle.
CONSTANTS
    a = a
    b = b
    e = e
    fa = fa
    fb = fb
    Resources = {a, b}
    Dependencies = {e}
    From <- MCFrom
    To <- MCTo
    Faults = {fa, fb}
    SubjectOf <- MCSubjectOf
    Mandatory = {fa, fb}
    Releasable = {fa, fb}
    Radii <- MCRadii
    ActionBudget = 1
    Dispatchers = {d1}
    MaxUpdates = 1
    Reports = {TRUE}
    NamesAnyContainment = FALSE
    Bindings = {{b}}
    MaxLosses = 1
    MaxContainments = 2
    MaxRestarts = 0
    MaxPolicies = 0
SPECIFICATION WholeTopologySpec
INVARIANTS TypeOK QuarantineMatchesContainments OneLiveContainmentPerFault
           ContainedIsEvidenced ClearedIsReleased
CHECK_DEADLOCK FALSE

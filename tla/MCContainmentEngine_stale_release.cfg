\* A release names a containment that does not cover the resource.
CONSTANTS
    a = a
    b = b
    e = e
    fa = fa
    fb = fb
    Resources = {a, b}
    Dependencies = {e}
    From <- MCFrom
    To <- MCTo
    Faults = {fa}
    SubjectOf <- MCSubjectOf
    Mandatory = {fa}
    Releasable = {fa}
    Radii <- MCRadii
    ActionBudget = 1
    Dispatchers = {d1}
    MaxUpdates = 2
    Reports = {TRUE}
    NamesAnyContainment = TRUE
    Bindings = {}
    MaxLosses = 0
    MaxContainments = 2
    MaxRestarts = 0
    MaxPolicies = 0
SPECIFICATION Spec
INVARIANT ClearedIsReleased
CHECK_DEADLOCK FALSE

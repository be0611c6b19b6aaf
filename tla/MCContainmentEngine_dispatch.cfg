\* One fault, two concurrent dispatchers, a restart and a policy change.
CONSTANTS
    a = a
    b = b
    e = e
    fa = fa
    fb = fb
    Resources = {a, b}
    Dependencies = {e}
    From <- MCFrom
    To <- MCTo
    Faults = {fa}
    SubjectOf <- MCSubjectOf
    Mandatory = {fa}
    Releasable = {fa}
    Radii <- MCHardRadii
    ActionBudget = 2
    Dispatchers = {d1, d2}
    MaxUpdates = 1
    Reports = {FALSE}
    NamesAnyContainment = TRUE
    Bindings = {}
    MaxLosses = 0
    MaxContainments = 1
    MaxRestarts = 1
    MaxPolicies = 1
SPECIFICATION FairSpec
INVARIANTS ContainedIsEvidenced AuthorizedIsInHand
PROPERTIES NeverRedispatched DispatchSettles
CHECK_DEADLOCK FALSE

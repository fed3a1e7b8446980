SPECIFICATION Spec
CONSTANTS
    j1 = j1
    j2 = j2
    t1 = t1
    t2 = t2
    tenant = tenant
    NoTenant = NoTenant
    Jobs = {j1, j2}
    Registered = {j1, j2}
    Tasks = {t1}
    TenantOf <- OneTenant
    Caller = NoTenant
    SliceLen = 2
    AsyncLimit = 1
    Durations = {2}
    Delays = {1}
    FollowDelay = 2
    SetTargets = {0}
    MaxAdvances = 1
    MaxMishaps = 0
INVARIANTS NothingOverdue
\* The advances end, and nobody need ask for another one.
CHECK_DEADLOCK FALSE

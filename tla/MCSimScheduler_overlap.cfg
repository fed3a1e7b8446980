SPECIFICATION Spec
CONSTANTS
    j1 = j1
    j2 = j2
    t1 = t1
    t2 = t2
    tenant = tenant
    NoTenant = NoTenant
    Jobs = {j1, j2}
    Tasks = {t1, t2}
    Registered = {j1}
    TenantOf <- OneTenant
    Caller = tenant
    SliceLen = 2
    AsyncLimit = 1
    Durations = {2, 3}
    Delays = {2}
    FollowDelay = 2
    SetTargets = {0}
    MaxAdvances = 2
    MaxMishaps = 1
SYMMETRY Twins
INVARIANTS CalledOnceUnlessLost RecordedAsRun NothingOverdue ProgressBounded
PROPERTIES NeverEarly FiredInOrder
\* The advances end, and nobody need ask for another one.
CHECK_DEADLOCK FALSE

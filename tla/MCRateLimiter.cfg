\* Three requests of two tenants; windows of two seconds.
SPECIFICATION Spec
CONSTANTS
    t1 = t1
    t2 = t2
    chat = chat
    models = models
    Unlimited = Unlimited
    Requests = {r1, r2, r3}
    Tenants <- TwoTenants
    Endpoints <- TwoEndpoints
    Overrides <- MCOverrides
    Defaults <- MCDefaults
    Window = 2
    FailOpen = TRUE
    MaxTime = 3
SYMMETRY Symmetry
CHECK_DEADLOCK FALSE
INVARIANTS
    LimitedOnlyOverLimit
    NoTTLOnlyAfterFailure
    WindowWithinLimit

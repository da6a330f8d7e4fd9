\* Two callers, two tenants; two windows pass.
CONSTANTS
    i1 = i1
    i2 = i2
    i3 = i3
    nobody = nobody
    Nobody = nobody
    t1 = t1
    t2 = t2
    Thread = {i1, i2}
    Tenant = {t1, t2}
    GlobalLimit = 3
    PerTenantLimit = 2
    WindowSecs = 2
    MaxTokens = 2
    MaxNow = 5
SPECIFICATION Spec
INVARIANTS
    TypeOK
    OvershootBounded
    TenantOvershootBounded
    DriftBounded
PROPERTIES
    OneResetPerWindow

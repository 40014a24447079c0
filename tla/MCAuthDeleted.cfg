\* A tenant is rotated and then deleted.
SPECIFICATION Spec
CONSTANTS
    Tenants = {t1}
    Keys = {k1, k2}
    Admins = {a1}
    Grace = 2
    TTL = 2
    CacheMax = 1
    MaxTime = 2
    NoKey = NoKey
    NoTenant = NoTenant
    NoAnswer = NoAnswer
SYMMETRY KeySymmetry
PROPERTIES
    DeletedNeverAuthenticate

\* Two CLI processes at once, a third key, time for a grace period to end.
SPECIFICATION Spec
CONSTANTS
    Tenants = {t1}
    Keys = {k1, k2, k3}
    Admins = {a1, a2}
    Grace = 1
    TTL = 2
    CacheMax = 1
    MaxTime = 2
    NoKey = NoKey
    NoTenant = NoTenant
    NoAnswer = NoAnswer
SYMMETRY Symmetry
INVARIANTS
    StaleForLessThanTTL
PROPERTIES
    NoSpuriousReject
    CreateNeverReplaces
    OldKeysKeepTheirGrace

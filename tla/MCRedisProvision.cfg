\* Two administrators, a rotated secret, two tenants with two keys each.
SPECIFICATION Spec
CONSTANTS
    Admins = {a1, a2}
    Chars = {"a", "_"}
    Namespaces <- TwoNamespaces
    Secrets = {p1, p2}
    Names = {k1, k2}
SYMMETRY Symmetry
INVARIANTS
    CommandsSettle
    AclFileCurrent
    PurgeLeavesNothing
PROPERTIES
    PurgeSparesOthers

\* One administrator provisions, the owner migrates.
SPECIFICATION Spec
CONSTANTS
    s1 = s1
    s2 = s2
    q1 = q1
    Alembic = Alembic
    Public = Public
    NoSecret = NoSecret
    Admins = {a1}
    Secrets = {p1}
    Schemas = {s1, s2}
    Objects = {q1, Alembic}
    SchemaOf <- MCSchemaOf
    KindOf <- MCKindOf
INVARIANTS
    NothingOnAlembicVersion

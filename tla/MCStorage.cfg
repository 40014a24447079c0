\* Filesystem: writers one after the other, crashing at will, beside readers.
\* S3: three operations and two closes, in one loop or in a loop each.
SPECIFICATION Spec
CONSTANTS
    Puts <- TwoPuts
    Exclusive <- OnePut
    Deletes <- OneDelete
    Heads <- OneHead
    Gets <- OneGet
    Chunks = 2
    MaxActive = 1
    Ops = {o1, o2, o3}
    Closers = {x1, x2}
    NoClient = NoClient
SYMMETRY Symmetry
CHECK_DEADLOCK FALSE
INVARIANTS
    SettledConsistent
    NoClientLeaks
    NoStaleClient
    LoopOutlivesCall
PROPERTIES
    ImplementsBlobStore

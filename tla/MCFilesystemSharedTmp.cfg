\* Two puts of one key at the same time.
SPECIFICATION Spec
CONSTANTS
    Puts <- TwoPuts
    Exclusive <- NoCalls
    Deletes <- NoCalls
    Heads <- NoCalls
    Gets <- NoCalls
    Chunks = 2
    MaxActive = 2
CHECK_DEADLOCK FALSE
INVARIANTS
    AtomicContent

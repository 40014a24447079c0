\* Four rows; the sink never accepts the second.
SPECIFICATION FairSpec
CONSTANTS
    Ids = {1, 2, 3, 4}
    Poison = {2}
INVARIANTS
    NoLostWakeup
    StopFinishesBatch
PROPERTIES
    NoRepeatInOneLife
    InIdOrder
    AtLeastOnce
    EveryRowProcessed
    StopEnds

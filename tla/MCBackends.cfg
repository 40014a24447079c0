\* Two adapters; a request may outlive the read cap.
SPECIFICATION Spec
CONSTANTS
    N = 2
    Threshold = 2
    FailureCap = 2
    Requests = {r1}
    ReadCap = 1
    MaxDuration = 2
    MaxClients = 3
    Watched = 2
INVARIANTS
    UnhealthyIffStreak
    NoProbeOnClosedClient
    ClientsAccounted
PROPERTIES
    CutOnlyPastReadCap
    HealthConverges
    ShutdownEnds

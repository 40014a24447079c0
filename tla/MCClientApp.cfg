SPECIFICATION AppSpec
CONSTANTS
    w1 = w1
    w2 = w2
    Workers <- TwoWorkers
    Settings <- MCSettings
    None = None
    DefaultTenant = "home"
    JobTenants = {"a", "b"}
    RequestIds = {"x", "y"}
    Spans = {"s", "t"}
    Programs <- MCPrograms
CHECK_DEADLOCK FALSE
INVARIANTS
    RecordsNameTheJob
    EnginesAccounted
    SetupsSettle
PROPERTIES
    SessionsSettle
    JobsEnd

\* Two clients of the gateway, with the SDK or without.
SPECIFICATION Spec
CONSTANTS
    r1 = r1
    r2 = r2
    x = x
    y = y
    Requests <- TwoRequests
    Tenants <- MCTenants
    AllowedModels <- MCAllowed
    Wildcard = "*"
    Models <- MCModels
    Configs <- MCConfigs
    FailOpen = FALSE
    Texts <- TwoTexts
    EmbeddingModels = {"bge"}
    Aliases <- MCAliases
    MaxTexts = 2
    One = 2
    NoTopN = NoTopN
SYMMETRY Symmetry
CHECK_DEADLOCK FALSE
INVARIANTS
    ForwardedIsEntitled
    EachTextItsVector
PROPERTIES
    ListedNotRefused

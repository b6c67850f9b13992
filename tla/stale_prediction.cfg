CONSTANTS
    Ids = {i1, i2}
    Workers = {w1}
    Payloads = {"p1", "p2", "p3"}
    Contexts <- MCContexts
    BasePriorities <- MCBasePriorities
    Requests <- ThreeRequests
    NoRequest = NoRequest
    RuleSets <- OnlyDefaultRules
    DefaultRules <- DefaultRuleList
    Durations = {1, 4}
    Parts = {0}
    MaxTime = 0
    NoJob = NoJob
    NoPayload = NoPayload
    Nobody = Nobody
    ChanCap = 3
    HasConsumer = TRUE
    MaxReplays = 0
    MaxFaults = 0
    MaxCrashes = 0
    MaxShutdowns = 0
SPECIFICATION Spec
PROPERTY AnomalyAgainstMovingAverage

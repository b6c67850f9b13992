CONSTANTS
    Ids = {i1}
    Workers = {w1}
    Payloads = {"p1", "p2", "p3"}
    Contexts <- MCContexts
    BasePriorities <- MCBasePriorities
    Requests <- TwoRequests
    NoRequest = NoRequest
    RuleSets <- OnlyDefaultRules
    DefaultRules <- DefaultRuleList
    Durations = {2}
    Parts = {0}
    MaxTime = 0
    NoJob = NoJob
    NoPayload = NoPayload
    Nobody = Nobody
    ChanCap = 1
    HasConsumer = TRUE
    MaxReplays = 0
    MaxFaults = 0
    MaxCrashes = 1
    MaxShutdowns = 0
SPECIFICATION FairSpec
PROPERTY ReservedSettles

CONSTANTS
    Ids = {i1, i2}
    Workers = {w1}
    Clients = {c1}
    Payloads = {"p1", "p2", "p3"}
    Contexts <- MCContexts
    BasePriorities <- MCBasePriorities
    Requests <- OneRequest
    NoRequest = NoRequest
    RuleSets <- OnlyDefaultRules
    DefaultRules <- DefaultRuleList
    Durations = {1, 8}
    Parts = {0}
    MaxTime = 0
    NoJob = NoJob
    NoPayload = NoPayload
    Nobody = Nobody
    ChanCap = 1
    HasConsumer = TRUE
    MaxReplays = 0
    MaxFaults = 0
    MaxCrashes = 0
    MaxShutdowns = 0
    Scrapers = {s1}
    NoReading = NoReading
    ListLimit = 2
SPECIFICATION BrokerSpec
PROPERTY RefusedOnlyIfActive

CONSTANTS
    Ids = {i1, i2}
    Workers = {w1}
    Clients = {c1, c2}
    Payloads = {"p1", "p2", "p3"}
    Contexts <- MCContexts
    BasePriorities <- MCBasePriorities
    Requests <- TwoPayloads
    NoRequest = NoRequest
    RuleSets <- OnlyDefaultRules
    DefaultRules <- DefaultRuleList
    Durations = {8}
    Parts = {0}
    MaxTime = 0
    NoJob = NoJob
    NoPayload = NoPayload
    Nobody = Nobody
    ChanCap = 1
    HasConsumer = TRUE
    MaxReplays = 1
    MaxFaults = 0
    MaxCrashes = 1
    MaxShutdowns = 0
    Scrapers = {s1, s2}
    NoReading = NoReading
    ListLimit = 2
SPECIFICATION BrokerSpec
SYMMETRY InterchangeableClients
INVARIANT AnswersHold
PROPERTY CountersNeverFall

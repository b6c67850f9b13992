CONSTANTS
    Ids = {i1, i2}
    Workers = {w1, w2}
    Payloads = {"p1", "p2", "p3"}
    Contexts <- MCContexts
    BasePriorities <- MCBasePriorities
    Requests <- ThreeRequests
    NoRequest = NoRequest
    RuleSets <- OnlyDefaultRules
    DefaultRules <- DefaultRuleList
    Durations = {1, 8}
    Parts = {0}
    MaxTime = 1
    NoJob = NoJob
    NoPayload = NoPayload
    Nobody = Nobody
    ChanCap = 1
    HasConsumer = TRUE
    MaxReplays = 1
    MaxFaults = 1
    MaxCrashes = 1
    MaxShutdowns = 0
SPECIFICATION Spec
SYMMETRY Interchangeable
INVARIANTS
    TypeOK
    ExclusiveReservation
    OrphansAccountedFor
    OneJobPerPayload
    MetricsMatchTable
PROPERTIES
    LegalTransitions
    OlderJobsFirst
    ImplementsTaskQueue

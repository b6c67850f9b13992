CONSTANTS
    Ids = {i1}
    Workers = {w1, w2}
    Payloads = {"p1", "p2", "p3"}
    Contexts <- MCContexts
    BasePriorities <- MCBasePriorities
    Requests <- RetryRequests
    NoRequest = NoRequest
    RuleSets <- TwoRuleLists
    DefaultRules <- DefaultRuleList
    Durations = {2}
    Parts = {0, 9}
    MaxTime = 6
    NoJob = NoJob
    NoPayload = NoPayload
    Nobody = Nobody
    ChanCap = 1
    HasConsumer = TRUE
    MaxReplays = 1
    MaxFaults = 0
    MaxCrashes = 0
    MaxShutdowns = 0
SPECIFICATION Spec
SYMMETRY Interchangeable
INVARIANTS
    RetryBudget
    FreshScores
    RetriesDue
PROPERTY BackoffSpacing

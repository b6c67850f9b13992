CONSTANTS
    i1 = i1
    i2 = i2
    h1 = h1
    h2 = h2
    Ids = {i1, i2, i3}
    Workers = {w1, w2}
    Hashes = {h1, h2}
    NoHash = NoHash
    SeedHash <- TwoSeeds
    Saturation = 1
    MaxRetries = 1
    MaxReplays = 1
    Contexts <- AllContexts
    BasePriorities = {0}
    Backoff <- BackoffSeconds
    Positions = {30}
    SeedInfo <- TwoSeedInfos
    NoInfo = NoInfo
    TimeSteps = {12}
    MaxTime = 12
SPECIFICATION FairRankSpec
INVARIANTS SimTypeOK StartsBounded RankTypeOK RanksAsEngine
PROPERTIES OlderFirst StartsWhenDue OnboardingBypassesReports DueJobsStart

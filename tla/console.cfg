CONSTANTS
    i1 = i1
    h1 = h1
    Ids = {i1, i2}
    Workers = {w1, w2}
    Hashes = {h1, h2}
    NoHash = NoHash
    SeedHash <- OneSeed
    Saturation = 2
    MaxRetries = 0
    MaxReplays = 1
    StrictMode = TRUE
    NoJob = NoJob
    Kept = 1
SPECIFICATION ConsoleSpec
SYMMETRY InterchangeableWorkers
INVARIANTS ExclusiveExecution ConsoleTypeOK RunningIsOnRack NothingUncounted DoublesAreRevived

CONSTANTS
    i1 = i1
    h1 = h1
    Ids = {i1, i2, i3}
    Workers = {w1, w2}
    Hashes = {h1, h2}
    NoHash = NoHash
    SeedHash <- OneSeed
    Saturation = 2
    MaxRetries = 1
    MaxReplays = 1
SPECIFICATION SimSpec
INVARIANT LockReleases

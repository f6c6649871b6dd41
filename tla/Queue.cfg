SPECIFICATION FairSpec
CONSTANTS
    i1 = i1
    i2 = i2
    w1 = w1
    w2 = w2
    Ids <- TwoIds
    Workers <- TwoWorkers
    Batch = 2
    MaxAttempts = 3
    Initial = 1
    MaxDelay = 2
    Lease = 3
    Deadline = 2
    Answer = 1
    Verdicts = {"ok","fail","permanent"}
    Faults = {"halt", "db"}
INVARIANT TypeOK
INVARIANT LeaseExclusive
PROPERTY KeepsPromise
PROPERTY Settles

SPECIFICATION FairSpec
CONSTANTS
    i1 = i1
    i2 = i2
    w1 = w1
    w2 = w2
    Ids <- OneId
    Workers <- OneWorker
    Batch = 2
    MaxAttempts = 2
    Initial = 1
    MaxDelay = 2
    Lease = 3
    Deadline = 2
    Answer = 2
    Verdicts = {"ok","fail","permanent"}
    Faults = {}
PROPERTY Settles

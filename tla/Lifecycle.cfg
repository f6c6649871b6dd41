SPECIFICATION LifecycleSpec
CONSTANTS
    Replicas = {r1, r2, r3}
    Period = 7
    Skew = 2
    Lease = 9
    MinHold = 3
    MaxTries = 2
    Timeout = 2
    Delay = 1
    MaxDelay = 2
    Faults = {"crash", "db"}
    Configs <- MCConfigs
    Breakages <- MCBreakages
    Requests = {"q1", "q2"}
    CronStop = 2
    PollEvery = 1
    Off = Off
INVARIANT CronOnce
INVARIANT CronAlone
PROPERTY CronGoesOn
INVARIANT StopsInOrder
INVARIANT NoRefusal
PROPERTY ComesToRest
\* A process that has exited stays so.
CHECK_DEADLOCK FALSE

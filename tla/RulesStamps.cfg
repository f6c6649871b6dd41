SPECIFICATION RulesSpec
CONSTANTS
    k1 = k1
    k2 = k2
    r1 = r1
    r2 = r2
    r3 = r3
    Keys <- TwoKeys
    Requests <- ThreeRequests
    Deployments <- MCDeployments
    Off = Off
    Entities <- OnlyTasks
    Bodies <- MCBodies
    Roles = {"editor", "reader"}
    Dates = {1}
    Day = 2
    MaxTime = 2
PROPERTY SavingKeepsStamp
CHECK_DEADLOCK FALSE

SPECIFICATION EntitySpec
CONSTANTS
    k1 = k1
    k2 = k2
    r1 = r1
    r2 = r2
    r3 = r3
    Keys <- TwoKeys
    Requests <- ThreeRequests
    Deployments <- MCDeployments
    Off = Off
    Entities <- MCEntities
    Bodies <- MCBodies
    Roles = {"editor", "reader"}
    Dates = {1}
    Day = 2
    MaxTime = 2
INVARIANT ChangesLogged
INVARIANT ToldTheTruth
PROPERTY KeepsNewer
PROPERTY AllAnswered
PROPERTY RowsObey
\* A run ends when every request has been answered.
CHECK_DEADLOCK FALSE

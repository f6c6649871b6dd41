SPECIFICATION ServingSpec
CONSTANTS
    N = 5
    Burst = 2
    Rate = 1
    Slack = 2
    Pause = 1
    MaxTime = 7
    None = None
    Nobody = Nobody
    NoAuth = NoAuth
    NULL = NULL
    NoRow = NoRow
    NoCursor = NoCursor
    Off = Off
    Rank <- MCRank
    Numeric <- MCNumeric
    Starts <- MCStarts
    Ends <- MCEnds
    Roles <- MCRoles
    Entities = {"Post", "Tag"}
    Endpoints <- MCEndpoints
    Senders <- MCSenders
    StaticRole = "editor"
    Trusted = {"p1", "p2"}
    RevocationCheck = TRUE
    MaxChanges = 2
    Ids <- MCIds
    Rows <- MCRows
    Reads <- MCReads
    Parents = {"a", "b"}
    Like <- MCLike
    IncludeBatch = 1
    MaxWrites = 2
    MaxGiven = 4
INVARIANT LimitHolds
INVARIANT DecidesRightly
INVARIANT NoStaleCaller
INVARIANT GivesOnlyRightful
INVARIANT WalksRight
CHECK_DEADLOCK FALSE

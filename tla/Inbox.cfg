SPECIFICATION Spec
CONSTANTS
    DefaultTolerance = 1
    Grants <- MCGrants
    LongNames = {"a name too long"}
    WellFormed = {"e1", "e2"}
    Defs <- MCDefs
    Events <- MCEvents
    Sends <- MCSends
    Body <- MCBody
    Id <- MCId
    Workers = 2
    MaxAttempts = 2
    Retention = 2
    Skews <- MCSkews
    MaxTime = 3
    MaxRows = 2
    MaxFaults = 1
INVARIANT GuardsHold
INVARIANT OncePerEvent
INVARIANT Converges
INVARIANT DeadForReason
PROPERTY AcknowledgedSettles
\* Nothing happens once the clock and the inbox are at their bounds and every row is settled.
CHECK_DEADLOCK FALSE

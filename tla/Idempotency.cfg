SPECIFICATION FairSpec
CONSTANTS
    Requests = {r1, r2, r3}
    Bodies = {b1, b2}
    MaxExpiries = 1
    Faults = {"cancel"}
INVARIANT AtMostOnce
PROPERTY ReplayMatches
PROPERTY KeyFreed
\* A run ends when every request has been answered.
CHECK_DEADLOCK FALSE

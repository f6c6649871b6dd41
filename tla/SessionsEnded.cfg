SPECIFICATION Spec
CONSTANTS
    Tokens = {t1, t2, t3}
    Requests = {r1, r2, r3, r4}
    MaxVersion = 1
SYMMETRY Symmetric
INVARIANT EndedIsDead
\* A run ends when every request has been answered.
CHECK_DEADLOCK FALSE

SPECIFICATION Spec
CONSTANTS
    Requests = {r1, r2, r3}
    Identities = {x1, x2}
    Kinds = {"register", "login", "me", "resend", "forgot", "reset", "verify", "oauth", "delete"}
    Limit = 1
    Window = 2
    Faults = TRUE
SYMMETRY Symmetry
INVARIANTS OneTime OldPasswordOut SessionHasUser
PROPERTY LockoutRunsOut
CHECK_DEADLOCK FALSE

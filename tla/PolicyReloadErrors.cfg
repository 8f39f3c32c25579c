SPECIFICATION Spec
CONSTANTS
    Nobody = Nobody
    Requests = {r1}
    Contents <- MCOneChange
    QuietStart = TRUE
INVARIANTS
    BadPolicyIs503
CHECK_DEADLOCK FALSE

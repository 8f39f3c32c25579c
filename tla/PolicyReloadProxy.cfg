SPECIFICATION Spec
CONSTANTS
    Nobody = Nobody
    Requests = {r1, r2}
    Contents <- MCOneChange
    QuietStart = TRUE
INVARIANTS
    ProxySendsProtected
CHECK_DEADLOCK FALSE

SPECIFICATION Spec
CONSTANTS
    Nobody = Nobody
    Requests = {r1}
    Contents <- MCOneChange
    QuietStart = FALSE
INVARIANTS
    RevocationHolds
CHECK_DEADLOCK FALSE

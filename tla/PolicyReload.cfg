SPECIFICATION FairSpec
CONSTANTS
    Nobody = Nobody
    Requests = {r1, r2}
    Contents <- MCContents
    QuietStart = TRUE
INVARIANTS
    TypeOK
    RevocationHolds
    MaskingIsFresh
    NoSpuriousRefusal
PROPERTIES
    NeverBackwards
    EveryRequestAnswered
CHECK_DEADLOCK FALSE

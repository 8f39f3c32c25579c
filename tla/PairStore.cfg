SPECIFICATION Spec
CONSTANTS
    anna = anna
    ivan = ivan
    stars = stars
    long = long
    None = None
    Requests = {r1, r2, r3}
    Consumers = {crm, stand}
    Ids = {id1}
    Bodies <- MCBodies
    Redact <- MCRedact
    Modes = {"off", "redact", "token"}
    Size <- MCSize
    TokenSize <- MCTokenSize
    BodyLimit = 16
    RecordLimit = 32
    MaxDraws = 3
SYMMETRY MCSymmetry
INVARIANTS
    TypeOK
    RoundTrip
    AnsweredFromStore
    OneCreator
    OriginalsHaveNoToken
    OwnTextsOnly
PROPERTIES
    PairImmutable
    KeepsPromise
CHECK_DEADLOCK FALSE

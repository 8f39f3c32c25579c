SPECIFICATION FairSpec
CONSTANTS
    anna = anna
    ivan = ivan
    stars = stars
    long = long
    None = None
    Requests = {r1, r2}
    Consumers = {crm}
    Ids = {id1}
    Bodies <- MCLimitBodies
    Redact <- MCLimitRedact
    Modes = {"off", "redact", "token"}
    Size <- MCLimitSize
    TokenSize <- MCLimitTokenSize
    BodyLimit = 16
    RecordLimit = 14
    MaxDraws = 2
PROPERTIES
    EveryRequestAnswered
CHECK_DEADLOCK FALSE

SPECIFICATION FairSpec
CONSTANTS
    Requests = {r1, r2}
    MaxConcurrency = 1
    Spare = 0
    Threads = 2
    BodyLimit = 2
    ChunkSizes = {1, 2}
INVARIANTS
    TypeOK
    PermitsBalanced
    AnsweredOnce
    HandledWhole
PROPERTIES
    ConnectionsSuffice
    EveryRequestEnds
CHECK_DEADLOCK FALSE

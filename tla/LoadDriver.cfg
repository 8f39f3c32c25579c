\* Four arrivals for two slots: arrivals are dropped, and slots used again.
SPECIFICATION FairSpec
CONSTANTS
    Arrivals = 4
    Concurrency = 2
INVARIANTS
    TypeOK
    Accounted
PROPERTIES
    DropsOnlyWhenFull
    Finishes

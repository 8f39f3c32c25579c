SPECIFICATION Spec
CONSTANTS
    Generators = {g1, g2}
    Builders = {b1, b2}
    Sources = {code, config}
SYMMETRY MCSymmetry
INVARIANTS
    TypeOK
    SecretsSafe
    ReportedWhole
PROPERTIES
    NeverOverwritten
CHECK_DEADLOCK FALSE

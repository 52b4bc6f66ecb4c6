SPECIFICATION Spec
CONSTANTS
    N = 3
    Bits = {b0}
    Images <- MCImages
INVARIANTS
    TypeOK
    ListCoherent
    ChainIsActive
PROPERTIES
    FlipsCounted
    RefinesCappAbs

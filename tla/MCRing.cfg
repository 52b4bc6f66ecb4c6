SPECIFICATION Spec
CONSTANTS
    B = 2
    DEFAULT = 2
    Spares = {0, 1}
    Contents <- MCContents
    MaxBits = 4
    NoFile = NoFile
INVARIANTS
    IndexesFit
    CleanLosesOnlyOnes

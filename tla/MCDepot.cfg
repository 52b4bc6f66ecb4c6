SPECIFICATION Spec
CONSTANTS
    v = v
    ones = ones
    Drums = {0, 1}
    Rings = {0, 1}
    Requests <- MCRequests
    RunIds <- MCRunIds
    Values = {v, ones}
    Ones = ones
    Contents <- MCContents
    Strays = {1, 256}
    MaxLen = 2
    MaxSteps = 4
    Nil = Nil
    NoRing = NoRing
    NoFile = NoFile
INVARIANTS
    TypeOK
PROPERTIES
    OnlyAskedRing
    FilesOnlyWhenWritten
    NothingCutUnasked
    ChangesReachNext

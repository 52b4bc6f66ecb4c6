SPECIFICATION FairFetchSpec
CONSTANTS
    a = a
    v = v
    N = 3
    Bits <- MCBits
    Images = {}
    CodeMask <- MCCodeMask
    Keys <- MCKeys
    Operands <- MCOperands
    NoCode = NoCode
INVARIANTS
    SwapBalanced
PROPERTIES
    RefinesFetchAbs
    DisjointListSurvives
    FetchEnds

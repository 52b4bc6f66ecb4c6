SPECIFICATION Spec
CONSTANTS
    N = 2
    Bits = {0, 1}
    Capacity = 3
    Tapes <- MCTapes
    Masks <- MCMasks
    Operands <- MCOperands
    NoError = NoError
    ErrChannelFull = ErrChannelFull
PROPERTIES
    FetchContinues

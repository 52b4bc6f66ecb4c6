SPECIFICATION Spec
CONSTANTS
    Capacity = 5
    NoError = NoError
    ErrChannelFull = ErrChannelFull
    Width = 2
    Tapes <- MCTapes
    Sizes = {2, 4}
    Values <- MCValues
    MaxSent = 5
    NoLoop = NoLoop
INVARIANTS
    IndexesFit
    OutputAligned
    BytesInOrder
PROPERTY
    RefinesBitQueue

SPECIFICATION FairSpec
CONSTANTS
    temp0 = temp0
    depot = depot
    monitor = monitor
    NoCode = NoCode
    H = 5
    N = 8
    Bits <- MCBits
    STACK_LIMIT = 2
    RESPONSES = 2
    StackBound = 3
    Channels = {temp0, depot, monitor}
    Monitor = monitor
    Temp = temp0
    Capacity = 4
    Decode <- MCDecode
    Programs <- MCPrograms
    Boot <- MCBoot
CHECK_DEADLOCK FALSE
INVARIANTS
    BootClean
    BlockedUnawaited
PROPERTIES
    BootLoads
    BootEnds
    AwaitRetried
    OnlyAwaitOverflows

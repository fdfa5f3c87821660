SPECIFICATION SearchSpec
CONSTANTS
    Offsets = {1, 2}
    Start = 1
    Dies <- ForkedDies
    MaxDepth = 4
INVARIANT NothingReachableInMain
PROPERTY SearchReturns
CHECK_DEADLOCK FALSE

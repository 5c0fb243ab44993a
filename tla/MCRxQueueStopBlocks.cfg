SPECIFICATION FairSpec
CONSTANTS
    Block = {b1, b2, b3}
    Apps = {a1, a2}
    Sizes = {2}
    DefaultSize = 2
    BufferSize = 2
    MaxSegments = 2
    Lengths = {2, 3, 5}
    MaxPackets = 2
    WordSize = 8
    TakeWhileStopping = TRUE
    FreeAfterStop = FALSE
CHECK_DEADLOCK FALSE
PROPERTY
    StopReturns

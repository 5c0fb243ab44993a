\* Applications take and free whenever they like, across stop() and restart.
\* stop() may then block in pop(), so the system may come to rest.
SPECIFICATION Spec
CONSTANTS
    Block = {b1, b2, b3, b4}
    Apps = {a1, a2}
    Sizes = {0, 1, 2}
    DefaultSize = 2
    BufferSize = 2
    MaxSegments = 2
    Lengths = {2, 3, 5}
    MaxPackets = 3
    WordSize = 8
    TakeWhileStopping = TRUE
    FreeAfterStop = TRUE
SYMMETRY Symmetry
CHECK_DEADLOCK FALSE
INVARIANTS
    TypeOK
    
    SoleOwner
    ChainsComplete
    DeliveredInOrder

\* Applications return what they hold before stop() and do not take during it.
SPECIFICATION FairSpec
CONSTANTS
    Block = {b1, b2, b3}
    Apps = {a1, a2}
    Sizes = {0, 1, 2}
    DefaultSize = 2
    BufferSize = 2
    MaxSegments = 2
    Lengths = {2, 3, 5}
    MaxPackets = 4
    WordSize = 8
    TakeWhileStopping = FALSE
    FreeAfterStop = FALSE
INVARIANTS SlotsConserved
PROPERTIES OverflowMeansExhausted ImplementsChannel StopReturns

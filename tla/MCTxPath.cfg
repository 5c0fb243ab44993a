SPECIFICATION Spec
CONSTANTS
    b1 = b1
    b2 = b2
    b3 = b3
    b4 = b4
    Null = Null
    NoFrame = NoFrame
    Putters = {a1, a2}
    Takers = {t1, t2}
    Block = {m1, m2, m3}
    Queues = {q1, q2}
    Buffers = {b1, b2, b3, b4}
    Heap <- MCHeap
    Descriptors <- MCDescriptors
    MaxBurst = 2
    MaxSegments = 2
    Depths = {0, 1}
    MaxCalls = 2
SYMMETRY Symmetry
INVARIANTS
    BurstPrefix
    CountersMatchWire
    GatheredWhole
    MemoryExact
    FramesIntact

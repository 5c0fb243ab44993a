SPECIFICATION ExampleSpec
CONSTANTS
    QueueCount = 2
    QueueSize = 1
    Depth = 1
    MaxSegments = 1
    Hashes = {0, 1}
    Tables <- MCTables
    MaxFrames = 2
    TxDepth = 1
INVARIANT StopIsQuiet
PROPERTY ShutsDown

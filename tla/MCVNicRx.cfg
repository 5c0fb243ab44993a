SPECIFICATION FairSpec
CONSTANTS
    QueueCount = 2
    QueueSize = 1
    Depth = 2
    MaxSegments = 1
    Hashes = {0, 1}
    Tables <- MCTables
    MaxFrames = 3
INVARIANTS EveryFrameCounted OnceInOrder RoutedByOneTable 
PROPERTIES UsesChannels StopReturns PipeIsServed

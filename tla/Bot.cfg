CONSTANTS
    MaxPosts = 3
    MaxQueues = 2
    MaxFaults = 2
SPECIFICATION FairSpec
CHECK_DEADLOCK FALSE
INVARIANTS
    TypeOK
    HandledInOrder
    NoneSkipped
PROPERTIES
    Reconnects
    HeardIsServed
    LoopEnds

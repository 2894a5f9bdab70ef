SPECIFICATION FairSpec
CONSTANTS
    Counts = 5
    Halves = 24
    Compressed <- Mixed
    Denied <- Fence
    Setups <- TwoLoops
    Targets <- Resumed
INVARIANTS
    WordIsMemory
    RoomForAnswer
    OneFetchOwed
    FaultIsDue
    PcIfFollows
PROPERTIES
    ImplementsStream
    NextArrives

SPECIFICATION Spec

CONSTANTS
    Packets <- QueuePackets
    PacketsPerPump = 2
    MaxQueuedBatches = 3
    Limit <- QueueLimit
    MaxAtomicWork = 3
    MaxQueuedFeedback = 1
    BatchBytes = 1
    CommandBytes = 1
    FrameBudgets = {3}
    DrainLimits = {1, 2}
    MaxArrivals = 5
    MaxFeedback = 0
    MaxStarts = 1

INVARIANTS
    TypeOK
    TotalsTrue
    DrainedOnceInOrder
    FrameNeverBlocked

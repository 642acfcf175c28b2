SPECIFICATION FairSpec

CONSTANTS
    Packets <- FeedbackPackets
    PacketsPerPump = 2
    MaxQueuedBatches = 3
    Limit <- WideLimit
    MaxAtomicWork = 3
    MaxQueuedFeedback = 2
    BatchBytes = 1
    CommandBytes = 1
    FrameBudgets = {3}
    DrainLimits = {1}
    MaxArrivals = 1
    MaxFeedback = 3
    MaxStarts = 2

INVARIANTS
    FeedbackOnceInOrder
PROPERTIES
    FeedbackLeaves
    StopReturns

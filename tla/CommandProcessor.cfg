SPECIFICATION FairSpec
CONSTANTS
    Commands <- MCCommands
    Work <- MCWork
    Bytes <- MCBytes
    EnvelopeBytes = 1
    CommandBytes = 1
    EntryBytes = 1
    SlotBytes = 1
    NoMap = "none"
    a = a
    b = b
    c = c
    heavy = heavy
    h1 = h1
    h2 = h2
    MaxChunks = 3
    BatchLimit <- MCBatchLimit
    MaxAtomicWork = 3
    Packets <- MCPackets
    Maps = {h1, h2}
    MaxPending = 2
    Limit <- MCLimit
    MaxFingerprints = 2
    Expiry = 2
    Modes = {TRUE, FALSE}
    MaxApplied = 3
INVARIANTS
    TypeOK
    TotalsTrue
    StreamOrder
    StreamsTrackScene
PROPERTIES
    StalledReassemblyEnds

SPECIFICATION TransportSpec
CONSTANTS
    Commands <- MCCommands
    Work <- MCOne
    Bytes <- MCBytes
    huge = huge
    EnvelopeBytes = 1
    CommandBytes = 1
    EntryBytes = 1
    SlotBytes = 1
    NoMap = "none"
    a = a
    b = b
    c = c
    h = h
    Maps = {h}
    MaxChunks = 3
    MaxPending = 3
    BatchLimit <- MCBatchLimit
    Limit <- MCLimit
    MaxAtomicWork = 3
    MaxFingerprints = 2
    Expiry = 1
    MaxPayload = 3
    Packets <- Sendable
    Clients = {1, 2}
    Script <- MCScript
    BatchIds = 3
    MaxSessions = 2
    MaxAttempts = 3
    MaxApplied = 2
    Modes = {TRUE}
PROPERTIES
    DeliverySpec

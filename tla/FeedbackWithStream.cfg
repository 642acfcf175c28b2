SPECIFICATION FairSpec

CONSTANTS
    A = A
    B = B
    Pages = {A, B}
    FirstPage = A
    NoPage = NoPage
    Fast = 1
    Heartbeat = 2
    Streams = TRUE
    MaxInFlight = 3
    MaxEvents = 1

PROPERTIES
    UnchangedPublished

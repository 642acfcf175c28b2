SPECIFICATION FairSpec

CONSTANTS
    A = A
    B = B
    Pages = {A, B}
    FirstPage = A
    NoPage = NoPage
    Fast = 1
    Heartbeat = 2
    Streams = FALSE
    MaxInFlight = 3
    MaxEvents = 3

PROPERTIES
    CaptureOfThisVisit
    ClientLearns

SPECIFICATION FairSpec

CONSTANTS
    p1 = p1
    p2 = p2
    Producers = {p1}
    NoOne = NoOne
    Gone = Gone
    SlotCount = 2
    MaxFrame = 2
    MaxEvents = 3

INVARIANTS
    TypeOK
    PixelOwnership
    SlotsHaveOwners
    StopIsFinal
    OnlyLateFramesGoBack
PROPERTIES
    ProducerServed

SPECIFICATION FairSpec

CONSTANTS
    alpha = alpha
    beta = beta
    StaticTargets = {"gauge"}
    StaticFields = {"position"}
    Families = {{"text"}}
    DynamicReticles = {"track"}
    DynamicFields = {"position", "color"}
    Templates <- MCTemplates
    MappingHashes = {alpha, beta}
    Clients = {c1, c2, c3}
    c1 = c1
    c2 = c2
    c3 = c3
    NoClient = NoClient
    Shapes <- ThreadShapes
    MaxSubmissions = 2
    WidgetBudget = 2

INVARIANTS
    NothingQueuedAfterStop
    JoinedOnce
PROPERTIES
    StopReturnsQuiescent
    CallsReturn

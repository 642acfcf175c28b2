SPECIFICATION Spec

CONSTANTS
    alpha = alpha
    beta = beta
    StaticTargets = {"gauge"}
    StaticFields = {"position"}
    Families = {{"text"}}
    DynamicReticles = {"track"}
    DynamicFields = {"position", "color"}
    Templates <- MCTemplates
    MappingHashes = {alpha, beta}
    Clients = {c1}
    c1 = c1
    NoClient = NoClient
    Shapes <- MCDeliveryShapes
    MaxSubmissions = 3
    WidgetBudget = 2

INVARIANTS
    TypeOK
    StaticDeltasSurvive
    WidgetsOnceInOrder
    OneMappingPerBatch
    WidgetBudgetHeld
    LifecycleSurvives
PROPERTIES
    FlushDelivers

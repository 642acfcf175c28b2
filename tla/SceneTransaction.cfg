SPECIFICATION Spec
CONSTANTS
    A = A  B = B  Blip = Blip  Mark = Mark  r1 = r1  r2 = r2  s1 = s1  s2 = s2
    Pages = {A, B}
    DefaultPage = A
    Bound <- MCBound
    Reticles = {r1, r2}
    NoReticle = NoReticle
    Strobes = {s1, s2}
    FirstStrobe = s1
    Positions = {0, 1}
    Radius = 2
    Values = {0, 1}
    Keep = Keep
    Batches <- MCBatches
    Bursts <- MCBursts
    Transactional = TRUE
    MaxFeedback = 1
    MaxRequests = 1
    MaxCreated = 2
INVARIANTS TypeOK RollbackRestores StrobeSitsOnLock CreationOrders InteractionOnActivePage CoalescedAlike

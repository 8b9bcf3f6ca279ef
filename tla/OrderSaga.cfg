SPECIFICATION Spec
CONSTANTS
    o1 = o1
    o2 = o2
    o3 = o3
    g1 = g1
    p1 = p1
    p2 = p2
    q1 = q1
    q2 = q2
    None = None
    Orders = {o1, o2}
    Garbage = {g1}
    MaxAttempts = 2
    MaxFaults = 2
    OrderReplicas = {q1}
    InventoryReplicas = {q1}
    BatchSize = 2
    Times = {1}
    Products = {p1, p2}
    InitialStock <- MCStock
    Items <- MCItems
CHECK_DEADLOCK FALSE
INVARIANTS
    TypeOK
    SagaAgreement
    OneDecision
    StockMatchesReservations
PROPERTIES
    ImplementsReservationSaga

\* Two replicas, opposite lock orders, duplicate requests, two faults.
SPECIFICATION FairSpec
CONSTANTS
    o1 = o1
    o2 = o2
    o3 = o3
    g1 = g1
    p1 = p1
    p2 = p2
    p3 = p3
    r1 = r1
    r2 = r2
    None = None
    Orders = {o1, o2, o3}
    Garbage = {g1}
    MaxAttempts = 1
    MaxFaults = 2
    InventoryReplicas = {r1, r2}
    BatchSize = 1
    Times = {1}
    Products = {p1, p2, p3}
    InitialStock <- MCStock
    Items <- MCItems
    Published <- MCPublished
CHECK_DEADLOCK FALSE
INVARIANTS
    TypeOK
    ReadRowsAreCurrent
    StockMatchesReservations
PROPERTIES
    ImplementsInventoryService
    EveryRequestSettled

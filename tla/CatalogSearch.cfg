SPECIFICATION FairSpec
CONSTANTS
    a1 = a1
    a2 = a2
    g1 = g1
    w1 = w1
    w2 = w2
    x1 = x1
    x2 = x2
    None = None
    Products = {a1}
    Garbage = {}
    Declared = {}
    WriteReplicas = {w1}
    ReadReplicas = {w1}
    Readers = {x1}
    BatchSize = 1
    Times = {1}
    MaxFaults = 0
CHECK_DEADLOCK FALSE
PROPERTIES
    EveryProductIndexed

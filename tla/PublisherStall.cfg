\* One replica, as deployed; one deadline passes before the confirm is read.
SPECIFICATION FairPublisherSpec
CONSTANTS
    r1 = r1
    r2 = r2
    w1 = w1
    w2 = w2
    Rows = {r1}
    Copies = {r1}
    Workers = {w1}
    BatchSize = 1
    Times = {1}
    copiesOf <- MCCopiesOf
    MaxFaults = 1
    WireSize = 3
CHECK_DEADLOCK FALSE
PROPERTY EveryRowProcessed

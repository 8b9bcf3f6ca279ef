\* Two replicas of a service, late consumers, one fault.
SPECIFICATION FairPublisherSpec
CONSTANTS
    r1 = r1
    r2 = r2
    w1 = w1
    w2 = w2
    Rows = {r1, r2}
    Copies = {r1, r2}
    Workers = {w1, w2}
    BatchSize = 1
    Times = {1, 2}
    copiesOf <- MCCopiesOf
    MaxFaults = 1
    WireSize = 4
CHECK_DEADLOCK FALSE
INVARIANTS
    PublisherTypeOK
    ProcessedIsQueued
    DuplicatesPaidByFaults
PROPERTY EveryRowProcessed

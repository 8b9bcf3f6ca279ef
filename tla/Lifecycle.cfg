\* All four services, from start to exit, with failures.
SPECIFICATION FairSpec
CONSTANT Services <- AllServices
INVARIANT TypeOK
INVARIANT ReadyOnlyWhenServing
INVARIANT GracefulStop
PROPERTY EveryStopCompletes

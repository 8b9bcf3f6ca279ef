\* Two requests, services that may hang, failing servers, shutdown.
SPECIFICATION FairSpec
CONSTANTS
    x1 = x1
    x2 = x2
    None = None
    Requests = {x1, x2}
    Routes <- MCRoutes
    OptionSets <- MCOptionSets
    ShutdownTimeout = 4
CHECK_DEADLOCK FALSE
INVARIANTS
    TypeOK
    HonestAnswers
    AnswersInTime
    ClosedAfterCalls
PROPERTIES
    EveryRequestAnswered
    FailureExits

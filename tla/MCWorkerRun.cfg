SPECIFICATION FairSpec
CONSTANTS
    Response = 2
    Limit = 3
    PipeRoom = 1
    Operations = {"work", "probe"}
    Faults = {"api", "stuck", "reader", "erase"}
INVARIANTS
    NothingSurvives
    HandlesClosedOnce
    VerdictIsTrue
PROPERTIES
    CallReturns
CHECK_DEADLOCK FALSE

SPECIFICATION FairSpec
CONSTANTS
    MaxVersion = 3
    Bad <- BadSecond
    MaxAttempts = 3
    None = None
    Requests = {r1, r2}
    InitialBase <- DevBase
    Budget <- Everything
INVARIANTS
    TypeOK
    PreviousIsGood
    GoodStayedUp
PROPERTIES
    ServiceReturns
CHECK_DEADLOCK FALSE

SPECIFICATION Spec
CONSTANTS
    MaxVersion = 3
    Bad <- BadThird
    MaxAttempts = 3
    None = None
    Requests = {r1, r2}
    InitialBase <- DevBase
    Budget <- Replacing
PROPERTIES
    NewestWins
CHECK_DEADLOCK FALSE

SPECIFICATION Spec
CONSTANTS
    db = db
    ssh = ssh
    web = web
    None = None
    Gone = Gone
    Choices = {db,ssh,web,None}
    Ports <- OnePort
    Cover <- PortCover
    Addrs = {a1}
    Families = {"v4","v6"}
    Operators = {o1}
    Ops = {"set","settle","follow"}
    Janitor = janitor
    Free = Free
    MaxTrials = 2
    InitialStored = {db}
    MaxMoves = 0
    Budget <- OneEach
INVARIANTS
    TypeOK
    KernelIsActive
PROPERTIES
    StoredWasOnTrial
    EndedByOwnTimer

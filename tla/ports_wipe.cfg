SPECIFICATION FairSpec
CONSTANTS
    db = db
    ssh = ssh
    web = web
    None = None
    Gone = Gone
    Choices = {db,ssh,web,None}
    Ports <- OnePort
    Cover <- PortCover
    Addrs = {}
    Families = {"v4","v6"}
    Operators = {o1}
    Ops = {"set","settle"}
    Janitor = janitor
    Free = Free
    MaxTrials = 2
    InitialStored = {db}
    MaxMoves = 0
    Budget <- WipeOnly
PROPERTIES
    RulesHealed

SPECIFICATION FairSpec
CONSTANTS
    p1 = p1
    p2 = p2
    r1 = r1
    r2 = r2
    r3 = r3
    open = open
    ssh = ssh
    None = None
    Pages = {p1, p2}
    Ids = {r1, r2, r3}
    Restricting = {ssh}
    Harmless = {open}
    FirstRules <- TwoRules
    TrialTime = 1
    MaxLoads = 2
    MaxClicks = 3
    MaxFails = 1
INVARIANTS
    TypeOK
PROPERTIES
    EditIsLocal
    TrialLeavesPage
CHECK_DEADLOCK FALSE

SPECIFICATION Spec
CONSTANTS
    a4 = a4
    a6 = a6
    IPs = {a4,a6}
    FamilyOf <- BothFamilies
    Families = {"v4","v6"}
    Method = "iptables"
    Handlers = {}
    Operators = {o1}
    OperatorOps = {"ban"}
    Janitor = janitor
    Durations = {0,1}
    SettingsSet <- OneSetting
    Points <- EventPoints
    MaxScore = 2
    Whitelists <- NoWhitelist
    InitialRows <- AnyTable
    MaxTime = 2
    Budget <- DbFwCrash
    Prompt = TRUE
    NoIP = NoIP
INVARIANTS
    RuleBacked
    BootRestoresBans

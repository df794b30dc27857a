SPECIFICATION Spec
CONSTANTS
    a4 = a4
    a6 = a6
    IPs = {a4}
    FamilyOf <- BothFamilies
    Families = {"v4","v6"}
    Method = "iptables"
    Handlers = {h1}
    Operators = {o1}
    OperatorOps = {"ban","unban"}
    Janitor = janitor
    Durations = {0,1}
    SettingsSet <- OneSetting
    Points <- EventPoints
    MaxScore = 2
    Whitelists <- NoWhitelist
    InitialRows <- EmptyTable
    MaxTime = 2
    Budget <- NoUpsets
    Prompt = FALSE
    NoIP = NoIP
PROPERTIES
    PermanentKept

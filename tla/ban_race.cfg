SPECIFICATION Spec
CONSTANTS
    a4 = a4
    a6 = a6
    IPs = {a4}
    FamilyOf <- BothFamilies
    Families = {"v4","v6"}
    Method = "iptables"
    Handlers = {h1}
    Operators = {o1}
    OperatorOps = {"ban","unban","settings"}
    Janitor = janitor
    Durations = {0,1}
    SettingsSet <- TwoSettings
    Points <- EventPoints
    MaxScore = 2
    Whitelists <- AnyWhitelist
    InitialRows <- TempTable
    MaxTime = 1
    Budget <- DbFwCrash
    Prompt = FALSE
    NoIP = NoIP
INVARIANTS
    TypeOK
    TargetsNotWhitelisted
PROPERTIES
    NeverBanWhitelisted
    RenewedRowKept

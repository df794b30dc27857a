SPECIFICATION FairSpec
CONSTANTS
    a4 = a4
    a6 = a6
    IPs = {a4,a6}
    FamilyOf <- BothFamilies
    Families = {"v4"}
    Method = "iptables"
    Handlers = {}
    Operators = {}
    OperatorOps = {}
    Janitor = janitor
    Durations = {0,1}
    SettingsSet <- OneSetting
    Points <- EventPoints
    MaxScore = 2
    Whitelists <- NoWhitelist
    InitialRows <- TempTable
    MaxTime = 1
    Budget <- FaultFlush
    Prompt = FALSE
    NoIP = NoIP
PROPERTIES
    ExpiredBanReleased
    BanHealed

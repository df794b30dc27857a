SPECIFICATION Spec
CONSTANTS
    home4 = home4
    home6 = home6
    passed = passed
    net = net
    net6 = net6
    src = src
    friend = friend
    None = None
    HostAddrs = {home4,home6}
    ForwardedAddrs = {passed}
    PublicAddrs = {home4,passed}
    Networks = {net,net6}
    Within <- TwoNetworks
    IPv6 = {home6,net6}
    Wildcard <- Wildcards
    Sources = {src,friend}
    Whitelist = {friend}
    Listeners <- ThreeSockets
    BanMethods = {"iptables","ufw","log","none"}
    ProtectedPorts = {22}
    Drafts <- SomeDrafts
    MaxRules = 2
    MaxPicks = 2
    MaxRefusals = 1
    c1 = c1
    c2 = c2
    c3 = c3
    n1 = n1
    n2 = n2
    n3 = n3
    web = web
    Nothing = Nothing
    Absent = Absent
    Everywhere = "everywhere"
    Engines = {"docker","incus"}
    Boxes <- ThreeBoxes
    Nets <- ThreeNets
    Plugged <- FirstPlugs
    FirstUps <- DockerOrBoth
    Traps = {80}
    Searches = {web}
    Covers <- AllCovers
    MaxActs = 3
    MaxChanges = 1
    MaxErrors = 1
    srcA = srcA
    srcB = srcB
    DayHours = 3
    WeekDays = 2
    Zone = 1
    PeakFloor = 4
    Attackers = {srcA,srcB}
    OutcomeOf <- TwoOutcomes
    Bursts = {1,4}
    MaxLog = 3
    LastTick = 7
    host = host
    box = box
    NoPlace = NoPlace
    Places = {host,box}
    ThisServer = host
    FirstCodes <- HostBad
    StuckAt = 1
    MaxCalls = 1
    MaxPresses = 1
    MaxEvents = 1
    MaxFaults = 1
    MaxDays = 1
    proj = proj
    NoGroup = NoGroup
    NoQuery = NoQuery
    Devices <- FiveDevices
    Cables <- ThreeCables
    Queries = {web}
    Origins <- TwoLayouts
    Spots <- Somewhere
    Wide = 800
    High = 500
    Pointer <- Fingers
    MaxMoves = 2
    g1 = g1
    g2 = g2
    PortOf <- ThreePorts
    Managed = {1}
    FirstFiles <- OneOfTwo
    Guests = {g1,g2}
    NoOne = NoOne
    Unset = Unset
    MaxConns = 2
    MaxLoops = 3
    MaxTurns = 2
    MaxEdits = 1
    MaxEnds = 2
    MaxRefused = 1
\* One at a time: TLC finds each violated.
INVARIANT OffIsSilent
\* INVARIANT ClearedEverywhere
\* INVARIANT StripIsTheDay
\* INVARIANT VerdictAlways
\* INVARIANT OutlineAlways
\* PROPERTY PresentKept
CHECK_DEADLOCK FALSE

SPECIFICATION Spec
CONSTANTS
    Hashes <- EveryKind
    Opened <- Ranged7d
    Filters = {"none", "ip"}
    NoFilter = "none"
    EnginesOn = {"docker", "incus"}
    DefaultEngine = "docker"
    LastPage = 1
    MaxLoads = 2
    MaxClicks = 2
    MaxWorld = 1
    MaxFails = 1
    Blocks <- AllBlocks
    Engines = {"docker", "incus"}
    MaxThreshold = 2
    Newest = 2
    Follows = 2
    None = None
    MaxPresses <- Presses
    MaxFaults = 1
PROPERTY
    OnlyTouched
CHECK_DEADLOCK FALSE

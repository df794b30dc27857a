SPECIFICATION Spec
CONSTANTS
    Hashes <- LinkedViews
    Opened <- LinkedViews
    Filters = {"none"}
    NoFilter = "none"
    EnginesOn = {"docker", "incus"}
    DefaultEngine = "docker"
    LastPage = 0
    MaxLoads = 1
    MaxClicks = 1
    MaxWorld = 0
    MaxFails = 0
    Blocks <- AllBlocks
    Engines = {"docker", "incus"}
    MaxThreshold = 2
    Newest = 2
    Follows = 2
    None = None
    MaxPresses <- Presses
    MaxFaults = 1
INVARIANT
    EngineBookmarked
CHECK_DEADLOCK FALSE

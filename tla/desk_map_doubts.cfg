SPECIFICATION Spec
CONSTANTS
    a = a
    h = h
    w1 = w1
    w2 = w2
    w3 = w3
    w4 = w4
    n1 = n1
    n2 = n2
    n3 = n3
    pair = pair
    worker = worker
    home = home
    spot = spot
    Cts = {a, h, w1, w2, w3, w4}
    Nets = {n1, n2, n3, pair}
    NoCt = NoCt
    NoNet = NoNet
    NoFamily = NoFamily
    Family <- Families
    Locked = {h}
    HostMode = {h}
    Self = {h}
    Builtin = {n2}
    Closed = {n2}
    NewNet = pair
    Home = home
    Spots = {spot}
    Touched = {a, w1}
    Remembered <- W1Moved
    Servers <- Compose
    MaxGestures = 3
    MaxAsks = 1
    MaxWorld = 0
    MaxFails = 0
    MaxReloads = 0
    web = web
    db = db
    ip1 = ip1
    ip2 = ip2
    None = None
    Containers = {web, db}
    IPs = {ip1, ip2}
    Ports = {"public"}
    Opens = {"container", "address", "close", "ban", "create"}
    MaxClicks = 0
    MaxLosses = 1
\* One at a time: TLC finds each violated.
INVARIANT RefreshesElsewhere
\* INVARIANT DragRemembered
CHECK_DEADLOCK FALSE

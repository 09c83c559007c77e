SPECIFICATION Spec
CONSTANTS
    r1 = r1
    r2 = r2
    s1 = s1
    s2 = s2
    x1 = x1
    x2 = x2
    c1 = c1
    c2 = c2
    p1 = p1
    p2 = p2
    None = None
    Parts = {"events"}
    Relay = {r1}
    Stream = {s1, s2}
    HasManager = FALSE
    QueueSize = 1
    BufferSize = 1
    MaxEvents = 2
    Host = {x1, x2}
    Room = {c1, c2}
    TTL = 2
    Interval = 1
    MaxFaults = 2
    MaxLate = 2
    Person = {p1, p2}
    MaxPairs = 4
    MaxStarting = 1
    MaxChats = 1
    MaxCrashes = 1
    MaxKeys = 3
    MaxPages = 2
    Chunks = 2
    MaxReopens = 2
    MaxExits = 2
    MaxUpdates = 3
    Program = {p1, p2}
    MaxIdentities = 0
INVARIANT CoreSurvives
CHECK_DEADLOCK FALSE

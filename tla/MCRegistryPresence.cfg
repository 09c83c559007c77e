SPECIFICATION FairSpec
CONSTANTS
    n1 = n1
    n2 = n2
    c1 = c1
    c2 = c2
    l1 = l1
    None = None
    Forever = Forever
    Node <- OneNode
    Caller <- Callers
    Lister <- Empty
    TTL = 2
    Duration <- Durations
    MaxRelays = 1
INVARIANT
    TypeOK
PROPERTIES
    BanEvadedByRaceOnly
    BannedGoesOffline
    SilentGoesOffline

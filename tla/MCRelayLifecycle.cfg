SPECIFICATION Spec
CONSTANTS
    n1 = n1
    n2 = n2
    c1 = c1
    s1 = s1
    s2 = s2
    k1 = k1
    b1 = b1
    None = None
    Node <- OneNode
    Channel <- Empty
    Stream <- TwoStreams
    Call <- OneCall
    Ban <- OneBan
    Capacity = 1
    MaxEnvelopes = 1
SYMMETRY StreamSymmetry
INVARIANTS
    NoDoubleClose
    NoDeadSession
    BannedOnlyByRace
    NeverUndercounts

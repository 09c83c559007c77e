SPECIFICATION FairSpec
CONSTANTS
    n1 = n1
    n2 = n2
    c1 = c1
    s1 = s1
    s2 = s2
    k1 = k1
    b1 = b1
    None = None
    Node <- Nodes
    Channel <- Channels
    Stream <- TwoStreams
    Call <- Empty
    Ban <- Empty
    Capacity = 1
    MaxEnvelopes = 1

PROPERTIES
    OncePerNode
    BufferedIsSent
    StreamReleased

SPECIFICATION Spec
CONSTANTS
    n1 = n1
    n2 = n2
    c1 = c1
    c2 = c2
    l1 = l1
    None = None
    Forever = Forever
    Node <- Nodes
    Caller <- OneCaller
    Lister <- OneLister
    TTL = 2
    Duration <- Empty
    MaxRelays = 2
SYMMETRY NodeSymmetry
INVARIANT
    ListComplete

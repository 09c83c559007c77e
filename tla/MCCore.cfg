SPECIFICATION Spec
CONSTANTS
    u1 = u1
    u2 = u2
    c1 = c1
    w1 = w1
    w2 = w2
    n1 = n1
    n2 = n2
    h1 = h1
    h2 = h2
    k1 = k1
    k2 = k2
    here = here
    there = there
    nowhere = nowhere
    None = None
    User = {u1, u2}
    Client = {c1}
    Worker = {w1, w2}
    TokenLife = 1
    VaultLife = 1
    MaxRoleChanges = 1
    MaxUnlocks = 2
    Node <- Nodes
    Registered <- Nodes
    Channel = {games}
    Inicio = Inicio
    System = System
    Handler <- Handlers
    Window = 0
    Skew <- Skews
    MaxCreates = 2
    MaxSigned = 2
    MaxCalls = 2
    MaxRestarts = 1
    Core <- Cores
    Peer = {p1}
    Address <- Addresses
    Seed = here
    SelfAddress <- LoopbackAddress
    Dial <- DialFromClient
    MaxJoins = 2
    MaxStops = 1
SYMMETRY Symmetry
INVARIANTS
    TypeOK
    GenesisOwners
    RoleIsRecent
    VaultIsTimed
    AuditExplainsRoles
    LoadedIsCurrent
    OnlyVouchedAddresses
    ForgottenOnlyAfterRejoin
PROPERTIES
    ReplacedByRaceOnly

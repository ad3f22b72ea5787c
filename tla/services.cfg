SPECIFICATION ServicesSpec
CONSTANTS
    None = None
    A = {a1, a2}
    B = {b1, b2}
    RestoreIds = {m1}
    Targets = {a1, a2}
    Nonces = {b1, b2}
    Runs = {c1, c2}
    Edits = {e1}
    Databases = {m1}
    Pushes = {e1}
    MaxKey = 3
    ReadsMayOverlap = FALSE
    Hosts = {m1, m2}
    SelfHost = m1
    RecoveryKeys = {e1}
    Owners = {w1}
    SetupServers = {a1, a2}
    StoreKeys = {b1, b2}
    MaxHand = 1
    Deliveries = {a1, a2}
    Hooks = {b1, b2}
    Relays = {c1, c2}
    MaxSecret = 2
    Users = {m1}
    Principals = {m2}
    SessionTokens = {a1, a2}
    Logins = {e1}
    MaxEpoch = 3
    MaxEvents = 2
    MaxLines = 3
    Writes = {"all", "part", "nothing", "no newline"}
    MaxSequence = 4
    MaxDebt = 2
    MaxStreamed = 4
    TurnServers = {m1}
    TurnItems = {b1, b2, m2}
    VolumesItem = m2
    MaxItemMoves = 1
    Dashes = {b1, b2}
    GroupNames = {a1, a2}
    GroupApps = {m1}
    BoundServers = {b1, b2}
    MaxGroupWrites = 6
    FleetServers = {m1}
    AppServers = {m1}
    MaxChanges = 2
SYMMETRY Alike
INVARIANTS
    ServicesTypeOK
    SingleFlight
    VerdictIsOfTarget
    PlainVolumesStayOut
    HeldIsAlive
    AcknowledgedIsKept
    RevokedStaysOut
    StreamsAreWhole
    ReadyWhenReadsInOrder
    ResumedReplayIsHonest
    GroupsAddUp
    ChoiceIsKept
    FreshShowsChanges
CHECK_DEADLOCK FALSE

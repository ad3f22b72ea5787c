SPECIFICATION WatchingSpec
CONSTANTS
    None = None
    A = {a1, a2}
    B = {b1, b2}
    Monitors = {m1}
    Tokens = {t1}
    Kinds = {"push"}
    Requests = {a1, a2}
    Tasks = {b1, b2}
    MaxIncarnation = 2
    MaxRestarts = 1
    DomainServers = {a1, a2}
    MaxMoves = 1
    Grace = 1
    LockCap = 0
    MaintenanceCap = 1
    Ceiling = 0
    MaxClock = 4
    SilenceIds = {a1, a2}
    SilencedRules = {m1}
    ChannelIds = {c1, c2}
    FlatChannels = {c1}
    WatchedRules = {m1}
    MaxAnnouncers = 1
    Receivers = {a1, a2}
    AuditServers = {a1, a2}
    Machines = {b1, b2}
    Findings = {m1}
    Instances = {b1, b2}
    AppKeys = {a1, a2}
    SiblingServers = {m1}
    MaxReports = 3
SYMMETRY Alike
INVARIANTS
    WatchingTypeOK
    WatchedRightly
    IncarnationNamesConfig
    RestsOnEvidence
    StaysAsAsked
    AlertsGoOut
    SetIsRecorded
CHECK_DEADLOCK FALSE

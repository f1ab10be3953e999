\* The constants of each component in its order. Every bound may be
\* used up: CHECK_DEADLOCK is off for that.
SPECIFICATION RecordsSpec
CONSTANTS
    Caller = {"u"}
    MaxIdentities = 2
    MaxStarts = 1
    Loader = {"u", "s"}
    MaxPolicies = 2
    MaxCollections = 2
    Refresher = {"r1"}
    FailingQuery = {"startup"}
    Pull = {w, x}
    Peer = {p, q}
    MaxIssues = 2
    MaxChanges = 1
    LineEndIsRead = TRUE
    MaxDispatches = 2
    NotificationId = {"n"}
    IdempotencyKey = {"k"}
    MaxChatCalls = 2
    MaxClears = 1
SYMMETRY Alike
INVARIANTS
    RecordsTypeOK
    DispatchesAreHonest
    StreamsAreKeptApart
    
    
    ArtifactIsWhole
PROPERTIES
    WithdrawnStaysWithdrawn
CHECK_DEADLOCK FALSE

\* The constants of each component in its order. A debug session may be the last one:
\* CHECK_DEADLOCK is off for that.
SPECIFICATION LoopsSpec
CONSTANTS
    Component <- TwoComponents
    ComponentThresholds <- InventoryIsSlower
    DegradedThreshold = 1
    UnhealthyThreshold = 2
    UnhealthyNotifyCooldown = 2
    MaxRecoveryAttempts = 3
    BeatEvery = 1
    MaxAge = 4
    MaxWedges = 1
    MaxSuspends = 1
    SessionId = {"a"}
    MaxSessions = 2
    DebugQueueSize = 1
    Transports = 2
    MaxCalls = 1
    MaxLines = 1
    MeshNode = {"n1"}
    MeshInstallAttempts = 2
    MaxReinstalls = 1
    MaxPayloads = 2
    DrainLimit = 1
    MaxConfigs = 1
    MaxDispatches = 2
    NotificationId = {"n"}
    IdempotencyKey = {}
    MaxChatCalls = 2
    MaxClears = 0
PROPERTIES
    RecoveryIsSound
    HangsAreHandled
    DebugSessionsEnd
    
    
    UserCallsReturn
CHECK_DEADLOCK FALSE

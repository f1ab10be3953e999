\* One command delivered twice; NATS over a websocket and then the hub; every kind of
\* failure once; package tasks in two processes. MaxConns = 1 + MaxBreaks + MaxConfigs +
\* MaxCrashes, so that the loop never runs out. A quiet agent with its bounds spent is no
\* deadlock.
SPECIFICATION ConnectionSpec
CONSTANTS
    Commands <- OneCommand
    Transports <- WssThenHub
    Challenges = TRUE
    MaxDeliveries = 2
    MaxConns = 4
    MaxBreaks = 1
    MaxRefusals = 1
    MaxFaults = 1
    MaxConfigs = 1
    MaxCrashes = 1
    Settings <- FourSettings
    HubCommand = {h1, h2}
    HubPatience = 1
    InboxSize = 1
    WireSize = 2
    Executor = {"gui", "service"}
    PackageTasks <- FourTasks
    PSADTPolicies <- PackagePolicies
    MaxToolFaults = 1
    MaxReleases = 1
INVARIANTS
    NoResultDropped
    DuplicatesHaveACause
    StatusFollowsLoop
    SessionsAreTrusted
    CommandsAreHeard
    OutcomesAreHonest
PROPERTIES
    ChannelWorks
    ResultsAreForwarded
CHECK_DEADLOCK FALSE

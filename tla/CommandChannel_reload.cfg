\* The configuration changes once, on a network without failures.
SPECIFICATION ConnectionSpec
CONSTANTS
    Commands <- OneCommand
    Transports <- NatsThenHub
    Challenges = TRUE
    MaxDeliveries = 1
    MaxConns = 2
    MaxBreaks = 0
    MaxRefusals = 0
    MaxFaults = 0
    MaxConfigs = 1
    MaxCrashes = 0
    Settings <- FourSettings
    HubCommand = {h1, h2}
    HubPatience = 1
    InboxSize = 1
    WireSize = 2
    Executor = {"gui"}
    PackageTasks <- FourTasks
    PSADTPolicies <- PackagePolicies
    MaxToolFaults = 0
    MaxReleases = 0
PROPERTIES
    ReloadTakesEffect
CHECK_DEADLOCK FALSE

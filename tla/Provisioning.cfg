\* Every bound may be used up: CHECK_DEADLOCK is off for that.
SPECIFICATION AgentSpec
CONSTANTS
    MaxRegistrations = 2
    MaxEvents = 2
    Configurations <- ThreeConfigurations
    MaxPublished = 2
    MaxSaves = 1
    MaxMishaps = 1
    MaxAgentStarts = 1
    Agent = {"a", "b"}
    Asker = {"a"}
    Sharer = {"b"}
    MaxHosts <- TwoHostsOfB
    MaxFinds = 2
INVARIANT
    ConfigurationIsFollowed
PROPERTIES
    
    FallbackIsNewest
    
CHECK_DEADLOCK FALSE

\* Two resources: the configuration, which is cached and fetched alone, and one of an
\* unknown kind, which stands for a full resync. Every bound allows its event once,
\* and one ping to be delivered again.
SPECIFICATION FairSpec
CONSTANTS
    Resources <- ConfigAndOther
    Kind <- KindOfConfigAndOther
    MaxRevision = 2
    MaxDeliveries = 2
    MaxFailures = 1
    MaxRestarts = 1
INVARIANTS
    TriggersAreSound
PROPERTIES
    
    Converges

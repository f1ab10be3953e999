\* Two releases, three installations, every kind of failure. The bound MaxInstalls
\* may stop a check before its download: CHECK_DEADLOCK is off for that only.
SPECIFICATION FairSpec
CONSTANTS
    MaxVersion = 2
    Policies <- TwoPolicies
    MaxInstalls = 3
    MaxFailures = 1
    MaxLost = 1
    MaxTriggers = 1
    MaxPolicies = 1
    MaxCrashes = 1
INVARIANTS
    RecordIsSound
PROPERTIES
    OffersAreFollowed
    SuccessIsReported
CHECK_DEADLOCK FALSE

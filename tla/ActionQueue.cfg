\* Two requests, a batch of two, one failed call, one restart, two seconds.
SPECIFICATION FairSpec
CONSTANTS
    Actions <- TwoActions
    Batch = 2
    MaxSecond = 1
    MaxFaults = 1
    MaxRestarts = 1
INVARIANTS
    RecordsAgree
    AtMostOneExecution
    FifoAcrossSeconds
PROPERTIES
    KeepsLedger
    QueuedIsServed

SPECIFICATION FairSpec
CONSTANTS
    Tasks <- OneTask
    DeferTimes = 1
    MaxTriggers = 2
    MaxRuns = 3
    MaxFaults = 2
    MaxRestarts = 1

    
PROPERTIES
    PutOffComes
CHECK_DEADLOCK FALSE

SPECIFICATION FairSpec
CONSTANTS
    Tasks <- OneTask
    TriggersOf <- AllTriggers
    Offered <- KeptTwice
    MaxFaults = 1
    MaxRestarts = 1

    
PROPERTIES
    PolicySettles

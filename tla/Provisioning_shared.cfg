SPECIFICATION ProvisioningSpec
CONSTANTS
    MaxRegistrations = 1
    MaxEvents = 1
INVARIANT
    SharedWithUi
CHECK_DEADLOCK FALSE

SPECIFICATION Spec
CONSTANTS
    MaxRecords = 3
    MaxCrashes = 2
    MaxUpgrades = 0
INVARIANT StillWellFormed
CHECK_DEADLOCK FALSE

SPECIFICATION Spec
CONSTANTS
    MaxMessages = 2
    MaxSteps = 1
    MaxCalls = 1
    MaxUndos = 1
    MaxCrashes = 0
    Rash = TRUE
    Pops = FALSE
    Imports = FALSE
INVARIANT
    Resumable
CHECK_DEADLOCK FALSE

SPECIFICATION Spec
CONSTANTS
    MaxMessages = 2
    MaxSteps = 2
    MaxCalls = 2
    MaxUndos = 1
    MaxCrashes = 1
    Rash = FALSE
    Pops = TRUE
    Imports = TRUE
INVARIANTS
    RequestWellFormed
    Resumes
    IncomingDelivered
PROPERTIES
    NothingUncovered
CHECK_DEADLOCK FALSE

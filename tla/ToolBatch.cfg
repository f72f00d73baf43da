SPECIFICATION FairSpec
CONSTANTS
    N = 3
    Accesses <- FileAccesses
    NoAccess <- Empty
    Excludes <- AccessConflict
    Gap = Gap
    Src = Src
    SRC = SRC
    App = App
INVARIANTS
    TypeOK
    NoConflictingExecution
    NothingLeftBehind
    NoMissedWakeup
    SchedulerExact
PROPERTIES
    NoStartAfterAbort
    ProviderOrder
    BatchEnds
